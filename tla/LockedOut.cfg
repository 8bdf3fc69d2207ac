CONSTANTS
  User = {u1}
  Tenant = {x1}
  Session = {s1}
  Thread = {t1}
  MaxRotations = 1
  Faulty = FALSE
  NoUser = NoUser
  NoSession = NoSession
  NoJob = NoJob
SPECIFICATION Spec
INVARIANT SessionsEndWithTheAccount
CHECK_DEADLOCK FALSE
