CONSTANTS
  User = {u1}
  Tenant = {x1, x2}
  Session = {s1}
  Thread = {t1, t2}
  MaxRotations = 2
  Faulty = TRUE
  NoUser = NoUser
  NoSession = NoSession
  NoJob = NoJob
SYMMETRY Alike
SPECIFICATION Spec
INVARIANTS TypeOK TokensAreExchangedOnce NobodyEntersUnvouched
 
CHECK_DEADLOCK FALSE
