CONSTANTS
  Ticket = {a1, a2}
  Thread = {t1, t2, t3}
  User = {u1, u2}
  Scope = {a1, a2}
  MaxRetries = 1
  NoUser = NoUser
  NoScope = NoScope
  NoJob = NoJob
  Skill = {k1}
  Topic = {p1, p2}
  Experience = {a1, a2}
  Code = {a1, a2}
  NoCode = NoCode
  NoEntry = NoEntry
  MaxVersions = 3
  MaxBegun = 3
  Record = {t1, t2, t3}
  Kind = {f}
  Fusible = {f}
  Evidential = {f}
  NoKind = NoKind
  NoRecord = NoRecord
  MaxWork = 4
  Candidate = {a1, a2}
  Handler = {t1, t2, t3}
  NoTarget = NoTarget
  NoReview = NoReview
  Device = {k1}
  Operation = {p1}
  Content = {a1, a2}
  Call = {t1, t2, t3}
  NoContent = NoContent
  NoCall = NoCall
SYMMETRY Alike
SPECIFICATION MCSpec
INVARIANTS ReviewTypes RunsAreGranted RunsPerTicket ValidationsHold ActiveIsVouchedFor CatalogFollowsReviews RecallIsVouchedFor LearnedOnce OneTokenPerConsent AcceptedEvidenceStands
PROPERTIES VerdictsAreFinal VersionsMoveForward DecisionsStand EndedMemoriesStayOut
CHECK_DEADLOCK FALSE
