CONSTANTS
  Event = {e1}
  Subscription = {s1}
  Worker = {w1, w2}
  Listens <- MCListens
  Recorded <- MCRecorded
  None = None
  AttemptLimit = 3
  Reports = {"accepted", "bounced", "failed"}
  ReportId = {i1, i2, i3, i4}
  QuietHours = TRUE
  MaxFaults = 1
SPECIFICATION Spec
SYMMETRY WorkersAndReports
INVARIANTS TypeOK SendBudget ResendsHaveReasons DeliveredNamesItsMessage DeadLettersHaveCauses
