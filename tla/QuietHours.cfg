CONSTANTS
  Event = {e1}
  Subscription = {s1}
  Worker = {w1}
  Listens <- MCListens
  Recorded <- MCRecorded
  None = None
  AttemptLimit = 5
  Reports = {}
  ReportId = {}
  QuietHours = TRUE
  MaxFaults = 0
SPECIFICATION Spec
INVARIANT FailedIsRetried
