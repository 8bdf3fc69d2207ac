CONSTANTS
  Event = {e1}
  Subscription = {s1, s2}
  Worker = {w1, w2}
  Listens <- MCListens
  Recorded <- MCRecorded
  None = None
  AttemptLimit = 2
  Reports = {}
  ReportId = {}
  QuietHours = FALSE
  MaxFaults = 0
SPECIFICATION FairSpec
PROPERTY DeliveriesSettle
