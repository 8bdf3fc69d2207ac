CONSTANTS
  Task = {t1}
  Run = {r1}
  TaskOf <- MCOneTask
  Worker = {w1, w2}
  NoWorker = NoWorker
  NoRun = NoRun
  Registered = {t1}
  MaxAttempts = 2
  MaxConcurrency = 1
  JoinedRowsLocked = FALSE
  MaxFaults = 1
  MaxOverruns = 0
SPECIFICATION FairSpec
PROPERTY SuccessIsAnnounced
