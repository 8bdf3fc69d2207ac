CONSTANTS
  Task = {t1}
  Run = {r1}
  TaskOf <- MCOneTask
  Worker = {w1, w2}
  NoWorker = NoWorker
  NoRun = NoRun
  Registered = {t1}
  MaxAttempts = 2
  MaxConcurrency = 1
  JoinedRowsLocked = FALSE
  MaxFaults = 0
  MaxOverruns = 1
SPECIFICATION Spec
INVARIANT ConcurrencyLimitHolds
