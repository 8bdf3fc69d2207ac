CONSTANTS
  Task = {t1}
  Run = {r1}
  TaskOf <- MCOneTask
  Worker = {w1, w2}
  NoWorker = NoWorker
  NoRun = NoRun
  Registered = {}
  MaxAttempts = 2
  MaxConcurrency = 1
  JoinedRowsLocked = FALSE
  MaxFaults = 1
  MaxOverruns = 2
SPECIFICATION FairSpec
INVARIANTS ClaimsAreDistinct AttemptBudget VerdictAfterTheEnd
PROPERTIES LifecycleSpec RunsComeToAnEnd
