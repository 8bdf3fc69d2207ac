CONSTANTS
  Task = {t1}
  Run = {r1, r2}
  TaskOf <- MCOneTask
  Worker = {w1, w2}
  NoWorker = NoWorker
  NoRun = NoRun
  Registered = {}
  MaxAttempts = 2
  MaxConcurrency = 1
  JoinedRowsLocked = TRUE
  MaxFaults = 0
  MaxOverruns = 1
SPECIFICATION Spec
SYMMETRY WorkersAndRuns
INVARIANTS TypeOK LeaseMatchesStatus SuccessIsReported LiveRunsWithinLimit
PROPERTY TerminalIsFinal
