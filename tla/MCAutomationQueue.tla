------------------------- MODULE MCAutomationQueue -------------------------
(* Model values of AutomationQueue for TLC. *)
EXTENDS AutomationQueue, TLC

\* All runs belong to one task.
MCOneTask == [r \in Run |-> CHOOSE t \in Task : TRUE]

\* Workers and runs are only ever compared; a task maps to all of the runs.
WorkersAndRuns == Permutations(Worker) \cup Permutations(Run)
=============================================================================
