----------------------- MODULE AutomationQueueProofs -----------------------
(***************************************************************************)
(* Proofs about AutomationQueue, for any tasks, runs, workers, limits and  *)
(* bounds.                                                                 *)
(*                                                                         *)
(* The inductive invariant adds to the properties what makes them hold:    *)
(* who holds row locks and on which rows (SelectionInv), and how the       *)
(* tickets of the workers relate to the rows they work on (TicketInv).     *)
(* Five further invariants rest on it: ReportInv for the events, BudgetInv *)
(* for the attempts, CapacityInv for the live leases of a task, and until  *)
(* a lease is overrun ExclusiveInv for what a lease is good for and        *)
(* VerdictInv for the truth of what is announced.                          *)
(***************************************************************************)
EXTENDS AutomationQueue, FiniteSetTheorems, FunctionTheorems, TLAPS

Live == {"queued", "running", "retry_wait"}

\* Only an open claim holds locks, its choice is among them, no row is locked
\* twice, and a locked row stays claimable: nothing else may end it.
SelectionInv ==
  /\ \A w \in Worker : pc[w] # "selected" => locks[w] = {}
  /\ \A w \in Worker : pc[w] = "selected" => cur[w] \in locks[w]
  /\ \A v, w \in Worker : \A r \in Run : r \in locks[v] /\ r \in locks[w] => v = w
  /\ \A w \in Worker : \A r \in locks[w] : status[r] \in Live

\* A worker past its claim works on a run that has been started, under a
\* ticket no later than the run's attempt.
TicketInv ==
  \A w \in Worker :
    /\ pc[w] = "selected" => ticket[w] = 0
    /\ ticket[w] # 0 \/ pc[w] \notin {"idle", "selected"} =>
         /\ cur[w] \in Run
         /\ status[cur[w]] \notin {"absent", "queued"}
         /\ ticket[w] <= attempt[cur[w]]
    /\ pc[w] = "idle" => cur[w] = NoRun

IInv == TypeOK /\ SelectionInv /\ LeaseMatchesStatus /\ TicketInv /\ ClaimsAreDistinct

Started(w) == pc[w] \notin {"idle", "selected"}
Planned == {"raised", "failing", "recording", "finishing", "reporting"}

\* A worker that is about to report a verdict works on a run that is over, and
\* without a fault a success is reported or about to be.
ReportInv ==
  /\ \A w \in Worker : pc[w] = "reporting" /\ plan[w] # "retry" => status[cur[w]] \in Terminal
  /\ VerdictAfterTheEnd
  /\ \A r \in Run :
       status[r] = "succeeded" /\ faults = 0 =>
         \/ \E e \in outbox : e.run = r /\ e.type = "succeeded"
         \/ \E w \in Worker : pc[w] = "reporting" /\ cur[w] = r /\ plan[w] = "succeeded"

\* The attempt numbers below the last that may still put r back in the queue:
\* those to come, and those of workers that have not finished with it.
Holds(w, r, n) ==
  cur[w] = r /\ ticket[w] = n /\ pc[w] # "reporting" /\ status[r] \notin Terminal
Unused(r) ==
  {n \in 1..(MaxAttempts - 1) : \/ n > attempt[r]
                                \/ status[r] \in {"absent", "queued"}
                                \/ \E w \in Worker : Holds(w, r, n)}
Waits(r) == IF status[r] = "retry_wait" THEN 1 ELSE 0

\* A worker retries only on an attempt number below the last, no earlier than
\* its ticket; each retry uses up one of the numbers.
BudgetInv ==
  /\ \A w \in Worker : Started(w) => ticket[w] # 0
  /\ \A w \in Worker : Started(w) /\ pc[w] # "claimed" => ticket[w] <= seen[w]
  /\ \A w \in Worker : plan[w] = "retry" => pc[w] \in Planned /\ seen[w] < MaxAttempts
  /\ \A r \in Run :
       attempt[r] + Waits(r) + Cardinality(Unused(r)) <= MaxAttempts + reclaims[r]

\* Two open claims lock runs of different tasks, and the run a claim chose
\* still fits.
LiveRuns(t) == {r \in Run : TaskOf[r] = t /\ lease[r] = "live"}
CapacityInv ==
  /\ \A v, w \in Worker : v # w =>
       \A q \in locks[v], r \in locks[w] : TaskOf[q] # TaskOf[r]
  /\ \A w \in Worker : pc[w] = "selected" =>
       Cardinality(LiveRuns(TaskOf[cur[w]]) \ {cur[w]}) < MaxConcurrency
  /\ \A t \in Task : IsFiniteSet(LiveRuns(t))
  /\ LiveRunsWithinLimit

\* A worker that has a run to itself: from its claim until it leaves run_once
\* or has put the run back.
Busy(w) == Started(w) /\ ~(pc[w] = "reporting" /\ plan[w] = "retry")
Starting == {"claimed", "loaded", "executing"}
Leases(w) == lease[cur[w]] = "live" /\ owner[cur[w]] = w

\* A run somebody selects is under no live lease, and as long as no lease has
\* been overrun a busy worker keeps its lease until the run is over.
ExclusiveInv ==
  /\ \A w \in Worker : pc[w] = "selected" => lease[cur[w]] # "live"
  /\ overruns = 0 =>
       /\ \A w \in Worker : Busy(w) =>
            \/ Leases(w)
            \/ status[cur[w]] = "cancelled"
            \/ status[cur[w]] \in Terminal /\ pc[w] \notin Starting
       /\ \A v, w \in Worker : Busy(v) /\ Busy(w) /\ cur[v] = cur[w] => v = w

\* Until a fault or an overrun a busy worker has its lease, or its run was
\* cancelled, or it ended the run as it planned; verdicts say what happened.
Ended(w) ==
  \/ status[cur[w]] = "cancelled"
  \/ pc[w] = "reporting" /\ status[cur[w]] = plan[w]
VerdictInv ==
  faults = 0 /\ overruns = 0 =>
    /\ \A w \in Worker : Busy(w) => Leases(w) \/ Ended(w)
    /\ \A e \in outbox :
         e.type \in {"succeeded", "failed"} => status[e.run] \in {e.type, "cancelled"}

-----------------------------------------------------------------------------
\* Initially every part of the invariant holds.
LEMMA InitIInv == Init => IInv
<1> SUFFICES ASSUME Init PROVE IInv
  OBVIOUS
<1> USE ConstantsAssumption DEF ConstantsAssumption
<1>1. TypeOK
  BY DEF Init, TypeOK, RowsTypeOK, WorkersTypeOK, LogsTypeOK, RunStatus, Terminal, StepStatus, Plan, Position
<1>2. SelectionInv
  BY DEF Init, SelectionInv
<1>3. LeaseMatchesStatus
  BY DEF Init, LeaseMatchesStatus
<1>4. TicketInv
  BY DEF Init, TicketInv
<1>5. ClaimsAreDistinct
  BY DEF Init, ClaimsAreDistinct
<1> QED
  BY <1>1, <1>2, <1>3, <1>4, <1>5 DEF IInv

\* No step leaves the types.
LEMMA NextTypeOK == TypeOK /\ [Next]_vars => TypeOK'
<1> SUFFICES ASSUME TypeOK, [Next]_vars PROVE TypeOK'
  OBVIOUS
<1>1. RowsTypeOK'
  <2> USE ConstantsAssumption DEF ConstantsAssumption, TypeOK, RowsTypeOK, WorkersTypeOK, RunStatus, Terminal, StepStatus,
            Plan,             rowVars, workerVars
  <2>1. ASSUME NEW r \in Run, Enqueue(r) PROVE RowsTypeOK'
    BY <2>1 DEF Enqueue
  <2>2. ASSUME NEW r \in Run, CancelRun(r) PROVE RowsTypeOK'
    BY <2>2 DEF CancelRun
  <2>3. ASSUME NEW r \in Run, LeaseLapses(r) \/ LeaseOverrun(r) PROVE RowsTypeOK'
    BY <2>3 DEF LeaseLapses, LeaseOverrun, ExpireLease
  <2>4. ASSUME NEW r \in Run, RetryComesDue(r) PROVE RowsTypeOK'
    BY <2>4 DEF RetryComesDue
  <2>5. ASSUME NEW t \in Task, SetTaskStatus(t) PROVE RowsTypeOK'
    BY <2>5 DEF SetTaskStatus
  <2>6. ASSUME NEW w \in Worker, ClaimSelect(w) PROVE RowsTypeOK'
    BY <2>6 DEF ClaimSelect, Goto
  <2>7. ASSUME NEW w \in Worker, ClaimCommit(w) PROVE RowsTypeOK'
    BY <2>7 DEF ClaimCommit, Goto
  <2>8. ASSUME NEW w \in Worker, ReadClaim(w) \/ StartHandler(w) \/ HandlerReturns(w) PROVE RowsTypeOK'
    BY <2>8 DEF ReadClaim, StartHandler, HandlerReturns, Goto
  <2>9. ASSUME NEW w \in Worker, FailUnregistered(w) PROVE RowsTypeOK'
    <3>1. cur[w] \in Run /\ FinishRun(cur[w], "failed") /\ step' = step
      BY <2>9 DEF FailUnregistered
    <3> QED
      BY <3>1 DEF FinishRun
  <2>10. ASSUME NEW w \in Worker, HandlerRaises(w) \/ HandlerTimesOut(w) \/ PublishError(w) PROVE RowsTypeOK'
    BY <2>10 DEF HandlerRaises, HandlerTimesOut, PublishError, Fault, InTry, FailurePlan, Goto
  <2>11. ASSUME NEW w \in Worker, CheckCancelled(w) \/ CheckFailing(w) PROVE RowsTypeOK'
    BY <2>11 DEF CheckCancelled, CheckFailing, Goto, Leave
  <2>12. ASSUME NEW w \in Worker, RecordStep(w) PROVE RowsTypeOK'
    BY <2>12 DEF RecordStep, Goto
  <2>13. ASSUME NEW w \in Worker, Finish(w) PROVE RowsTypeOK'
    BY <2>13 DEF Finish, FinishRun, Goto
  <2>14. ASSUME NEW w \in Worker, Report(w) PROVE RowsTypeOK'
    BY <2>14 DEF Report, EmitRunEvent, Leave
  <2>15. ASSUME NEW w \in Worker, StoreError(w) \/ Crash(w) PROVE RowsTypeOK'
    BY <2>15 DEF StoreError, Crash, Fault, Leave
  <2>16. CASE UNCHANGED vars
    BY <2>16 DEF vars
  <2> QED
    BY <2>1, <2>2, <2>3, <2>4, <2>5, <2>6, <2>7, <2>8, <2>9, <2>10, <2>11, <2>12, <2>13, <2>14, <2>15, <2>16 DEF Next, RunOnce
<1>2. WorkersTypeOK'
  <2> USE ConstantsAssumption DEF ConstantsAssumption, TypeOK, WorkersTypeOK, RowsTypeOK, Plan, Position,
            rowVars, workerVars
  <2>1. ASSUME NEW r \in Run, Enqueue(r) PROVE WorkersTypeOK'
    BY <2>1 DEF Enqueue
  <2>2. ASSUME NEW r \in Run, CancelRun(r) PROVE WorkersTypeOK'
    BY <2>2 DEF CancelRun
  <2>3. ASSUME NEW r \in Run, LeaseLapses(r) \/ LeaseOverrun(r) PROVE WorkersTypeOK'
    BY <2>3 DEF LeaseLapses, LeaseOverrun, ExpireLease
  <2>4. ASSUME NEW r \in Run, RetryComesDue(r) PROVE WorkersTypeOK'
    BY <2>4 DEF RetryComesDue
  <2>5. ASSUME NEW t \in Task, SetTaskStatus(t) PROVE WorkersTypeOK'
    BY <2>5 DEF SetTaskStatus
  <2>6. ASSUME NEW w \in Worker, ClaimSelect(w) PROVE WorkersTypeOK'
    BY <2>6 DEF ClaimSelect, Goto
  <2>7. ASSUME NEW w \in Worker, ClaimCommit(w) PROVE WorkersTypeOK'
    BY <2>7 DEF ClaimCommit, Goto
  <2>8. ASSUME NEW w \in Worker, ReadClaim(w) \/ StartHandler(w) \/ HandlerReturns(w) PROVE WorkersTypeOK'
    BY <2>8 DEF ReadClaim, StartHandler, HandlerReturns, Goto
  <2>9. ASSUME NEW w \in Worker, FailUnregistered(w) PROVE WorkersTypeOK'
    BY <2>9 DEF FailUnregistered, FinishRun, Leave
  <2>10. ASSUME NEW w \in Worker, HandlerRaises(w) \/ HandlerTimesOut(w) \/ PublishError(w) PROVE WorkersTypeOK'
    BY <2>10 DEF HandlerRaises, HandlerTimesOut, PublishError, Fault, InTry, FailurePlan, Goto
  <2>11. ASSUME NEW w \in Worker, CheckCancelled(w) \/ CheckFailing(w) PROVE WorkersTypeOK'
    <3>1. CASE Leave(w)
      BY <3>1 DEF Leave
    <3>2. CASE ~Leave(w)
      <4>1. pc[w] # "idle" /\ UNCHANGED <<cur, ticket, seen, locks>>
        BY <2>11, <3>2 DEF CheckCancelled, CheckFailing
      <4>2. \E position \in {"recording", "failing"} : Goto(w, position)
        BY <2>11, <3>2 DEF CheckCancelled, CheckFailing
      <4>3. /\ plan' = plan \/ plan' = [plan EXCEPT ![w] = "succeeded"] \/ plan' = [plan EXCEPT ![w] = plan[w]]
            /\ pc[w] = "returned" => plan' = [plan EXCEPT ![w] = "succeeded"]
            /\ pc[w] # "returned" => plan[w] # "none"
        BY <2>11, <3>2 DEF CheckCancelled, CheckFailing
      <4> QED
        BY <4>1, <4>2, <4>3 DEF Goto
    <3> QED
      BY <3>1, <3>2
  <2>12. ASSUME NEW w \in Worker, RecordStep(w) PROVE WorkersTypeOK'
    BY <2>12 DEF RecordStep, Goto
  <2>13. ASSUME NEW w \in Worker, Finish(w) PROVE WorkersTypeOK'
    BY <2>13 DEF Finish, FinishRun, Goto
  <2>14. ASSUME NEW w \in Worker, Report(w) PROVE WorkersTypeOK'
    BY <2>14 DEF Report, EmitRunEvent, Leave
  <2>15. ASSUME NEW w \in Worker, StoreError(w) \/ Crash(w) PROVE WorkersTypeOK'
    <3>1. Leave(w)
      BY <2>15 DEF StoreError, Crash
    <3> QED
      BY <3>1 DEF Leave
  <2>16. CASE UNCHANGED vars
    BY <2>16 DEF vars
  <2> QED
    BY <2>1, <2>2, <2>3, <2>4, <2>5, <2>6, <2>7, <2>8, <2>9, <2>10, <2>11, <2>12, <2>13, <2>14, <2>15, <2>16 DEF Next, RunOnce
<1>3. LogsTypeOK'
  <2> USE ConstantsAssumption DEF ConstantsAssumption, TypeOK, LogsTypeOK, RowsTypeOK, WorkersTypeOK, EventType, Plan, RunStatus, Terminal,
            rowVars, workerVars
  <2>1. ASSUME NEW r \in Run, Enqueue(r) PROVE LogsTypeOK'
    BY <2>1 DEF Enqueue
  <2>2. ASSUME NEW r \in Run, CancelRun(r) PROVE LogsTypeOK'
    BY <2>2 DEF CancelRun
  <2>3. ASSUME NEW r \in Run, LeaseLapses(r) \/ LeaseOverrun(r) PROVE LogsTypeOK'
    BY <2>3 DEF LeaseLapses, LeaseOverrun, ExpireLease
  <2>4. ASSUME NEW r \in Run, RetryComesDue(r) PROVE LogsTypeOK'
    BY <2>4 DEF RetryComesDue
  <2>5. ASSUME NEW t \in Task, SetTaskStatus(t) PROVE LogsTypeOK'
    BY <2>5 DEF SetTaskStatus
  <2>6. ASSUME NEW w \in Worker, ClaimSelect(w) PROVE LogsTypeOK'
    BY <2>6 DEF ClaimSelect, Goto
  <2>7. ASSUME NEW w \in Worker, ClaimCommit(w) PROVE LogsTypeOK'
    BY <2>7 DEF ClaimCommit, Goto
  <2>8. ASSUME NEW w \in Worker, ReadClaim(w) \/ StartHandler(w) \/ HandlerReturns(w) PROVE LogsTypeOK'
    BY <2>8 DEF ReadClaim, StartHandler, HandlerReturns, Goto
  <2>9. ASSUME NEW w \in Worker, FailUnregistered(w) PROVE LogsTypeOK'
    BY <2>9 DEF FailUnregistered, FinishRun, Leave
  <2>10. ASSUME NEW w \in Worker, HandlerRaises(w) \/ HandlerTimesOut(w) \/ PublishError(w) PROVE LogsTypeOK'
    BY <2>10 DEF HandlerRaises, HandlerTimesOut, PublishError, Fault, InTry, FailurePlan, Goto
  <2>11. ASSUME NEW w \in Worker, CheckCancelled(w) \/ CheckFailing(w) PROVE LogsTypeOK'
    BY <2>11 DEF CheckCancelled, CheckFailing, Goto, Leave
  <2>12. ASSUME NEW w \in Worker, RecordStep(w) PROVE LogsTypeOK'
    BY <2>12 DEF RecordStep, Goto
  <2>13. ASSUME NEW w \in Worker, Finish(w) PROVE LogsTypeOK'
    BY <2>13 DEF Finish, FinishRun, Goto
  <2>14. ASSUME NEW w \in Worker, Report(w) PROVE LogsTypeOK'
    BY <2>14 DEF Report, EmitRunEvent, Leave
  <2>15. ASSUME NEW w \in Worker, StoreError(w) \/ Crash(w) PROVE LogsTypeOK'
    BY <2>15 DEF StoreError, Crash, Fault, Leave
  <2>16. CASE UNCHANGED vars
    BY <2>16 DEF vars
  <2> QED
    BY <2>1, <2>2, <2>3, <2>4, <2>5, <2>6, <2>7, <2>8, <2>9, <2>10, <2>11, <2>12, <2>13, <2>14, <2>15, <2>16 DEF Next, RunOnce
<1> QED
  BY <1>1, <1>2, <1>3 DEF TypeOK

\* A worker that ends up with no lock disturbs no other claim as long as the
\* rows it changes were not locked.
LEMMA OutsideClaims ==
  ASSUME TypeOK, SelectionInv, NEW w \in Worker,
         pc'[w] # "selected",
         locks'[w] = {},
         \A v \in Worker \ {w} : pc'[v] = pc[v] /\ cur'[v] = cur[v] /\ locks'[v] = locks[v],
         \A r \in Run : Locked(r) => status'[r] = status[r]
  PROVE  SelectionInv'
BY DEF TypeOK, WorkersTypeOK, SelectionInv, Locked

\* Locks and choices: every step keeps SelectionInv.
LEMMA NextSelection == TypeOK /\ SelectionInv /\ [Next]_vars => SelectionInv'
<1> SUFFICES ASSUME TypeOK, SelectionInv, [Next]_vars PROVE SelectionInv'
  OBVIOUS
<1> USE DEF TypeOK, RowsTypeOK, WorkersTypeOK, SelectionInv, Live, rowVars, workerVars
<1>1. ASSUME NEW r \in Run, Enqueue(r) PROVE SelectionInv'
  BY <1>1 DEF Enqueue
<1>2. ASSUME NEW r \in Run, CancelRun(r) PROVE SelectionInv'
  BY <1>2 DEF CancelRun, Locked
<1>3. ASSUME NEW r \in Run, LeaseLapses(r) \/ LeaseOverrun(r) PROVE SelectionInv'
  BY <1>3 DEF LeaseLapses, LeaseOverrun, ExpireLease
<1>4. ASSUME NEW r \in Run, RetryComesDue(r) PROVE SelectionInv'
  BY <1>4 DEF RetryComesDue
<1>5. ASSUME NEW t \in Task, SetTaskStatus(t) PROVE SelectionInv'
  BY <1>5 DEF SetTaskStatus
<1>6. ASSUME NEW w \in Worker, ClaimSelect(w) PROVE SelectionInv'
  <2>1. \A r \in locks'[w] : Claimable(r) /\ ~Locked(r)
    BY <1>6 DEF ClaimSelect
  <2>2. /\ pc' = [pc EXCEPT ![w] = "selected"]
        /\ cur'[w] \in locks'[w]
        /\ \A v \in Worker \ {w} : cur'[v] = cur[v] /\ locks'[v] = locks[v]
        /\ UNCHANGED status
    BY <1>6 DEF ClaimSelect, Goto
  <2> QED
    BY <2>1, <2>2 DEF Claimable, Locked
<1>7. ASSUME NEW w \in Worker, ClaimCommit(w) PROVE SelectionInv'
  <2>1. cur[w] \in locks[w] /\ cur[w] \in Run
    BY <1>7 DEF ClaimCommit
  <2>2. \A v \in Worker \ {w} : cur[w] \notin locks[v]
    BY <2>1
  <2> QED
    BY <1>7, <2>1, <2>2 DEF ClaimCommit, Goto
<1>8. ASSUME NEW w \in Worker, ReadClaim(w) \/ StartHandler(w) \/ HandlerReturns(w)
      PROVE SelectionInv'
  <2>1. /\ pc'[w] # "selected"
        /\ locks'[w] = {}
        /\ \A v \in Worker \ {w} : pc'[v] = pc[v] /\ cur'[v] = cur[v] /\ locks'[v] = locks[v]
    BY <1>8 DEF ReadClaim, StartHandler, HandlerReturns, Goto
  <2>2. \A r \in Run : Locked(r) => status'[r] = status[r]
    BY <1>8 DEF ReadClaim, StartHandler, HandlerReturns, Goto
  <2> QED
    BY <2>1, <2>2, OutsideClaims
<1>9. ASSUME NEW w \in Worker, FailUnregistered(w)
      PROVE SelectionInv'
  <2>1. /\ pc'[w] # "selected"
        /\ locks'[w] = {}
        /\ \A v \in Worker \ {w} : pc'[v] = pc[v] /\ cur'[v] = cur[v] /\ locks'[v] = locks[v]
    BY <1>9 DEF FailUnregistered, FinishRun, Leave, Locked
  <2>2. \A r \in Run : Locked(r) => status'[r] = status[r]
    BY <1>9 DEF FailUnregistered, FinishRun, Leave, Locked
  <2> QED
    BY <2>1, <2>2, OutsideClaims
<1>10. ASSUME NEW w \in Worker, HandlerRaises(w) \/ HandlerTimesOut(w) \/ PublishError(w)
      PROVE SelectionInv'
  <2>1. /\ pc'[w] # "selected"
        /\ locks'[w] = {}
        /\ \A v \in Worker \ {w} : pc'[v] = pc[v] /\ cur'[v] = cur[v] /\ locks'[v] = locks[v]
    BY <1>10 DEF HandlerRaises, HandlerTimesOut, PublishError, InTry, FailurePlan, Goto
  <2>2. \A r \in Run : Locked(r) => status'[r] = status[r]
    BY <1>10 DEF HandlerRaises, HandlerTimesOut, PublishError
  <2> QED
    BY <2>1, <2>2, OutsideClaims
<1>11. ASSUME NEW w \in Worker, CheckCancelled(w) \/ CheckFailing(w)
      PROVE SelectionInv'
  <2>1. /\ pc'[w] # "selected"
        /\ locks'[w] = {}
        /\ \A v \in Worker \ {w} : pc'[v] = pc[v] /\ cur'[v] = cur[v] /\ locks'[v] = locks[v]
    BY <1>11 DEF CheckCancelled, CheckFailing, Goto, Leave
  <2>2. \A r \in Run : Locked(r) => status'[r] = status[r]
    BY <1>11 DEF CheckCancelled, CheckFailing, Goto, Leave
  <2> QED
    BY <2>1, <2>2, OutsideClaims
<1>12. ASSUME NEW w \in Worker, RecordStep(w)
      PROVE SelectionInv'
  <2>1. /\ pc'[w] # "selected"
        /\ locks'[w] = {}
        /\ \A v \in Worker \ {w} : pc'[v] = pc[v] /\ cur'[v] = cur[v] /\ locks'[v] = locks[v]
    BY <1>12 DEF RecordStep, Goto
  <2>2. \A r \in Run : Locked(r) => status'[r] = status[r]
    BY <1>12 DEF RecordStep, Goto
  <2> QED
    BY <2>1, <2>2, OutsideClaims
<1>13. ASSUME NEW w \in Worker, Finish(w)
      PROVE SelectionInv'
  <2>1. /\ pc'[w] # "selected"
        /\ locks'[w] = {}
        /\ \A v \in Worker \ {w} : pc'[v] = pc[v] /\ cur'[v] = cur[v] /\ locks'[v] = locks[v]
    BY <1>13 DEF Finish, FinishRun, Goto, Locked
  <2>2. \A r \in Run : Locked(r) => status'[r] = status[r]
    BY <1>13 DEF Finish, FinishRun, Goto, Locked
  <2> QED
    BY <2>1, <2>2, OutsideClaims
<1>14. ASSUME NEW w \in Worker, Report(w)
      PROVE SelectionInv'
  <2>1. /\ pc'[w] # "selected"
        /\ locks'[w] = {}
        /\ \A v \in Worker \ {w} : pc'[v] = pc[v] /\ cur'[v] = cur[v] /\ locks'[v] = locks[v]
    BY <1>14 DEF Report, Leave
  <2>2. \A r \in Run : Locked(r) => status'[r] = status[r]
    BY <1>14 DEF Report, Leave
  <2> QED
    BY <2>1, <2>2, OutsideClaims
<1>15. ASSUME NEW w \in Worker, StoreError(w) \/ Crash(w)
      PROVE SelectionInv'
  <2>1. /\ pc'[w] # "selected"
        /\ locks'[w] = {}
        /\ \A v \in Worker \ {w} : pc'[v] = pc[v] /\ cur'[v] = cur[v] /\ locks'[v] = locks[v]
    BY <1>15 DEF StoreError, Crash, Leave
  <2>2. \A r \in Run : Locked(r) => status'[r] = status[r]
    BY <1>15 DEF StoreError, Crash, Leave
  <2> QED
    BY <2>1, <2>2, OutsideClaims
<1>16. CASE UNCHANGED vars
  BY <1>16 DEF vars
<1> QED
  BY <1>1, <1>2, <1>3, <1>4, <1>5, <1>6, <1>7, <1>8, <1>9, <1>10, <1>11, <1>12,
     <1>13, <1>14, <1>15, <1>16 DEF Next, RunOnce

\* The steps that write a run's row; every other step leaves all rows alone.
LEMMA RowSteps ==
  [Next]_vars =>
    \/ \E r \in Run : \/ Enqueue(r) \/ CancelRun(r) \/ LeaseLapses(r)
                      \/ LeaseOverrun(r) \/ RetryComesDue(r)
    \/ \E w \in Worker : ClaimCommit(w) \/ FailUnregistered(w) \/ Finish(w)
    \/ UNCHANGED rowVars
BY DEF Next, RunOnce, vars, SetTaskStatus, ClaimSelect, ReadClaim, StartHandler,
       HandlerReturns, HandlerRaises, HandlerTimesOut, CheckCancelled, CheckFailing,
       RecordStep, Report, PublishError, StoreError, Crash

\* Leases, owners and retry instants follow the status.
LEMMA NextLeaseMatches ==
  TypeOK /\ SelectionInv /\ LeaseMatchesStatus /\ [Next]_vars => LeaseMatchesStatus'
<1> SUFFICES ASSUME TypeOK, SelectionInv, LeaseMatchesStatus, [Next]_vars
             PROVE  LeaseMatchesStatus'
  OBVIOUS
<1> USE ConstantsAssumption DEF ConstantsAssumption, TypeOK, RowsTypeOK, WorkersTypeOK,
        LeaseMatchesStatus, rowVars
<1>1. ASSUME NEW r \in Run, Enqueue(r) PROVE LeaseMatchesStatus'
  BY <1>1 DEF Enqueue
<1>2. ASSUME NEW r \in Run, CancelRun(r) PROVE LeaseMatchesStatus'
  BY <1>2 DEF CancelRun
<1>3. ASSUME NEW r \in Run, LeaseLapses(r) \/ LeaseOverrun(r) PROVE LeaseMatchesStatus'
  BY <1>3 DEF LeaseLapses, LeaseOverrun, ExpireLease
<1>4. ASSUME NEW r \in Run, RetryComesDue(r) PROVE LeaseMatchesStatus'
  BY <1>4 DEF RetryComesDue
<1>5. ASSUME NEW w \in Worker, ClaimCommit(w) PROVE LeaseMatchesStatus'
  BY <1>5 DEF ClaimCommit
<1>6. ASSUME NEW w \in Worker, FailUnregistered(w) PROVE LeaseMatchesStatus'
  <2>1. cur[w] \in Run /\ FinishRun(cur[w], "failed")
    BY <1>6 DEF FailUnregistered
  <2> QED
    BY <2>1 DEF FinishRun
<1>7. ASSUME NEW w \in Worker, Finish(w) PROVE LeaseMatchesStatus'
  <2>1. /\ cur[w] \in Run
        /\ \E s \in {"succeeded", "failed", "retry_wait"} : FinishRun(cur[w], s)
    BY <1>7 DEF Finish, Plan
  <2> QED
    BY <2>1 DEF FinishRun
<1>8. ASSUME UNCHANGED rowVars PROVE LeaseMatchesStatus'
  BY <1>8
<1>9. \/ \E r \in Run : \/ Enqueue(r) \/ CancelRun(r) \/ LeaseLapses(r)
                        \/ LeaseOverrun(r) \/ RetryComesDue(r)
      \/ \E w \in Worker : ClaimCommit(w) \/ FailUnregistered(w) \/ Finish(w)
      \/ UNCHANGED rowVars
  BY RowSteps
<1> QED
  BY <1>1, <1>2, <1>3, <1>4, <1>5, <1>6, <1>7, <1>8, <1>9

\* What a step does to the workers: one claims, one leaves run_once, one moves
\* on within it, or none moves.
LEMMA WorkerSteps ==
  [Next]_vars =>
    \/ \E w \in Worker : ClaimSelect(w) \/ ClaimCommit(w) \/ Leave(w)
    \/ \E w \in Worker : \E p \in Position \ {"idle", "selected"} :
         pc[w] \notin {"idle", "selected"} /\ Goto(w, p) /\ UNCHANGED <<cur, ticket>>
    \/ UNCHANGED <<pc, cur, ticket>>
<1> SUFFICES ASSUME [Next]_vars, UNCHANGED <<pc, cur, ticket>> => FALSE
             PROVE  \/ \E w \in Worker : ClaimSelect(w) \/ ClaimCommit(w) \/ Leave(w)
                    \/ \E w \in Worker : \E p \in Position \ {"idle", "selected"} :
                         /\ pc[w] \notin {"idle", "selected"}
                         /\ Goto(w, p)
                         /\ UNCHANGED <<cur, ticket>>
  OBVIOUS
<1>1. PICK w \in Worker : ClaimSelect(w) \/ RunOnce(w) \/ PublishError(w) \/ StoreError(w) \/ Crash(w)
  BY DEF Next, vars, workerVars, Enqueue, CancelRun, LeaseLapses, LeaseOverrun,
         ExpireLease, RetryComesDue, SetTaskStatus
<1>2. CASE ClaimSelect(w) \/ ClaimCommit(w)
  BY <1>2
<1>3. CASE FailUnregistered(w) \/ Report(w) \/ StoreError(w) \/ Crash(w)
  BY <1>3 DEF FailUnregistered, Report, StoreError, Crash
<1>4. CASE CheckCancelled(w) \/ CheckFailing(w)
  BY <1>4 DEF CheckCancelled, CheckFailing, Position
<1>5. CASE \/ ReadClaim(w) \/ StartHandler(w) \/ HandlerReturns(w) \/ HandlerRaises(w)
           \/ HandlerTimesOut(w) \/ RecordStep(w) \/ Finish(w) \/ PublishError(w)
  <2>1. UNCHANGED <<cur, ticket>> /\ pc[w] \notin {"idle", "selected"}
    BY <1>5 DEF ReadClaim, StartHandler, HandlerReturns, HandlerRaises, HandlerTimesOut,
                RecordStep, Finish, PublishError, InTry
  <2>2. \E p \in Position \ {"idle", "selected"} : Goto(w, p)
    BY <1>5 DEF ReadClaim, StartHandler, HandlerReturns, HandlerRaises, HandlerTimesOut,
                RecordStep, Finish, PublishError, Position
  <2> QED
    BY <2>1, <2>2
<1> QED
  BY <1>1, <1>2, <1>3, <1>4, <1>5 DEF RunOnce

\* A claim writes a ticket later than those of all other workers on the run,
\* and no step but a claim gives one out.
LEMMA NextTickets ==
  TypeOK /\ SelectionInv /\ TicketInv /\ ClaimsAreDistinct /\ [Next]_vars
    => TicketInv' /\ ClaimsAreDistinct'
<1> SUFFICES ASSUME TypeOK, SelectionInv, TicketInv, ClaimsAreDistinct, [Next]_vars
             PROVE  TicketInv' /\ ClaimsAreDistinct'
  OBVIOUS
<1> USE DEF TypeOK, RowsTypeOK, WorkersTypeOK
\* Rows: a run that was started is never absent or queued again, and its
\* attempt never decreases.
<1>1. \A r \in Run : status[r] \notin {"absent", "queued"} =>
        /\ status'[r] \notin {"absent", "queued"}
        /\ attempt'[r] >= attempt[r]
        /\ attempt'[r] \in Nat
  <2>1. ASSUME NEW q \in Run, Enqueue(q) \/ CancelRun(q) \/ LeaseLapses(q)
                              \/ LeaseOverrun(q) \/ RetryComesDue(q)
        PROVE  <1>1!:
    BY <2>1 DEF Enqueue, CancelRun, LeaseLapses, LeaseOverrun, ExpireLease, RetryComesDue
  <2>2. ASSUME NEW w \in Worker, ClaimCommit(w) PROVE <1>1!:
    BY <2>2 DEF ClaimCommit
  <2>3. ASSUME NEW w \in Worker, FailUnregistered(w) PROVE <1>1!:
    <3>1. cur[w] \in Run /\ FinishRun(cur[w], "failed")
      BY <2>3 DEF FailUnregistered
    <3> QED
      BY <3>1 DEF FinishRun, rowVars
  <2>4. ASSUME NEW w \in Worker, Finish(w) PROVE <1>1!:
    <3>1. /\ cur[w] \in Run
          /\ \E s \in {"succeeded", "failed", "retry_wait"} : FinishRun(cur[w], s)
      BY <2>4 DEF Finish, Plan
    <3> QED
      BY <3>1 DEF FinishRun, rowVars
  <2>5. ASSUME UNCHANGED rowVars PROVE <1>1!:
    BY <2>5 DEF rowVars
  <2> QED
    BY <2>1, <2>2, <2>3, <2>4, <2>5, RowSteps
\* Workers: a step that is not a claim's gives out no ticket.
<1>2. ASSUME NEW w \in Worker, ClaimCommit(w) PROVE TicketInv' /\ ClaimsAreDistinct'
  <2> DEFINE r == cur[w]
  <2>1. /\ r \in Run /\ r \in locks[w] /\ status[r] \in Live
        /\ pc[w] = "selected"
    BY <1>2 DEF ClaimCommit, SelectionInv
  <2>2. \A v \in Worker \ {w} : ticket[v] # 0 /\ cur[v] = r => ticket[v] < attempt'[r]
    BY <1>2, <2>1 DEF ClaimCommit, TicketInv, Live
  <2>3. /\ ticket' = [ticket EXCEPT ![w] = attempt'[r]]
        /\ pc' = [pc EXCEPT ![w] = "claimed"]
        /\ cur' = cur
        /\ status'[r] = "running"
        /\ attempt'[r] \in Nat \ {0}
    BY <1>2, <2>1 DEF ClaimCommit, Goto
  <2>4. TicketInv'
    BY <1>1, <2>1, <2>3 DEF TicketInv
  <2>5. ClaimsAreDistinct'
    BY <2>1, <2>2, <2>3 DEF ClaimsAreDistinct
  <2> QED
    BY <2>4, <2>5
<1>3. ASSUME NEW w \in Worker, ClaimSelect(w) PROVE TicketInv' /\ ClaimsAreDistinct'
  <2>1. /\ ticket[w] = 0 /\ ticket' = ticket
        /\ pc' = [pc EXCEPT ![w] = "selected"]
        /\ \A v \in Worker \ {w} : cur'[v] = cur[v]
    BY <1>3, ConstantsAssumption DEF ConstantsAssumption, ClaimSelect, Goto, TicketInv
  <2> QED
    BY <1>1, <2>1 DEF TicketInv, ClaimsAreDistinct
<1>4. ASSUME NEW w \in Worker, Leave(w) PROVE TicketInv' /\ ClaimsAreDistinct'
  BY <1>1, <1>4 DEF Leave, TicketInv, ClaimsAreDistinct
<1>5. ASSUME NEW w \in Worker, NEW p \in Position \ {"idle", "selected"},
             pc[w] \notin {"idle", "selected"}, Goto(w, p), UNCHANGED <<cur, ticket>>
      PROVE  TicketInv' /\ ClaimsAreDistinct'
  BY <1>1, <1>5 DEF Goto, TicketInv, ClaimsAreDistinct
<1>6. ASSUME UNCHANGED <<pc, cur, ticket>> PROVE TicketInv' /\ ClaimsAreDistinct'
  BY <1>1, <1>6 DEF TicketInv, ClaimsAreDistinct
<1> QED
  BY <1>2, <1>3, <1>4, <1>5, <1>6, WorkerSteps

-----------------------------------------------------------------------------
\* The invariant is inductive.
LEMMA NextIInv == IInv /\ [Next]_vars => IInv'
BY NextTypeOK, NextSelection, NextLeaseMatches, NextTickets DEF IInv

\* Every behaviour of the queue keeps the inductive invariant.
THEOREM Invariance == Spec => []IInv
<1>1. Init => IInv
  BY InitIInv
<1>2. IInv /\ [Next]_vars => IInv'
  BY NextIInv
<1> QED
  BY <1>1, <1>2, PTL DEF Spec

\* Every reachable state is well-typed: a worker past its claim has a run, a
\* failing one has a plan, and a row holds the values the schema allows.
THEOREM TypeCorrect == Spec => []TypeOK
<1>1. IInv => TypeOK
  BY DEF IInv
<1> QED
  BY <1>1, Invariance, PTL

\* Lease, owner and retry instant agree with the status of every run, for any
\* number of workers, claims, stalls and crashes (claim_run, finish_run,
\* cancel_run).
THEOREM LeasesMatch == Spec => []LeaseMatchesStatus
<1>1. IInv => LeaseMatchesStatus
  BY DEF IInv
<1> QED
  BY <1>1, Invariance, PTL

\* No two workers inside run_once hold the same attempt of the same run: the
\* row locks of claim_run make the attempt number a fencing token.
THEOREM DistinctClaims == Spec => []ClaimsAreDistinct
<1>1. IInv => ClaimsAreDistinct
  BY DEF IInv
<1> QED
  BY <1>1, Invariance, PTL

\* A claim commits on a row that is still alive, and a worker that ends a run
\* either finds it over already or started.
LEMMA EndsWhatStarted ==
  ASSUME IInv, NEW w \in Worker
  PROVE  /\ ClaimCommit(w) => cur[w] \in Run /\ status[cur[w]] \in Live
         /\ FailUnregistered(w) \/ Finish(w) =>
              /\ cur[w] \in Run
              /\ status[cur[w]] \notin {"absent", "queued"}
              /\ \E s \in {"succeeded", "failed", "retry_wait"} : FinishRun(cur[w], s)
<1> USE DEF IInv, TypeOK, RowsTypeOK, WorkersTypeOK
<1>1. ASSUME ClaimCommit(w) PROVE cur[w] \in Run /\ status[cur[w]] \in Live
  BY <1>1 DEF ClaimCommit, SelectionInv
<1>2. ASSUME FailUnregistered(w) \/ Finish(w)
      PROVE  cur[w] \in Run /\ status[cur[w]] \notin {"absent", "queued"}
  BY <1>2 DEF FailUnregistered, Finish, TicketInv
<1>3. ASSUME FailUnregistered(w)
      PROVE  \E s \in {"succeeded", "failed", "retry_wait"} : FinishRun(cur[w], s)
  BY <1>3 DEF FailUnregistered
<1>4. ASSUME Finish(w)
      PROVE  \E s \in {"succeeded", "failed", "retry_wait"} : FinishRun(cur[w], s)
  BY <1>4 DEF Finish, Plan
<1> QED
  BY <1>1, <1>2, <1>3, <1>4

\* Every step of the queue is a step of RunLifecycle or leaves status and
\* attempt alone.
LEMMA NextLifecycle == IInv /\ [Next]_vars => [Lifecycle!Next]_(Lifecycle!vars)
<1> SUFFICES ASSUME IInv, [Next]_vars PROVE [Lifecycle!Next]_(Lifecycle!vars)
  OBVIOUS
<1> USE DEF Lifecycle!Next, Lifecycle!vars
<1>1. ASSUME NEW r \in Run, Enqueue(r) PROVE Lifecycle!Submit(r)
  BY <1>1 DEF Enqueue, Lifecycle!Submit
<1>2. ASSUME NEW r \in Run, CancelRun(r) PROVE Lifecycle!Cancel(r)
  BY <1>2 DEF CancelRun, Lifecycle!Cancel
<1>3. ASSUME NEW r \in Run, LeaseLapses(r) \/ LeaseOverrun(r) \/ RetryComesDue(r)
      PROVE UNCHANGED <<status, attempt>>
  BY <1>3 DEF LeaseLapses, LeaseOverrun, ExpireLease, RetryComesDue
<1>4. ASSUME NEW w \in Worker, ClaimCommit(w)
      PROVE  Lifecycle!Start(cur[w]) \/ Lifecycle!StartAgain(cur[w])
  <2>1. cur[w] \in Run /\ status[cur[w]] \in Live
    BY <1>4, EndsWhatStarted
  <2>2. attempt \in [Run -> Nat \ {0}]
    BY DEF IInv, TypeOK, RowsTypeOK
  <2>3. CASE status[cur[w]] = "queued"
    BY <1>4, <2>1, <2>2, <2>3 DEF ClaimCommit, Lifecycle!Start
  <2>4. CASE status[cur[w]] \in {"running", "retry_wait"}
    BY <1>4, <2>1, <2>2, <2>4 DEF ClaimCommit, Lifecycle!StartAgain
  <2> QED
    BY <2>1, <2>3, <2>4 DEF Live
<1>5. ASSUME NEW w \in Worker, FailUnregistered(w) \/ Finish(w)
      PROVE  Lifecycle!EndAttempt(cur[w]) \/ UNCHANGED <<status, attempt>>
  <2>1. /\ cur[w] \in Run
        /\ status[cur[w]] \notin {"absent", "queued"}
        /\ \E s \in {"succeeded", "failed", "retry_wait"} : FinishRun(cur[w], s)
    BY <1>5, EndsWhatStarted
  <2>2. status[cur[w]] \in RunStatus
    BY <2>1 DEF IInv, TypeOK, RowsTypeOK
  <2>3. CASE status[cur[w]] \in Terminal
    BY <2>1, <2>3 DEF FinishRun, rowVars
  <2>4. CASE status[cur[w]] \in {"running", "retry_wait"}
    <3>1. status[cur[w]] \notin Terminal
      BY <2>4 DEF Terminal
    <3> QED
      BY <2>1, <2>4, <3>1 DEF FinishRun, Lifecycle!EndAttempt
  <2> QED
    BY <2>1, <2>2, <2>3, <2>4 DEF RunStatus
<1>6. ASSUME UNCHANGED rowVars PROVE UNCHANGED <<status, attempt>>
  BY <1>6 DEF rowVars
<1>7. ASSUME NEW w \in Worker, ClaimCommit(w) \/ FailUnregistered(w) \/ Finish(w)
      PROVE  cur[w] \in Run
  BY <1>7, EndsWhatStarted
<1> QED
  BY <1>1, <1>2, <1>3, <1>4, <1>5, <1>6, <1>7, RowSteps

\* The queue implements the life cycle: a run never skips its start, never
\* comes back once it is over, and each restart has the next attempt number.
THEOREM ImplementsLifecycle == Spec => LifecycleSpec
<1>1. Init => Lifecycle!Init
  BY DEF Init, Lifecycle!Init
<1>2. IInv /\ [Next]_vars => [Lifecycle!Next]_(Lifecycle!vars)
  BY NextLifecycle
<1> QED
  BY <1>1, <1>2, Invariance, PTL DEF Spec, LifecycleSpec, Lifecycle!Spec

\* A step leaves a run that is over as it is.
LEMMA OverIsOver ==
  ASSUME IInv, [Next]_vars, NEW r \in Run, status[r] \in Terminal
  PROVE  status'[r] = status[r] /\ attempt'[r] = attempt[r]
<1>1. [Lifecycle!Next]_(Lifecycle!vars)
  BY NextLifecycle
<1>2. status \in [Run -> RunStatus] /\ attempt \in [Run -> Nat \ {0}]
  BY DEF IInv, TypeOK, RowsTypeOK
<1>3. ASSUME NEW q \in Run,
             \/ Lifecycle!Submit(q) \/ Lifecycle!Start(q) \/ Lifecycle!StartAgain(q)
             \/ Lifecycle!EndAttempt(q) \/ Lifecycle!Cancel(q)
      PROVE  q # r /\ status'[r] = status[r] /\ attempt'[r] = attempt[r]
  BY <1>2, <1>3 DEF Terminal, Lifecycle!Submit, Lifecycle!Start, Lifecycle!StartAgain,
                    Lifecycle!EndAttempt, Lifecycle!Cancel
<1> QED
  BY <1>1, <1>3 DEF Lifecycle!Next, Lifecycle!vars

\* A run that is over keeps its status and its attempt: no stale worker, claim
\* or cancellation changes them.
THEOREM TerminalStays == Spec => TerminalIsFinal
<1>1. IInv /\ [Next]_vars =>
        [\A r \in Run : status[r] \in Terminal =>
           status'[r] = status[r] /\ attempt'[r] = attempt[r]]_vars
  BY OverIsOver
<1> QED
  BY <1>1, Invariance, PTL DEF Spec, TerminalIsFinal

-----------------------------------------------------------------------------
\* A worker comes to report by finishing the run, and stops by reporting
\* unless a fault hits it.
LEMMA ReportingSteps ==
  ASSUME TypeOK, [Next]_vars, NEW w \in Worker
  PROVE  /\ pc'[w] = "reporting" =>
              \/ Finish(w)
              \/ pc[w] = "reporting" /\ cur'[w] = cur[w] /\ plan'[w] = plan[w]
         /\ pc[w] = "reporting" =>
              \/ Report(w) \/ PublishError(w) \/ StoreError(w) \/ Crash(w)
              \/ pc'[w] = "reporting" /\ cur'[w] = cur[w] /\ plan'[w] = plan[w]
<1> DEFINE Passage ==
      /\ pc'[w] = "reporting" =>
           \/ Finish(w)
           \/ pc[w] = "reporting" /\ cur'[w] = cur[w] /\ plan'[w] = plan[w]
      /\ pc[w] = "reporting" =>
           \/ Report(w) \/ PublishError(w) \/ StoreError(w) \/ Crash(w)
           \/ pc'[w] = "reporting" /\ cur'[w] = cur[w] /\ plan'[w] = plan[w]
<1> USE DEF TypeOK, WorkersTypeOK
<1>1. ASSUME NEW v \in Worker, ClaimSelect(v) \/ ClaimCommit(v) \/ ReadClaim(v)
                               \/ StartHandler(v) \/ HandlerReturns(v) \/ RecordStep(v)
      PROVE  Passage
  BY <1>1 DEF ClaimSelect, ClaimCommit, ReadClaim, StartHandler, HandlerReturns, RecordStep, Goto
<1>2. ASSUME NEW v \in Worker, HandlerRaises(v) \/ HandlerTimesOut(v) \/ PublishError(v)
      PROVE  Passage
  BY <1>2 DEF HandlerRaises, HandlerTimesOut, PublishError, Goto
<1>3. ASSUME NEW v \in Worker, CheckCancelled(v) \/ CheckFailing(v)
      PROVE  Passage
  BY <1>3 DEF CheckCancelled, CheckFailing, Goto, Leave
<1>4. ASSUME NEW v \in Worker, FailUnregistered(v) \/ Report(v) \/ StoreError(v) \/ Crash(v)
      PROVE  Passage
  BY <1>4 DEF FailUnregistered, Report, StoreError, Crash, Leave
<1>5. ASSUME NEW v \in Worker, Finish(v) PROVE Passage
  BY <1>5 DEF Finish, Goto
<1>6. ASSUME UNCHANGED workerVars PROVE Passage
  BY <1>6 DEF workerVars
<1>7. ASSUME NEW r \in Run, Enqueue(r) \/ CancelRun(r) \/ LeaseLapses(r)
                            \/ LeaseOverrun(r) \/ RetryComesDue(r)
      PROVE  UNCHANGED workerVars
  BY <1>7 DEF Enqueue, CancelRun, LeaseLapses, LeaseOverrun, ExpireLease, RetryComesDue
<1>8. ASSUME NEW t \in Task, SetTaskStatus(t) PROVE UNCHANGED workerVars
  BY <1>8 DEF SetTaskStatus
<1>9. ASSUME UNCHANGED vars PROVE UNCHANGED workerVars
  BY <1>9 DEF vars
<1> QED
  BY <1>1, <1>2, <1>3, <1>4, <1>5, <1>6, <1>7, <1>8, <1>9 DEF Next, RunOnce

\* Events are only ever added, by reports, and the count of faults only grows.
LEMMA LogSteps ==
  ASSUME TypeOK, [Next]_vars
  PROVE  /\ outbox' = outbox \/ \E w \in Worker : Report(w)
         /\ outbox \subseteq outbox'
         /\ faults' \in Nat
         /\ faults' = 0 => faults = 0
         /\ \A w \in Worker : PublishError(w) \/ StoreError(w) \/ Crash(w) => faults' # 0
<1>1. outbox' = outbox \/ \E w \in Worker : Report(w)
  BY DEF Next, RunOnce, vars, Enqueue, CancelRun, LeaseLapses, LeaseOverrun, ExpireLease,
         RetryComesDue, SetTaskStatus, ClaimSelect, ClaimCommit, ReadClaim, FailUnregistered,
         StartHandler, HandlerReturns, HandlerRaises, HandlerTimesOut, CheckCancelled,
         CheckFailing, RecordStep, Finish, PublishError, StoreError, Crash
<1>2. outbox \subseteq outbox'
  BY <1>1 DEF Report, EmitRunEvent
<1>3. UNCHANGED faults \/ \E w \in Worker : PublishError(w) \/ StoreError(w) \/ Crash(w)
  BY DEF Next, RunOnce, vars, Enqueue, CancelRun, LeaseLapses, LeaseOverrun, ExpireLease,
         RetryComesDue, SetTaskStatus, ClaimSelect, ClaimCommit, ReadClaim, FailUnregistered,
         StartHandler, HandlerReturns, HandlerRaises, HandlerTimesOut, CheckCancelled,
         CheckFailing, RecordStep, Finish, Report
<1>4. ASSUME NEW w \in Worker, PublishError(w) \/ StoreError(w) \/ Crash(w)
      PROVE  faults' = faults + 1
  BY <1>4 DEF PublishError, StoreError, Crash, Fault
<1>5. faults \in Nat
  BY ConstantsAssumption DEF ConstantsAssumption, TypeOK, LogsTypeOK
<1> QED
  BY <1>1, <1>2, <1>3, <1>4, <1>5

\* Verdicts come after the end and successes are reported.
LEMMA NextReport == IInv /\ ReportInv /\ [Next]_vars => ReportInv'
<1> SUFFICES ASSUME IInv, ReportInv, [Next]_vars PROVE ReportInv'
  OBVIOUS
<1> USE DEF IInv, TypeOK
<1>1. ASSUME NEW w \in Worker, Finish(w), plan[w] # "retry"
      PROVE  cur[w] \in Run /\ plan'[w] = plan[w] /\ status'[cur[w]] \in Terminal
  <2>1. cur[w] \in Run /\ plan[w] \in {"succeeded", "failed"} /\ plan' = plan
    BY <1>1 DEF Finish, WorkersTypeOK, Plan
  <2>2. FinishRun(cur[w], plan[w])
    BY <1>1 DEF Finish
  <2> QED
    BY <2>1, <2>2 DEF FinishRun, RowsTypeOK, rowVars, Terminal
<1>2. ASSUME NEW w \in Worker, pc'[w] = "reporting", plan'[w] # "retry"
      PROVE  status'[cur'[w]] \in Terminal
  <2>1. CASE Finish(w)
    <3>1. plan' = plan /\ cur' = cur
      BY <2>1 DEF Finish
    <3> QED
      BY <1>1, <1>2, <2>1, <3>1
  <2>2. CASE pc[w] = "reporting" /\ cur'[w] = cur[w] /\ plan'[w] = plan[w]
    <3>1. cur[w] \in Run /\ status[cur[w]] \in Terminal
      BY <1>2, <2>2 DEF ReportInv, WorkersTypeOK
    <3> QED
      BY <2>2, <3>1, OverIsOver
  <2> QED
    BY <1>2, <2>1, <2>2, ReportingSteps
<1>3. VerdictAfterTheEnd'
  <2> SUFFICES ASSUME NEW e \in outbox', e.type \in {"succeeded", "failed"}
               PROVE  status'[e.run] \in Terminal /\ e.status = status'[e.run]
    BY DEF VerdictAfterTheEnd
  <2>1. CASE e \in outbox
    <3>1. e.run \in Run /\ status[e.run] \in Terminal /\ e.status = status[e.run]
      BY <2>1 DEF ReportInv, VerdictAfterTheEnd, LogsTypeOK
    <3> QED
      BY <3>1, OverIsOver
  <2>2. CASE e \notin outbox
    <3>1. PICK w \in Worker : Report(w)
      BY <2>2, LogSteps
    <3>2. /\ e.run = cur[w] /\ e.status = status[cur[w]]
          /\ e.type = IF plan[w] = "retry" THEN "retry_scheduled" ELSE plan[w]
      BY <2>2, <3>1 DEF Report, EmitRunEvent
    <3>3. pc[w] = "reporting" /\ plan[w] # "retry" /\ cur[w] \in Run
      BY <3>1, <3>2 DEF Report, WorkersTypeOK
    <3> QED
      BY <3>2, <3>3, OverIsOver DEF ReportInv
  <2> QED
    BY <2>1, <2>2
<1>4. ASSUME NEW r \in Run, status'[r] = "succeeded", faults' = 0
      PROVE  \/ \E e \in outbox' : e.run = r /\ e.type = "succeeded"
             \/ \E w \in Worker : pc'[w] = "reporting" /\ cur'[w] = r /\ plan'[w] = "succeeded"
  <2>1. CASE status[r] = "succeeded"
    <3>1. CASE \E e \in outbox : e.run = r /\ e.type = "succeeded"
      BY <3>1, LogSteps
    <3>2. ASSUME NEW w \in Worker, pc[w] = "reporting", cur[w] = r, plan[w] = "succeeded"
          PROVE  \/ \E e \in outbox' : e.run = r /\ e.type = "succeeded"
                 \/ pc'[w] = "reporting" /\ cur'[w] = r /\ plan'[w] = "succeeded"
      <4>1. CASE Report(w)
        <5>1. EmitRunEvent(r, "succeeded")
          BY <3>2, <4>1 DEF Report
        <5>2. CASE \E e \in outbox : e.run = r /\ e.type = "succeeded"
          BY <5>2, LogSteps
        <5>3. CASE ~\E e \in outbox : e.run = r /\ e.type = "succeeded"
          <6> DEFINE event == [run |-> r, type |-> "succeeded", attempt |-> attempt[r], status |-> status[r]]
          <6>1. event \in outbox'
            BY <5>1, <5>3 DEF EmitRunEvent
          <6>2. event.run = r /\ event.type = "succeeded"
            OBVIOUS
          <6> QED
            BY <6>1, <6>2
        <5> QED
          BY <5>2, <5>3
      <4>2. ~(PublishError(w) \/ StoreError(w) \/ Crash(w))
        BY <1>4, LogSteps
      <4> QED
        BY <3>2, <4>1, <4>2, ReportingSteps
    <3> QED
      BY <1>4, <2>1, <3>1, <3>2, LogSteps DEF ReportInv
  <2>2. CASE status[r] # "succeeded"
    <3>1. ASSUME NEW q \in Run, Enqueue(q) \/ CancelRun(q) \/ LeaseLapses(q)
                                \/ LeaseOverrun(q) \/ RetryComesDue(q)
          PROVE  FALSE
      BY <1>4, <2>2, <3>1 DEF Enqueue, CancelRun, LeaseLapses, LeaseOverrun, ExpireLease,
                        RetryComesDue, RowsTypeOK
    <3>2. ASSUME NEW w \in Worker, ClaimCommit(w) PROVE FALSE
      BY <1>4, <2>2, <3>2 DEF ClaimCommit, RowsTypeOK
    <3>3. ASSUME NEW w \in Worker, FailUnregistered(w) PROVE FALSE
      BY <1>4, <2>2, <3>3 DEF FailUnregistered, FinishRun, RowsTypeOK, rowVars
    <3>4. ~UNCHANGED rowVars
      BY <1>4, <2>2 DEF rowVars
    <3>5. PICK w \in Worker : Finish(w)
      BY <3>1, <3>2, <3>3, <3>4, RowSteps
    <3>6. /\ cur[w] \in Run /\ pc'[w] = "reporting" /\ UNCHANGED <<cur, plan>>
          /\ plan[w] \in {"succeeded", "failed", "retry"}
          /\ FinishRun(cur[w], IF plan[w] = "retry" THEN "retry_wait" ELSE plan[w])
      BY <3>5 DEF Finish, Goto, WorkersTypeOK, Plan
    <3>7. cur[w] = r /\ plan[w] = "succeeded"
      BY <1>4, <2>2, <3>6 DEF FinishRun, RowsTypeOK, rowVars
    <3> QED
      BY <3>6, <3>7
  <2> QED
    BY <2>1, <2>2
<1> QED
  BY <1>2, <1>3, <1>4 DEF ReportInv

\* The queue keeps both.
LEMMA ReportInvariance == Spec => []ReportInv
<1>1. Init => ReportInv
  BY DEF Init, ReportInv, VerdictAfterTheEnd
<1>2. IInv /\ ReportInv /\ [Next]_vars => ReportInv'
  BY NextReport
<1> QED
  BY <1>1, <1>2, Invariance, PTL DEF Spec

\* Subscribers are told that a run succeeded or failed only when it is over, and
\* with the status it ended with, whatever stale workers and store errors come
\* in between (run_once reports in a transaction after finish_run).
THEOREM VerdictsComeLast == Spec => []VerdictAfterTheEnd
<1>1. ReportInv => VerdictAfterTheEnd
  BY DEF ReportInv
<1> QED
  BY <1>1, ReportInvariance, PTL

-----------------------------------------------------------------------------
\* Only a claim that commits puts a run under a live lease.
LEMMA LiveSteps ==
  ASSUME IInv, [Next]_vars
  PROVE  \A r \in Run : lease'[r] = "live" =>
           lease[r] = "live" \/ \E w \in Worker : ClaimCommit(w) /\ r = cur[w]
<1> USE DEF IInv, TypeOK, RowsTypeOK, WorkersTypeOK
<1>1. ASSUME NEW q \in Run, \/ Enqueue(q) \/ CancelRun(q) \/ LeaseLapses(q)
                            \/ LeaseOverrun(q) \/ RetryComesDue(q)
      PROVE  \A r \in Run : lease'[r] = "live" => lease[r] = "live"
  BY <1>1 DEF Enqueue, CancelRun, LeaseLapses, LeaseOverrun, ExpireLease, RetryComesDue
<1>2. ASSUME NEW w \in Worker, ClaimCommit(w)
      PROVE  \A r \in Run : lease'[r] = "live" => lease[r] = "live" \/ r = cur[w]
  BY <1>2 DEF ClaimCommit
<1>3. ASSUME NEW w \in Worker, FailUnregistered(w) \/ Finish(w)
      PROVE  \A r \in Run : lease'[r] = "live" => lease[r] = "live"
  <2>1. \E s \in {"succeeded", "failed", "retry_wait"} : FinishRun(cur[w], s)
    BY <1>3, EndsWhatStarted
  <2> QED
    BY <2>1 DEF FinishRun, rowVars
<1>4. ASSUME UNCHANGED rowVars
      PROVE  \A r \in Run : lease'[r] = "live" => lease[r] = "live"
  BY <1>4 DEF rowVars
<1> QED
  BY <1>1, <1>2, <1>3, <1>4, RowSteps

\* A worker has an open claim because it just selected a run or had one before.
LEMMA SelectedSteps ==
  ASSUME IInv, [Next]_vars, NEW w \in Worker
  PROVE  /\ pc'[w] = "selected" =>
              ClaimSelect(w) \/ (pc[w] = "selected" /\ cur'[w] = cur[w] /\ locks'[w] = locks[w])
         /\ locks'[w] # {} => ClaimSelect(w) \/ locks'[w] = locks[w]
<1> DEFINE Opened ==
      /\ pc'[w] = "selected" =>
           ClaimSelect(w) \/ (pc[w] = "selected" /\ cur'[w] = cur[w] /\ locks'[w] = locks[w])
      /\ locks'[w] # {} => ClaimSelect(w) \/ locks'[w] = locks[w]
<1> USE DEF IInv, TypeOK, WorkersTypeOK
<1>1. ASSUME NEW v \in Worker, ClaimSelect(v) \/ ClaimCommit(v) \/ ReadClaim(v)
                               \/ StartHandler(v) \/ HandlerReturns(v) \/ RecordStep(v)
      PROVE  Opened
  BY <1>1 DEF ClaimSelect, ClaimCommit, ReadClaim, StartHandler, HandlerReturns, RecordStep, Goto
<1>2. ASSUME NEW v \in Worker, HandlerRaises(v) \/ HandlerTimesOut(v) \/ PublishError(v) \/ Finish(v)
      PROVE  Opened
  BY <1>2 DEF HandlerRaises, HandlerTimesOut, PublishError, Finish, Goto
<1>3. ASSUME NEW v \in Worker, CheckCancelled(v) \/ CheckFailing(v)
      PROVE  Opened
  BY <1>3 DEF CheckCancelled, CheckFailing, Goto, Leave
<1>4. ASSUME NEW v \in Worker, FailUnregistered(v) \/ Report(v) \/ StoreError(v) \/ Crash(v)
      PROVE  Opened
  BY <1>4 DEF FailUnregistered, Report, StoreError, Crash, Leave
<1>5. ASSUME UNCHANGED workerVars PROVE Opened
  BY <1>5 DEF workerVars
<1>6. ASSUME NEW r \in Run, Enqueue(r) \/ CancelRun(r) \/ LeaseLapses(r)
                            \/ LeaseOverrun(r) \/ RetryComesDue(r)
      PROVE  UNCHANGED workerVars
  BY <1>6 DEF Enqueue, CancelRun, LeaseLapses, LeaseOverrun, ExpireLease, RetryComesDue
<1>7. ASSUME NEW t \in Task, SetTaskStatus(t) PROVE UNCHANGED workerVars
  BY <1>7 DEF SetTaskStatus
<1>8. ASSUME UNCHANGED vars PROVE UNCHANGED workerVars
  BY <1>8 DEF vars
<1> QED
  BY <1>1, <1>2, <1>3, <1>4, <1>5, <1>6, <1>7, <1>8 DEF Next, RunOnce

\* Where claims lock their task rows, every step keeps the room a claim counted.
LEMMA NextCapacity ==
  JoinedRowsLocked /\ IInv /\ CapacityInv /\ [Next]_vars => CapacityInv'
<1> SUFFICES ASSUME JoinedRowsLocked, IInv, CapacityInv, [Next]_vars PROVE CapacityInv'
  OBVIOUS
<1> USE ConstantsAssumption DEF ConstantsAssumption
<1>t. /\ status \in [Run -> RunStatus]
      /\ lease \in [Run -> {"null", "live", "expired"}]
      /\ locks \in [Worker -> SUBSET Run]
      /\ locks' \in [Worker -> SUBSET Run]
      /\ cur \in [Worker -> Run \cup {NoRun}]
      /\ \A w \in Worker : pc[w] = "selected" => cur[w] \in Run /\ cur[w] \in locks[w]
      /\ \A w \in Worker : locks[w] # {} => pc[w] = "selected"
  BY NextTypeOK DEF IInv, TypeOK, RowsTypeOK, WorkersTypeOK, SelectionInv
<1>1. ASSUME NEW w \in Worker, ClaimSelect(w)
      PROVE  /\ cur'[w] \in locks'[w] /\ pc[w] = "idle"
             /\ \A q \in locks'[w] : ~TaskLocked(TaskOf[q])
             /\ HasCapacity(cur'[w])
             /\ UNCHANGED <<lease, status>>
             /\ \A v \in Worker \ {w} : locks'[v] = locks[v]
  BY <1>1, <1>t DEF ClaimSelect, rowVars
<1>2. ASSUME NEW v \in Worker, NEW w \in Worker, v # w,
             NEW q \in locks'[v], NEW r \in locks'[w]
      PROVE  TaskOf[q] # TaskOf[r]
  <2>1. CASE locks'[v] = locks[v] /\ locks'[w] = locks[w]
    BY <1>2, <2>1 DEF CapacityInv
  <2>2. CASE ClaimSelect(v)
    <3>1. locks'[w] = locks[w] /\ r \in Run
      BY <1>1, <1>2, <1>t, <2>2
    <3>2. Locked(r) /\ ~TaskLocked(TaskOf[q])
      BY <1>1, <1>2, <2>2, <3>1 DEF Locked
    <3> QED
      BY <3>1, <3>2 DEF TaskLocked
  <2>3. CASE ClaimSelect(w)
    <3>1. locks'[v] = locks[v] /\ q \in Run
      BY <1>1, <1>2, <1>t, <2>3
    <3>2. Locked(q) /\ ~TaskLocked(TaskOf[r])
      BY <1>1, <1>2, <2>3, <3>1 DEF Locked
    <3> QED
      BY <3>1, <3>2 DEF TaskLocked
  <2> QED
    BY <1>2, <2>1, <2>2, <2>3, SelectedSteps
\* The runs of a task under a live lease: fewer, unless a claim adds its own.
<1>3. ASSUME NEW t \in Task, \A w \in Worker : ClaimCommit(w) => TaskOf[cur[w]] # t
      PROVE  LiveRuns(t)' \subseteq LiveRuns(t)
  BY <1>3, LiveSteps DEF LiveRuns
<1>4. ASSUME NEW w \in Worker, ClaimCommit(w)
      PROVE  /\ cur[w] \in Run /\ pc[w] = "selected" /\ pc'[w] = "claimed"
             /\ \A v \in Worker : ClaimCommit(v) => v = w
  BY <1>4, <1>t DEF ClaimCommit, Goto, IInv, TypeOK, WorkersTypeOK
<1>5. ASSUME NEW t \in Task
      PROVE  /\ IsFiniteSet(LiveRuns(t)')
             /\ Cardinality(LiveRuns(t)') <= MaxConcurrency
  <2>0. IsFiniteSet(LiveRuns(t)) /\ Cardinality(LiveRuns(t)) <= MaxConcurrency
    BY DEF CapacityInv, LiveRunsWithinLimit, LiveRuns
  <2>1. CASE \A w \in Worker : ClaimCommit(w) => TaskOf[cur[w]] # t
    <3>1. LiveRuns(t)' \subseteq LiveRuns(t)
      BY <1>3, <2>1
    <3> QED
      BY <2>0, <3>1, FS_Subset, FS_CardinalityType
  <2>2. ASSUME NEW w \in Worker, ClaimCommit(w), TaskOf[cur[w]] = t
        PROVE  <1>5!2
    <3> DEFINE Others == LiveRuns(t) \ {cur[w]}
    <3>1. LiveRuns(t)' \subseteq Others \cup {cur[w]}
      BY <1>4, <2>2, LiveSteps DEF LiveRuns
    <3>2. Cardinality(Others) < MaxConcurrency
      BY <1>4, <2>2 DEF CapacityInv
    <3>3. IsFiniteSet(Others)
      BY <2>0, FS_Subset, Others \subseteq LiveRuns(t)
    <3>4. /\ IsFiniteSet(Others \cup {cur[w]})
          /\ Cardinality(Others \cup {cur[w]}) = Cardinality(Others) + 1
      BY <3>3, FS_AddElement
    <3>5. Cardinality(LiveRuns(t)') <= Cardinality(Others) + 1 /\ IsFiniteSet(LiveRuns(t)')
      BY <3>1, <3>4, FS_Subset
    <3>6. Cardinality(Others) \in Nat /\ Cardinality(LiveRuns(t)') \in Nat
      BY <3>3, <3>5, FS_CardinalityType
    <3> QED
      BY <3>2, <3>5, <3>6
  <2> QED
    BY <2>1, <2>2
<1>6. ASSUME NEW v \in Worker, pc'[v] = "selected", NEW r \in Run, cur'[v] = r
      PROVE  Cardinality(LiveRuns(TaskOf[r])' \ {r}) < MaxConcurrency
  <2>1. CASE ClaimSelect(v)
    <3>1. r \in Run /\ HasCapacity(r) /\ UNCHANGED <<lease, status>>
      BY <1>1, <1>6, <2>1
    <3>2. Occupying(r) = LiveRuns(TaskOf[r]) \ {r}
      BY <1>t, <3>1 DEF Occupying, LiveRuns, IInv, LeaseMatchesStatus
    <3>3. LiveRuns(TaskOf[r])' = LiveRuns(TaskOf[r])
      BY <3>1 DEF LiveRuns
    <3> QED
      BY <3>1, <3>2, <3>3 DEF HasCapacity
  <2>2. CASE pc[v] = "selected" /\ cur'[v] = cur[v]
    <3> DEFINE t == TaskOf[r]
    <3>1. t \in Task /\ r \in locks[v]
      BY <1>6, <1>t, <2>2
    <3>2. ASSUME NEW w \in Worker, ClaimCommit(w) PROVE TaskOf[cur[w]] # t
      <4>1. w # v /\ cur[w] \in locks[w]
        BY <1>4, <1>6, <1>t, <3>2
      <4> QED
        BY <3>1, <4>1 DEF CapacityInv
    <3>3. LiveRuns(t)' \subseteq LiveRuns(t)
      BY <1>3, <3>1, <3>2
    <3>4. /\ LiveRuns(t)' \ {r} \subseteq LiveRuns(t) \ {r}
          /\ LiveRuns(t) \ {r} \subseteq LiveRuns(t)
      BY <3>3
    <3>5. IsFiniteSet(LiveRuns(t) \ {r}) /\ Cardinality(LiveRuns(t) \ {r}) < MaxConcurrency
      BY <1>6, <2>2, <3>1, <3>4, FS_Subset DEF CapacityInv
    <3>6. /\ IsFiniteSet(LiveRuns(t)' \ {r})
          /\ Cardinality(LiveRuns(t)' \ {r}) <= Cardinality(LiveRuns(t) \ {r})
      BY <3>4, <3>5, FS_Subset
    <3>7. /\ Cardinality(LiveRuns(t)' \ {r}) \in Nat
          /\ Cardinality(LiveRuns(t) \ {r}) \in Nat
      BY <3>5, <3>6, FS_CardinalityType
    <3> QED
      BY <3>5, <3>6, <3>7
  <2> QED
    BY <1>6, <2>1, <2>2, SelectedSteps
<1>7. LiveRunsWithinLimit'
  BY <1>5 DEF LiveRunsWithinLimit, LiveRuns
<1>8. \A t \in Task : IsFiniteSet(LiveRuns(t)')
  BY <1>5
<1>9. ASSUME NEW w \in Worker, pc'[w] = "selected"
      PROVE  (Cardinality(LiveRuns(TaskOf[cur[w]]) \ {cur[w]}) < MaxConcurrency)'
  <2>1. PICK r \in Run : r = cur'[w]
    BY <1>9, NextTypeOK DEF IInv, TypeOK, WorkersTypeOK
  <2>2. Cardinality(LiveRuns(TaskOf[r])' \ {r}) < MaxConcurrency
    BY <1>6, <1>9, <2>1
  <2> QED
    BY <2>1, <2>2 DEF LiveRuns
<1> QED
  BY <1>2, <1>7, <1>8, <1>9 DEF CapacityInv

\* Where claims lock their task rows, the room a claim counted stays.
LEMMA CapacityInvariance ==
  ASSUME JoinedRowsLocked
  PROVE  Spec => []CapacityInv
<1>1. Init => CapacityInv
  <2> SUFFICES ASSUME Init PROVE CapacityInv
    OBVIOUS
  <2>1. \A t \in Task : LiveRuns(t) = {}
    BY DEF Init, LiveRuns
  <2>2. IsFiniteSet({}) /\ Cardinality({}) = 0
    BY FS_EmptySet
  <2>3. LiveRunsWithinLimit
    BY <2>1, <2>2, ConstantsAssumption DEF ConstantsAssumption, LiveRunsWithinLimit, LiveRuns
  <2> QED
    BY <2>1, <2>2, <2>3 DEF Init, CapacityInv
<1>2. IInv /\ CapacityInv /\ [Next]_vars => CapacityInv'
  BY NextCapacity
<1> QED
  BY <1>1, <1>2, Invariance, PTL DEF Spec

\* Where claims lock the task row (MySQL), the runs of a task under a live
\* lease never exceed its max_concurrency: between the count of claim_run and
\* its commit no other claim gets at the task.
THEOREM LimitIsKept ==
  ASSUME JoinedRowsLocked
  PROVE  Spec => []LiveRunsWithinLimit
<1>1. CapacityInv => LiveRunsWithinLimit
  BY DEF CapacityInv
<1> QED
  BY <1>1, CapacityInvariance, PTL

-----------------------------------------------------------------------------
\* What a step does to the attempt number a worker acts on and to its plan.
LEMMA PlanSteps ==
  ASSUME IInv, BudgetInv, [Next]_vars
  PROVE  /\ \A w \in Worker : (Started(w) => ticket[w] # 0)'
         /\ \A w \in Worker : (Started(w) /\ pc[w] # "claimed" => ticket[w] <= seen[w])'
         /\ \A w \in Worker : (plan[w] = "retry" => pc[w] \in Planned /\ seen[w] < MaxAttempts)'
<1> DEFINE Plans ==
      /\ \A w \in Worker : (Started(w) => ticket[w] # 0)'
      /\ \A w \in Worker : (Started(w) /\ pc[w] # "claimed" => ticket[w] <= seen[w])'
      /\ \A w \in Worker : (plan[w] = "retry" => pc[w] \in Planned /\ seen[w] < MaxAttempts)'
<1> USE DEF IInv, TypeOK, WorkersTypeOK, RowsTypeOK, BudgetInv, Started, Planned
<1>1. ASSUME NEW v \in Worker, ClaimSelect(v) PROVE Plans
  BY <1>1 DEF ClaimSelect, Goto
<1>2. ASSUME NEW v \in Worker, ClaimCommit(v) PROVE Plans
  BY <1>2 DEF ClaimCommit, Goto
<1>3. ASSUME NEW v \in Worker, ReadClaim(v) PROVE Plans
  BY <1>3 DEF ReadClaim, Goto, TicketInv
<1>4. ASSUME NEW v \in Worker, StartHandler(v) \/ HandlerReturns(v) \/ RecordStep(v) \/ Finish(v)
      PROVE  Plans
  BY <1>4 DEF StartHandler, HandlerReturns, RecordStep, Finish, Goto
<1>5. ASSUME NEW v \in Worker, HandlerRaises(v) \/ HandlerTimesOut(v) \/ PublishError(v)
      PROVE  Plans
  <2>1. /\ \E retryable \in BOOLEAN : plan' = [plan EXCEPT ![v] = FailurePlan(v, retryable)]
        /\ \E p \in Planned : Goto(v, p)
        /\ Started(v) /\ pc[v] # "claimed"
        /\ UNCHANGED <<ticket, seen>>
    BY <1>5 DEF HandlerRaises, HandlerTimesOut, PublishError, InTry
  <2> QED
    BY <2>1 DEF FailurePlan, Goto
<1>6. ASSUME NEW v \in Worker, CheckCancelled(v) \/ CheckFailing(v) PROVE Plans
  BY <1>6 DEF CheckCancelled, CheckFailing, Goto, Leave
<1>7. ASSUME NEW v \in Worker, FailUnregistered(v) \/ Report(v) \/ StoreError(v) \/ Crash(v)
      PROVE  Plans
  BY <1>7 DEF FailUnregistered, Report, StoreError, Crash, Leave
<1>8. ASSUME UNCHANGED workerVars PROVE Plans
  BY <1>8 DEF workerVars
<1>9. ASSUME NEW r \in Run, Enqueue(r) \/ CancelRun(r) \/ LeaseLapses(r)
                            \/ LeaseOverrun(r) \/ RetryComesDue(r)
      PROVE  UNCHANGED workerVars
  BY <1>9 DEF Enqueue, CancelRun, LeaseLapses, LeaseOverrun, ExpireLease, RetryComesDue
<1>10. ASSUME NEW t \in Task, SetTaskStatus(t) PROVE UNCHANGED workerVars
  BY <1>10 DEF SetTaskStatus
<1>11. ASSUME UNCHANGED vars PROVE UNCHANGED workerVars
  BY <1>11 DEF vars
<1> QED
  BY <1>1, <1>2, <1>3, <1>4, <1>5, <1>6, <1>7, <1>8, <1>9, <1>10, <1>11 DEF Next, RunOnce

\* Only the claim of a run gives an attempt number out again, the next one.
LEMMA HoldsSteps ==
  ASSUME IInv, ReportInv, [Next]_vars, NEW w \in Worker, NEW r \in Run,
         NEW n \in 1..(MaxAttempts - 1), Holds(w, r, n)'
  PROVE  Holds(w, r, n) \/ (ClaimCommit(w) /\ cur[w] = r /\ n = attempt'[r])
<1> USE DEF IInv, TypeOK, WorkersTypeOK, RowsTypeOK
<1>1. status[r] \notin Terminal
  BY OverIsOver DEF Holds
<1>2. cur'[w] = r /\ ticket'[w] = n /\ pc'[w] # "reporting" /\ r # NoRun /\ n # 0
  BY ConstantsAssumption DEF ConstantsAssumption, Holds
<1>3. ASSUME NEW v \in Worker, Leave(v) PROVE v # w /\ Holds(w, r, n)
  <2>1. cur'[v] = NoRun
    BY <1>3 DEF Leave
  <2>2. v # w
    BY <1>2, <2>1
  <2>3. cur'[w] = cur[w] /\ ticket'[w] = ticket[w] /\ pc'[w] = pc[w]
    BY <1>3, <2>2 DEF Leave
  <2> QED
    BY <1>1, <1>2, <2>2, <2>3 DEF Holds
<1>4. ASSUME NEW v \in Worker, ClaimSelect(v) PROVE Holds(w, r, n)
  <2>1. v # w
    BY <1>2, <1>4, ConstantsAssumption DEF ConstantsAssumption, ClaimSelect, TicketInv
  <2> QED
    BY <1>1, <1>2, <1>4, <2>1 DEF ClaimSelect, Goto, Holds
<1>5. ASSUME NEW v \in Worker, ClaimCommit(v)
      PROVE  Holds(w, r, n) \/ (v = w /\ cur[w] = r /\ n = attempt'[r])
  BY <1>1, <1>2, <1>5 DEF ClaimCommit, Goto, Holds
<1>6. ASSUME pc[w] = "reporting", UNCHANGED <<cur, ticket>> PROVE FALSE
  <2>1. CASE Report(w) \/ StoreError(w) \/ Crash(w)
    <3>1. Leave(w)
      BY <2>1 DEF Report, StoreError, Crash
    <3> QED
      BY <1>3, <3>1
  <2>2. CASE PublishError(w)
    <3>1. plan[w] = "succeeded"
      BY <1>6, <2>2 DEF PublishError, InTry
    <3> QED
      BY <1>1, <1>2, <1>6, <3>1 DEF ReportInv
  <2> QED
    BY <1>2, <1>6, <2>1, <2>2, ReportingSteps
<1>7. ASSUME UNCHANGED <<cur, ticket>> PROVE Holds(w, r, n)
  BY <1>1, <1>2, <1>6, <1>7 DEF Holds
<1> QED
  BY <1>3, <1>4, <1>5, <1>7, WorkerSteps

\* A run that was started is never absent or queued again, and its attempt
\* never decreases.
LEMMA StartedStays ==
  ASSUME IInv, [Next]_vars, NEW r \in Run, status[r] \notin {"absent", "queued"}
  PROVE  /\ status'[r] \notin {"absent", "queued"}
         /\ attempt'[r] >= attempt[r]
         /\ attempt'[r] \in Nat
<1>1. [Lifecycle!Next]_(Lifecycle!vars)
  BY NextLifecycle
<1>2. status \in [Run -> RunStatus] /\ attempt \in [Run -> Nat \ {0}]
  BY DEF IInv, TypeOK, RowsTypeOK
<1> DEFINE Stays == /\ status'[r] \notin {"absent", "queued"}
                    /\ attempt'[r] >= attempt[r]
                    /\ attempt'[r] \in Nat
<1>3. ASSUME NEW q \in Run,
             \/ Lifecycle!Submit(q) \/ Lifecycle!Start(q) \/ Lifecycle!StartAgain(q)
             \/ Lifecycle!EndAttempt(q) \/ Lifecycle!Cancel(q)
      PROVE  Stays
  BY <1>2, <1>3 DEF Terminal, Lifecycle!Submit, Lifecycle!Start, Lifecycle!StartAgain,
                    Lifecycle!EndAttempt, Lifecycle!Cancel
<1>4. ASSUME UNCHANGED <<status, attempt>> PROVE Stays
  BY <1>2, <1>4
<1> QED
  BY <1>1, <1>3, <1>4 DEF Lifecycle!Next, Lifecycle!vars

\* The numbers below the last are finitely many.
LEMMA UnusedIsFinite == ASSUME NEW r \in Run PROVE IsFiniteSet(Unused(r))
<1>1. MaxAttempts - 1 \in Int
  BY ConstantsAssumption DEF ConstantsAssumption
<1>2. IsFiniteSet(1..(MaxAttempts - 1))
  BY <1>1, FS_Interval
<1>3. Unused(r) \subseteq 1..(MaxAttempts - 1)
  BY DEF Unused
<1> QED
  BY <1>2, <1>3, FS_Subset

\* The numbers that may still bring r back never become more.
LEMMA UnusedShrinks ==
  ASSUME IInv, ReportInv, [Next]_vars, NEW r \in Run
  PROVE  Unused(r)' \subseteq Unused(r)
<1> SUFFICES ASSUME NEW n \in 1..(MaxAttempts - 1), status[r] \notin {"absent", "queued"},
                    \/ n > attempt'[r]
                    \/ status'[r] \in {"absent", "queued"}
                    \/ \E w \in Worker : Holds(w, r, n)'
             PROVE  n > attempt[r] \/ \E w \in Worker : Holds(w, r, n)
  BY DEF Unused
<1>1. /\ status'[r] \notin {"absent", "queued"}
      /\ attempt'[r] >= attempt[r]
      /\ attempt'[r] \in Nat /\ attempt[r] \in Nat
  BY StartedStays DEF IInv, TypeOK, RowsTypeOK
<1>2. ASSUME NEW w \in Worker, ClaimCommit(w), cur[w] = r PROVE attempt'[r] = attempt[r] + 1
  <2>1. status[r] \in Live
    BY <1>2, EndsWhatStarted
  <2> QED
    BY <1>2, <2>1 DEF ClaimCommit, Live, IInv, TypeOK, RowsTypeOK
<1>3. MaxAttempts \in Nat
  BY ConstantsAssumption DEF ConstantsAssumption
<1> QED
  BY <1>1, <1>2, <1>3, HoldsSteps

\* A step that leaves the attempts and retries of r within what is used up.
LEMMA WithinBudget ==
  ASSUME IInv, ReportInv, BudgetInv, [Next]_vars, NEW r \in Run,
         attempt'[r] + Waits(r)' - reclaims'[r] <= attempt[r] + Waits(r) - reclaims[r],
         attempt'[r] \in Nat, reclaims'[r] \in Nat
  PROVE  attempt'[r] + Waits(r)' + Cardinality(Unused(r)') <= MaxAttempts + reclaims'[r]
<1>1. IsFiniteSet(Unused(r))
  BY UnusedIsFinite
<1>2. /\ Cardinality(Unused(r)') <= Cardinality(Unused(r))
      /\ Cardinality(Unused(r)') \in Nat
      /\ Cardinality(Unused(r)) \in Nat
  BY <1>1, UnusedShrinks, FS_Subset, FS_CardinalityType
<1>3. attempt[r] \in Nat /\ reclaims[r] \in Nat /\ MaxAttempts \in Nat
  BY ConstantsAssumption DEF ConstantsAssumption, IInv, TypeOK, RowsTypeOK, LogsTypeOK
<1>5. Waits(r) \in Nat /\ Waits(r)' \in Nat
  BY DEF Waits
<1>4. attempt[r] + Waits(r) + Cardinality(Unused(r)) <= MaxAttempts + reclaims[r]
  BY DEF BudgetInv
<1> QED
  BY <1>2, <1>3, <1>4, <1>5

\* Putting a run back uses up the number of the worker that does so.
LEMMA RetryUsesTicket ==
  ASSUME IInv, ReportInv, BudgetInv, [Next]_vars, NEW w \in Worker, Finish(w),
         NEW r \in Run, cur[w] = r, plan[w] = "retry", status[r] \notin Terminal
  PROVE  Cardinality(Unused(r)') + 1 <= Cardinality(Unused(r))
<1>0. PICK n \in Nat : n = ticket[w]
  BY DEF IInv, TypeOK, WorkersTypeOK
<1>1. /\ n \in 1..(MaxAttempts - 1)
      /\ n <= attempt[r] /\ attempt[r] \in Nat
      /\ status[r] \notin {"absent", "queued"}
  <2>1. pc[w] = "finishing"
    BY DEF Finish
  <2>2. n # 0 /\ n <= seen[w] /\ seen[w] < MaxAttempts
    BY <1>0, <2>1 DEF BudgetInv, Started, IInv, TypeOK, WorkersTypeOK
  <2>3. n \in Nat /\ seen[w] \in Nat /\ MaxAttempts \in Nat
    BY ConstantsAssumption DEF ConstantsAssumption, IInv, TypeOK, WorkersTypeOK
  <2>4. n <= attempt[r] /\ status[r] \notin {"absent", "queued"}
    BY <1>0, <2>1 DEF IInv, TicketInv
  <2> QED
    BY <2>2, <2>3, <2>4 DEF IInv, TypeOK, RowsTypeOK
<1>2. n \in Unused(r)
  <2>1. Holds(w, r, n)
    BY <1>0 DEF Holds, Finish
  <2> QED
    BY <1>1, <2>1 DEF Unused
<1>3. /\ cur' = cur /\ ticket' = ticket /\ pc' = [pc EXCEPT ![w] = "reporting"]
      /\ status' = [status EXCEPT ![r] = "retry_wait"] /\ attempt' = attempt
  BY DEF Finish, FinishRun, Goto
<1>4. n \notin Unused(r)'
  <2>1. status'[r] = "retry_wait" /\ ~(n > attempt'[r])
    BY <1>1, <1>3 DEF IInv, TypeOK, RowsTypeOK
  <2>2. ASSUME NEW v \in Worker, Holds(v, r, n)' PROVE FALSE
    <3>1. cur'[v] = r /\ ticket'[v] = n /\ pc'[v] # "reporting"
      BY <2>2 DEF Holds
    <3>2. v # w
      BY <1>3, <3>1 DEF IInv, TypeOK, WorkersTypeOK
    <3> QED
      BY <1>0, <1>1, <1>3, <3>1, <3>2 DEF IInv, ClaimsAreDistinct
  <2> QED
    BY <2>1, <2>2 DEF Unused
<1>5. Unused(r)' \subseteq Unused(r) \ {n}
  BY <1>1, <1>4, UnusedShrinks
<1>6. IsFiniteSet(Unused(r))
  BY UnusedIsFinite
<1>7. /\ IsFiniteSet(Unused(r) \ {n})
      /\ Cardinality(Unused(r) \ {n}) = Cardinality(Unused(r)) - 1
  BY <1>1, <1>2, <1>6, FS_RemoveElement
<1>8. Cardinality(Unused(r)') <= Cardinality(Unused(r) \ {n}) /\ IsFiniteSet(Unused(r)')
  BY <1>5, <1>7, FS_Subset
<1>9. Cardinality(Unused(r)) \in Nat /\ Cardinality(Unused(r)') \in Nat
  BY <1>6, <1>8, FS_CardinalityType
<1> QED
  BY <1>7, <1>8, <1>9

\* No step takes a run over its budget of attempts.
LEMMA NextBudget == IInv /\ ReportInv /\ BudgetInv /\ [Next]_vars => BudgetInv'
<1> SUFFICES ASSUME IInv, ReportInv, BudgetInv, [Next]_vars PROVE BudgetInv'
  OBVIOUS
<1> SUFFICES ASSUME NEW r \in Run
             PROVE  attempt'[r] + Waits(r)' + Cardinality(Unused(r)') <= MaxAttempts + reclaims'[r]
  BY PlanSteps DEF BudgetInv
<1>1. /\ status \in [Run -> RunStatus] /\ status' \in [Run -> RunStatus]
      /\ attempt \in [Run -> Nat \ {0}] /\ attempt' \in [Run -> Nat \ {0}]
      /\ reclaims \in [Run -> Nat] /\ reclaims' \in [Run -> Nat]
  BY NextTypeOK DEF IInv, TypeOK, RowsTypeOK, LogsTypeOK
<1> DEFINE NoMore == attempt'[r] + Waits(r)' - reclaims'[r] <= attempt[r] + Waits(r) - reclaims[r]
<1>2. NoMore => attempt'[r] + Waits(r)' + Cardinality(Unused(r)') <= MaxAttempts + reclaims'[r]
  BY <1>1, WithinBudget
<1>3. reclaims' = reclaims \/ \E w \in Worker : ClaimCommit(w)
  BY DEF Next, RunOnce, vars, Enqueue, CancelRun, LeaseLapses, LeaseOverrun, ExpireLease,
         RetryComesDue, SetTaskStatus, ClaimSelect, ReadClaim, FailUnregistered, StartHandler,
         HandlerReturns, HandlerRaises, HandlerTimesOut, CheckCancelled, CheckFailing,
         RecordStep, Finish, Report, PublishError, StoreError, Crash
<1>4. ASSUME NEW q \in Run, \/ Enqueue(q) \/ CancelRun(q) \/ LeaseLapses(q)
                            \/ LeaseOverrun(q) \/ RetryComesDue(q)
      PROVE  NoMore
  <2>1. UNCHANGED <<attempt, reclaims>>
    BY <1>4 DEF Enqueue, CancelRun, LeaseLapses, LeaseOverrun, ExpireLease, RetryComesDue
  <2>2. status'[r] = "retry_wait" => status[r] = "retry_wait"
    BY <1>1, <1>4 DEF Enqueue, CancelRun, LeaseLapses, LeaseOverrun, ExpireLease, RetryComesDue
  <2> QED
    BY <1>1, <2>1, <2>2 DEF Waits
<1>5. ASSUME NEW w \in Worker, ClaimCommit(w) PROVE NoMore
  <2>1. cur[w] \in Run /\ status[cur[w]] \in Live
    BY <1>5, EndsWhatStarted
  <2>2. CASE cur[w] = r
    <3>1. /\ status'[r] = "running"
          /\ attempt'[r] = IF status[r] \in {"retry_wait", "running"} THEN attempt[r] + 1 ELSE attempt[r]
          /\ reclaims'[r] = IF status[r] = "running" THEN reclaims[r] + 1 ELSE reclaims[r]
      BY <1>1, <1>5, <2>1, <2>2 DEF ClaimCommit
    <3> QED
      BY <1>1, <2>1, <2>2, <3>1 DEF Waits, Live
  <2>3. CASE cur[w] # r
    <3>1. status'[r] = status[r] /\ attempt'[r] = attempt[r] /\ reclaims'[r] = reclaims[r]
      BY <1>1, <1>5, <2>1, <2>3 DEF ClaimCommit
    <3> QED
      BY <1>1, <3>1 DEF Waits
  <2> QED
    BY <2>2, <2>3
<1>6. ASSUME NEW w \in Worker, FailUnregistered(w) PROVE NoMore
  <2>1. /\ cur[w] \in Run /\ FinishRun(cur[w], "failed")
        /\ UNCHANGED reclaims
    BY <1>6, EndsWhatStarted DEF FailUnregistered
  <2>2. attempt' = attempt /\ (status'[r] = "retry_wait" => status[r] = "retry_wait")
    BY <1>1, <2>1 DEF FinishRun, rowVars
  <2> QED
    BY <1>1, <2>1, <2>2 DEF Waits
<1>7. ASSUME NEW w \in Worker, Finish(w),
             ~(cur[w] = r /\ plan[w] = "retry" /\ status[r] = "running")
      PROVE  NoMore
  <2>1. /\ cur[w] \in Run /\ status[cur[w]] \notin {"absent", "queued"}
        /\ plan[w] \in {"succeeded", "failed", "retry"}
        /\ FinishRun(cur[w], IF plan[w] = "retry" THEN "retry_wait" ELSE plan[w])
        /\ UNCHANGED reclaims
    BY <1>7, EndsWhatStarted DEF Finish, IInv, TypeOK, WorkersTypeOK, Plan
  <2>2. attempt' = attempt /\ (status'[r] = "retry_wait" => status[r] = "retry_wait")
    BY <1>1, <1>7, <2>1 DEF FinishRun, rowVars, RunStatus
  <2> QED
    BY <1>1, <2>1, <2>2 DEF Waits
<1>8. ASSUME NEW w \in Worker, Finish(w), cur[w] = r, plan[w] = "retry", status[r] = "running"
      PROVE  attempt'[r] + Waits(r)' + Cardinality(Unused(r)') <= MaxAttempts + reclaims'[r]
  <2>1. Cardinality(Unused(r)') + 1 <= Cardinality(Unused(r))
    BY <1>8, RetryUsesTicket DEF Terminal
  <2>2. UNCHANGED <<attempt, reclaims>> /\ Waits(r)' <= 1 /\ Waits(r)' \in Nat /\ Waits(r) = 0
    BY <1>8 DEF Finish, FinishRun, rowVars, Waits, Terminal
  <2>3. /\ Cardinality(Unused(r)') \in Nat /\ Cardinality(Unused(r)) \in Nat
    <3>1. IsFiniteSet(Unused(r)) /\ IsFiniteSet(Unused(r)')
      BY UnusedIsFinite, UnusedShrinks, FS_Subset
    <3> QED
      BY <3>1, FS_CardinalityType
  <2>4. attempt[r] + Waits(r) + Cardinality(Unused(r)) <= MaxAttempts + reclaims[r]
    BY DEF BudgetInv
  <2> QED
    BY <1>1, <2>1, <2>2, <2>3, <2>4, ConstantsAssumption DEF ConstantsAssumption
<1>9. ASSUME UNCHANGED rowVars, UNCHANGED reclaims PROVE NoMore
  <2>1. UNCHANGED <<status, attempt, reclaims>>
    BY <1>9 DEF rowVars
  <2> QED
    BY <1>1, <2>1 DEF Waits
<1> QED
  BY <1>2, <1>3, <1>4, <1>5, <1>6, <1>7, <1>8, <1>9, RowSteps

\* Only taking over an expired lease adds to the attempts of the retry policy:
\* a retry needs an attempt number below the last, and no two retries use the
\* same one, also when stale workers put back a run that others execute.
THEOREM AttemptsStayInBudget == Spec => []AttemptBudget
<1>1. Init => BudgetInv
  <2> SUFFICES ASSUME Init PROVE BudgetInv
    OBVIOUS
  <2> USE ConstantsAssumption DEF ConstantsAssumption
  <2>1. ASSUME NEW r \in Run
        PROVE  attempt[r] + Waits(r) + Cardinality(Unused(r)) <= MaxAttempts + reclaims[r]
    <3>1. Unused(r) = 1..(MaxAttempts - 1)
      BY DEF Init, Unused
    <3>2. Cardinality(Unused(r)) = MaxAttempts - 1
      BY <3>1, FS_Interval
    <3>3. attempt[r] = 1 /\ Waits(r) = 0 /\ reclaims[r] = 0
      BY DEF Init, Waits
    <3> QED
      BY <3>2, <3>3
  <2> QED
    BY <2>1 DEF Init, BudgetInv, Started
<1>2. IInv /\ ReportInv /\ BudgetInv /\ [Next]_vars => BudgetInv'
  BY NextBudget
<1>3. IInv /\ BudgetInv => AttemptBudget
  <2> SUFFICES ASSUME IInv, BudgetInv, NEW r \in Run
               PROVE  attempt[r] <= MaxAttempts + reclaims[r]
    BY DEF AttemptBudget
  <2>1. attempt[r] + Waits(r) + Cardinality(Unused(r)) <= MaxAttempts + reclaims[r]
    BY DEF BudgetInv
  <2>2. Cardinality(Unused(r)) \in Nat /\ Waits(r) \in Nat
    BY UnusedIsFinite, FS_CardinalityType DEF Waits
  <2>3. attempt[r] \in Nat /\ reclaims[r] \in Nat /\ MaxAttempts \in Nat
    BY ConstantsAssumption DEF ConstantsAssumption, IInv, TypeOK, RowsTypeOK, LogsTypeOK
  <2> QED
    BY <2>1, <2>2, <2>3
<1> QED
  BY <1>1, <1>2, <1>3, Invariance, ReportInvariance, PTL DEF Spec

-----------------------------------------------------------------------------
\* A worker is busy because it just claimed or was busy on the same run before;
\* it never goes back to the start of run_once.
LEMMA BusySteps ==
  ASSUME IInv, [Next]_vars, NEW w \in Worker, Busy(w)'
  PROVE  \/ ClaimCommit(w)
         \/ /\ Busy(w) /\ cur'[w] = cur[w]
            /\ pc'[w] \in Starting => pc[w] \in Starting
<1> DEFINE Goal ==
      \/ ClaimCommit(w)
      \/ /\ Busy(w) /\ cur'[w] = cur[w]
         /\ pc'[w] \in Starting => pc[w] \in Starting
<1> USE DEF IInv, TypeOK, WorkersTypeOK, Busy, Started, Starting
<1>1. ASSUME NEW v \in Worker, ClaimSelect(v) PROVE Goal
  BY <1>1 DEF ClaimSelect, Goto
<1>2. ASSUME NEW v \in Worker, ClaimCommit(v) PROVE Goal
  BY <1>2 DEF ClaimCommit, Goto
<1>3. ASSUME NEW v \in Worker, ReadClaim(v) \/ StartHandler(v) \/ HandlerReturns(v)
                               \/ RecordStep(v) \/ Finish(v)
      PROVE  Goal
  BY <1>3 DEF ReadClaim, StartHandler, HandlerReturns, RecordStep, Finish, Goto
<1>4. ASSUME NEW v \in Worker, HandlerRaises(v) \/ HandlerTimesOut(v) \/ PublishError(v)
      PROVE  Goal
  <2>1. /\ pc[v] = "executing" \/ InTry(v)
        /\ \E p \in {"raised", "failing"} : Goto(v, p)
        /\ \A u \in Worker \ {v} : plan'[u] = plan[u]
        /\ UNCHANGED cur
    BY <1>4 DEF HandlerRaises, HandlerTimesOut, PublishError
  <2> QED
    BY <2>1 DEF InTry, Goto
<1>5. ASSUME NEW v \in Worker, CheckCancelled(v) \/ CheckFailing(v) PROVE Goal
  BY <1>5 DEF CheckCancelled, CheckFailing, Goto, Leave
<1>6. ASSUME NEW v \in Worker, FailUnregistered(v) \/ Report(v) \/ StoreError(v) \/ Crash(v)
      PROVE  Goal
  BY <1>6 DEF FailUnregistered, Report, StoreError, Crash, Leave
<1>7. ASSUME UNCHANGED workerVars PROVE Goal
  BY <1>7 DEF workerVars
<1>8. ASSUME NEW r \in Run, Enqueue(r) \/ CancelRun(r) \/ LeaseLapses(r)
                            \/ LeaseOverrun(r) \/ RetryComesDue(r)
      PROVE  UNCHANGED workerVars
  BY <1>8 DEF Enqueue, CancelRun, LeaseLapses, LeaseOverrun, ExpireLease, RetryComesDue
<1>9. ASSUME NEW t \in Task, SetTaskStatus(t) PROVE UNCHANGED workerVars
  BY <1>9 DEF SetTaskStatus
<1>10. ASSUME UNCHANGED vars PROVE UNCHANGED workerVars
  BY <1>10 DEF vars
<1> QED
  BY <1>1, <1>2, <1>3, <1>4, <1>5, <1>6, <1>7, <1>8, <1>9, <1>10 DEF Next, RunOnce

\* A lease that is overrun is counted, for good.
LEMMA OverrunsCount ==
  ASSUME IInv, [Next]_vars
  PROVE  overruns'= 0 => overruns = 0 /\ \A r \in Run : ~LeaseOverrun(r)
<1> USE DEF IInv, TypeOK, LogsTypeOK
<1>1. ASSUME NEW r \in Run, LeaseOverrun(r) PROVE overruns' # 0
  BY <1>1 DEF LeaseOverrun
<1>2. ASSUME \A r \in Run : ~LeaseOverrun(r) PROVE UNCHANGED overruns
  BY <1>2 DEF Next, vars, RunOnce, Enqueue, CancelRun, LeaseLapses, RetryComesDue,
       SetTaskStatus, ClaimSelect, ClaimCommit, ReadClaim, FailUnregistered, StartHandler,
       HandlerReturns, HandlerRaises, HandlerTimesOut, CheckCancelled, CheckFailing,
       RecordStep, Finish, Report, PublishError, StoreError, Crash
<1> QED
  BY <1>1, <1>2

\* No lease of a busy worker is taken away, except by the end of its run.
LEMMA LeaseGoesOn ==
  ASSUME IInv, ExclusiveInv, [Next]_vars, overruns = 0, \A r \in Run : ~LeaseOverrun(r),
         NEW w \in Worker, Busy(w), Busy(w)', cur'[w] = cur[w], Leases(w)
  PROVE  \/ Leases(w)'
         \/ (status[cur[w]] = "cancelled")'
         \/ (status[cur[w]] = plan[w] /\ pc[w] = "reporting" /\ status[cur[w]] \in Terminal)'
<1> DEFINE Goal ==
      \/ Leases(w)'
      \/ (status[cur[w]] = "cancelled")'
      \/ (status[cur[w]] = plan[w] /\ pc[w] = "reporting" /\ status[cur[w]] \in Terminal)'
<1> USE DEF IInv, TypeOK, WorkersTypeOK, RowsTypeOK
<1>1. /\ cur[w] \in Run /\ status[cur[w]] = "running"
      /\ lease[cur[w]] = "live" /\ owner[cur[w]] = w
  BY DEF Busy, Started, Leases, LeaseMatchesStatus
<1>2. ASSUME NEW r \in Run, Enqueue(r) \/ RetryComesDue(r) PROVE Goal
  BY <1>1, <1>2 DEF Enqueue, RetryComesDue, Leases
<1>3. ASSUME NEW r \in Run, CancelRun(r) PROVE Goal
  BY <1>1, <1>3 DEF CancelRun, Leases
<1>4. ASSUME NEW r \in Run, LeaseLapses(r) PROVE Goal
  <2>1. r # cur[w]
    BY <1>1, <1>4 DEF LeaseLapses, AtWork
  <2> QED
    BY <1>1, <1>4, <2>1 DEF LeaseLapses, ExpireLease, Leases
<1>5. ASSUME NEW v \in Worker, ClaimCommit(v) PROVE Goal
  <2>1. cur[v] # cur[w]
    BY <1>1, <1>5 DEF ClaimCommit, ExclusiveInv
  <2> QED
    BY <1>1, <1>5, <2>1 DEF ClaimCommit, Leases
<1>6. ASSUME NEW v \in Worker, FailUnregistered(v) \/ Finish(v), v # w PROVE Goal
  <2>1. cur[v] # cur[w]
    BY <1>6 DEF FailUnregistered, Finish, ExclusiveInv, Busy, Started
  <2>2. \E s \in {"succeeded", "failed", "retry_wait"} : FinishRun(cur[v], s)
    BY <1>6, EndsWhatStarted
  <2> QED
    BY <1>1, <2>1, <2>2 DEF FinishRun, rowVars, Leases
<1>7. ASSUME FailUnregistered(w) PROVE Goal
  BY <1>7 DEF FailUnregistered, Leave, Busy, Started
<1>8. ASSUME Finish(w) PROVE Goal
  <2>1. pc'[w] = "reporting" /\ plan'[w] = plan[w] /\ plan[w] \in {"succeeded", "failed"}
    BY <1>8 DEF Finish, Goto, Busy, Plan
  <2>2. FinishRun(cur[w], plan[w])
    BY <1>8, <2>1 DEF Finish
  <2> QED
    BY <1>1, <2>1, <2>2 DEF FinishRun, Terminal
<1>9. ASSUME UNCHANGED rowVars PROVE Goal
  BY <1>1, <1>9 DEF rowVars, Leases
<1> QED
  BY <1>2, <1>3, <1>4, <1>5, <1>6, <1>7, <1>8, <1>9, RowSteps

\* A worker that commits its claim is alone with the run it claimed.
LEMMA ClaimsAlone ==
  ASSUME IInv, ExclusiveInv, overruns = 0, NEW w \in Worker, ClaimCommit(w),
         NEW v \in Worker, Busy(v)
  PROVE  cur[v] # cur[w]
<1>1. status[cur[w]] \in Live /\ lease[cur[w]] # "live" /\ cur[w] \in Run
  BY EndsWhatStarted DEF ClaimCommit, ExclusiveInv
<1> QED
  BY <1>1 DEF ExclusiveInv, Leases, Live, Terminal

\* As long as no lease is overrun, every step keeps the workers apart.
LEMMA NextExclusive == IInv /\ ExclusiveInv /\ [Next]_vars => ExclusiveInv'
<1> SUFFICES ASSUME IInv, ExclusiveInv, [Next]_vars PROVE ExclusiveInv'
  OBVIOUS
<1> USE DEF IInv, TypeOK, WorkersTypeOK, RowsTypeOK
<1>1. ASSUME NEW w \in Worker, pc'[w] = "selected" PROVE lease'[cur'[w]] # "live"
  <2>1. CASE ClaimSelect(w)
    <3>1. Claimable(cur'[w]) /\ UNCHANGED lease /\ cur'[w] \in Run
      BY <2>1 DEF ClaimSelect, rowVars
    <3> QED
      BY <3>1 DEF Claimable, LeaseMatchesStatus
  <2>2. CASE pc[w] = "selected" /\ cur'[w] = cur[w]
    <3>1. cur[w] \in Run /\ lease[cur[w]] # "live" /\ cur[w] \in locks[w]
      BY <2>2 DEF ExclusiveInv, SelectionInv
    <3>2. ASSUME NEW v \in Worker, ClaimCommit(v) PROVE cur[v] # cur[w]
      <4>1. v # w
        BY <1>1, <3>2 DEF ClaimCommit, Goto
      <4> QED
        BY <3>1, <3>2, <4>1 DEF ClaimCommit, SelectionInv
    <3> QED
      BY <2>2, <3>1, <3>2, LiveSteps
  <2> QED
    BY <1>1, <2>1, <2>2, SelectedSteps
<1>2. ASSUME overruns' = 0, NEW w \in Worker, Busy(w)'
      PROVE  \/ Leases(w)'
             \/ (status[cur[w]] = "cancelled")'
             \/ (status[cur[w]] \in Terminal)' /\ pc'[w] \notin Starting
  <2>0. overruns = 0 /\ \A r \in Run : ~LeaseOverrun(r)
    BY <1>2, OverrunsCount
  <2>1. CASE ClaimCommit(w)
    BY <2>1 DEF ClaimCommit, Leases
  <2>2. CASE Busy(w) /\ cur'[w] = cur[w] /\ (pc'[w] \in Starting => pc[w] \in Starting)
    <3>1. CASE Leases(w)
      BY <1>2, <2>0, <2>2, <3>1, LeaseGoesOn DEF Starting
    <3>2. CASE ~Leases(w)
      <4>1. \/ status[cur[w]] = "cancelled"
            \/ status[cur[w]] \in Terminal /\ pc[w] \notin Starting
        BY <2>0, <2>2, <3>2 DEF ExclusiveInv
      <4>2. cur[w] \in Run /\ status'[cur[w]] = status[cur[w]]
        BY <2>2, <4>1, OverIsOver DEF Busy, Started, Terminal
      <4> QED
        BY <2>2, <4>1, <4>2
    <3> QED
      BY <3>1, <3>2
  <2> QED
    BY <1>2, <2>1, <2>2, BusySteps
<1>3. ASSUME overruns' = 0, NEW v \in Worker, NEW w \in Worker,
             Busy(v)', Busy(w)', cur'[v] = cur'[w]
      PROVE  v = w
  <2>0. overruns = 0
    BY <1>3, OverrunsCount
  <2>1. ASSUME NEW u \in Worker, Busy(u)', ClaimCommit(u),
               NEW x \in Worker, Busy(x)', cur'[x] = cur'[u]
        PROVE  x = u
    <3>1. cur'[u] = cur[u] /\ cur'[x] = cur[x]
      BY <2>1 DEF ClaimCommit
    <3>2. ClaimCommit(x) => x = u
      BY <2>1 DEF ClaimCommit, Goto
    <3> QED
      BY <2>0, <2>1, <3>1, <3>2, BusySteps, ClaimsAlone
  <2>2. CASE Busy(v) /\ Busy(w) /\ cur'[v] = cur[v] /\ cur'[w] = cur[w]
    BY <1>3, <2>0, <2>2 DEF ExclusiveInv
  <2> QED
    BY <1>3, <2>1, <2>2, BusySteps
<1> QED
  BY <1>1, <1>2, <1>3 DEF ExclusiveInv

\* A lease keeps a run to one worker, until one is overrun.
LEMMA ExclusiveInvariance == Spec => []ExclusiveInv
<1>1. Init => ExclusiveInv
  BY DEF Init, ExclusiveInv, Busy, Started
<1>2. IInv /\ ExclusiveInv /\ [Next]_vars => ExclusiveInv'
  BY NextExclusive
<1> QED
  BY <1>1, <1>2, Invariance, PTL DEF Spec

\* Until a fault or an overrun every step keeps the verdicts true.
LEMMA NextVerdict ==
  IInv /\ ReportInv /\ ExclusiveInv /\ VerdictInv /\ [Next]_vars => VerdictInv'
<1> SUFFICES ASSUME IInv, ReportInv, ExclusiveInv, VerdictInv, [Next]_vars,
                    faults' = 0, overruns' = 0
             PROVE  /\ \A w \in Worker : Busy(w)' => Leases(w)' \/ Ended(w)'
                    /\ \A e \in outbox' : e.type \in {"succeeded", "failed"} =>
                         status'[e.run] \in {e.type, "cancelled"}
  BY DEF VerdictInv
<1> USE DEF IInv, TypeOK, WorkersTypeOK
<1>1. overruns = 0 /\ \A r \in Run : ~LeaseOverrun(r)
  BY OverrunsCount
<1>2. faults = 0 /\ \A w \in Worker : ~(PublishError(w) \/ StoreError(w) \/ Crash(w))
  BY LogSteps
<1>3. ASSUME NEW w \in Worker, Busy(w)' PROVE Leases(w)' \/ Ended(w)'
  <2>1. CASE ClaimCommit(w)
    BY <2>1 DEF ClaimCommit, Leases, RowsTypeOK
  <2>2. CASE Busy(w) /\ cur'[w] = cur[w]
    <3>1. CASE Leases(w)
      BY <1>1, <1>3, <2>2, <3>1, LeaseGoesOn DEF Ended
    <3>2. CASE Ended(w)
      <4>1. status[cur[w]] \in Terminal /\ cur[w] \in Run
        BY <2>2, <3>2 DEF Ended, Busy, Started, Terminal, Plan
      <4>2. status'[cur'[w]] = status[cur[w]]
        BY <2>2, <4>1, OverIsOver
      <4>3. Report(w) => ~Busy(w)'
        BY DEF Report, Leave, Busy, Started
      <4>4. pc[w] = "reporting" => pc'[w] = "reporting" /\ plan'[w] = plan[w]
        BY <1>2, <1>3, <4>3, ReportingSteps
      <4> QED
        BY <3>2, <4>2, <4>4 DEF Ended
    <3> QED
      BY <1>1, <1>2, <2>2, <3>1, <3>2 DEF VerdictInv
  <2> QED
    BY <1>3, <2>1, <2>2, BusySteps
<1>4. ASSUME NEW e \in outbox', e.type \in {"succeeded", "failed"}
      PROVE  status'[e.run] \in {e.type, "cancelled"}
  <2>1. CASE e \in outbox
    <3>1. e.run \in Run /\ status[e.run] \in {e.type, "cancelled"}
      BY <1>1, <1>2, <1>4, <2>1 DEF VerdictInv, LogsTypeOK
    <3> QED
      BY <1>4, <3>1, OverIsOver DEF Terminal
  <2>2. CASE e \notin outbox
    <3>1. PICK w \in Worker : Report(w)
      BY <2>2, LogSteps
    <3>2. /\ e.run = cur[w]
          /\ e.type = IF plan[w] = "retry" THEN "retry_scheduled" ELSE plan[w]
      BY <2>2, <3>1 DEF Report, EmitRunEvent
    <3>3. pc[w] = "reporting" /\ plan[w] # "retry" /\ e.type = plan[w] /\ cur[w] \in Run
      BY <1>4, <3>1, <3>2 DEF Report
    <3>4. status[cur[w]] \in Terminal /\ Busy(w)
      BY <3>3 DEF ReportInv, Busy, Started
    <3>5. ~Leases(w)
      BY <3>3, <3>4 DEF Leases, LeaseMatchesStatus, Terminal
    <3>6. status[cur[w]] \in {e.type, "cancelled"}
      BY <1>1, <1>2, <3>3, <3>4, <3>5 DEF VerdictInv, Ended
    <3> QED
      BY <3>2, <3>3, <3>4, <3>6, OverIsOver
  <2> QED
    BY <2>1, <2>2
<1> QED
  BY <1>3, <1>4

\* Until a fault or an overrun the verdicts are true.
LEMMA VerdictInvariance == Spec => []VerdictInv
<1>1. Init => VerdictInv
  BY DEF Init, VerdictInv, Busy, Started
<1>2. IInv /\ ReportInv /\ ExclusiveInv /\ VerdictInv /\ [Next]_vars => VerdictInv'
  BY NextVerdict
<1> QED
  BY <1>1, <1>2, Invariance, ReportInvariance, ExclusiveInvariance, PTL DEF Spec

\* As long as no fault strikes, a run that succeeded is reported or has a
\* worker about to report it, also when another worker ended it first; and
\* until a lease is overrun nobody is told that it failed.
THEOREM SuccessesAreReported == Spec => []SuccessIsReported
<1>1. ReportInv /\ VerdictInv => SuccessIsReported
  BY DEF ReportInv, VerdictInv, SuccessIsReported
<1> QED
  BY <1>1, ReportInvariance, VerdictInvariance, PTL

\* As long as nobody outlives a lease, no two workers wait for handlers of the
\* same run: with the lease renewed, claim_run alone would keep a run to one
\* worker through cancellations, crashes, store errors and retries.
THEOREM OneWorkerPerRun ==
  Spec => [](overruns = 0 =>
               \A v, w \in Worker :
                 pc[v] = "executing" /\ pc[w] = "executing" /\ cur[v] = cur[w] => v = w)
<1>1. ExclusiveInv => (overruns = 0 =>
               \A v, w \in Worker :
                 pc[v] = "executing" /\ pc[w] = "executing" /\ cur[v] = cur[w] => v = w)
  BY DEF ExclusiveInv, Busy, Started
<1> QED
  BY <1>1, ExclusiveInvariance, PTL

\* Where claims lock the task row and nobody outlives a lease, the handlers of a
\* task that workers wait for stay within its max_concurrency, apart from those
\* of cancelled runs, which nothing stops.
THEOREM ExecutionsStayWithinLimit ==
  ASSUME JoinedRowsLocked
  PROVE  Spec => [](overruns = 0 =>
           \A t \in Task :
             Cardinality({w \in Executing(t) : status[cur[w]] # "cancelled"}) <= MaxConcurrency)
<1>1. IInv /\ CapacityInv /\ ExclusiveInv =>
        (overruns = 0 =>
           \A t \in Task :
             Cardinality({w \in Executing(t) : status[cur[w]] # "cancelled"}) <= MaxConcurrency)
  <2> DEFINE Running(t) == {w \in Executing(t) : status[cur[w]] # "cancelled"}
  <2> SUFFICES ASSUME IInv, CapacityInv, ExclusiveInv, overruns = 0, NEW t \in Task
               PROVE  Cardinality(Running(t)) <= MaxConcurrency
    OBVIOUS
  <2> DEFINE runOf == [w \in Running(t) |-> cur[w]]
  <2>1. ASSUME NEW w \in Running(t)
        PROVE  w \in Worker /\ Busy(w) /\ cur[w] \in LiveRuns(t)
    <3>1. w \in Worker /\ pc[w] = "executing" /\ TaskOf[cur[w]] = t /\ status[cur[w]] # "cancelled"
      BY DEF Executing
    <3>2. Busy(w) /\ cur[w] \in Run /\ pc[w] \in Starting
      BY <3>1 DEF Busy, Started, Starting, IInv, TypeOK, WorkersTypeOK
    <3>3. Leases(w)
      BY <3>1, <3>2 DEF ExclusiveInv
    <3> QED
      BY <3>1, <3>2, <3>3 DEF LiveRuns, Leases
  <2>2. runOf \in [Running(t) -> LiveRuns(t)]
    BY <2>1
  <2>3. \A v, w \in Running(t) : runOf[v] = runOf[w] => v = w
    BY <2>1 DEF ExclusiveInv
  <2>4. runOf \in Injection(Running(t), LiveRuns(t))
    BY <2>2, <2>3, Fun_IsInj
  <2>5. IsFiniteSet(LiveRuns(t)) /\ Cardinality(LiveRuns(t)) <= MaxConcurrency
    BY DEF CapacityInv, LiveRunsWithinLimit, LiveRuns
  <2>6. IsFiniteSet(Running(t)) /\ Cardinality(Running(t)) <= Cardinality(LiveRuns(t))
    BY <2>4, <2>5, FS_Injection
  <2>7. Cardinality(Running(t)) \in Nat /\ Cardinality(LiveRuns(t)) \in Nat
    <3> HIDE DEF Running
    <3> QED
      BY <2>5, <2>6, FS_CardinalityType
  <2>8. MaxConcurrency \in Nat
    BY ConstantsAssumption DEF ConstantsAssumption
  <2> QED
    BY <2>5, <2>6, <2>7, <2>8
<1> QED
  BY <1>1, CapacityInvariance, ExclusiveInvariance, Invariance, PTL
=============================================================================
