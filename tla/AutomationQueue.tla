-------------------------- MODULE AutomationQueue --------------------------
(***************************************************************************)
(* The automation run queue of backend/platform/automation: the table      *)
(* platform_automation_task_runs as PostgreSQLAutomationStore keeps it,    *)
(* and the workers that drain it through AutomationRuntime.run_once.       *)
(*                                                                         *)
(* Every store call is one transaction, hence one action; run_once makes   *)
(* several of them, so a worker is a program counter over those calls and  *)
(* other workers, cancellations and crashes come between any two of them.  *)
(*                                                                         *)
(* Time is abstracted: a lease is "live" until it lapses, next_retry_at is *)
(* "waiting" until it is due.  claim_run is two actions because its row    *)
(* locks (FOR UPDATE OF r SKIP LOCKED) outlive the counting query that     *)
(* enforces max_concurrency: a concurrent claimer counts before this one   *)
(* commits.  PostgreSQL locks the selected runs alone; the translation for *)
(* MySQL drops "OF r" (database/mysql_compat.py), so that there the claim  *)
(* also locks their task rows: JoinedRowsLocked tells the two apart.       *)
(***************************************************************************)
EXTENDS Integers, Sequences, FiniteSets

CONSTANTS
  Task,            \* automation tasks
  Run,             \* runs: one per (task, idempotency key)
  TaskOf,          \* the task of each run
  Worker,          \* worker processes, each with its own worker_id
  NoWorker,        \* lease_owner IS NULL
  NoRun,           \* a worker that works on nothing
  Registered,      \* tasks whose handler_ref every worker registers
  MaxAttempts,     \* retry_policy.max_attempts
  MaxConcurrency,  \* max_concurrency
  JoinedRowsLocked,  \* whether a claim locks the joined task rows as well
  MaxFaults,       \* bound: crashes and store errors in a behaviour
  MaxOverruns      \* bound: leases that lapse under a worker still at work

ASSUME ConstantsAssumption ==
  /\ TaskOf \in [Run -> Task]
  /\ NoWorker \notin Worker
  /\ NoRun \notin Run
  /\ Registered \subseteq Task
  /\ MaxAttempts \in 1..20
  /\ MaxConcurrency \in 1..100
  /\ JoinedRowsLocked \in BOOLEAN
  /\ MaxFaults \in Nat
  /\ MaxOverruns \in Nat

VARIABLES
  taskActive,  \* whether a task is active, as against paused or disabled
  created,     \* the runs in created_at order
  status, attempt, lease, owner, retry,  \* columns of a run's row
  step,        \* status of the run's execute_handler row in platform_job_steps
  outbox,      \* run events in platform_outbox_events
  pc,          \* where each worker stands in run_once
  cur,         \* the run it works on
  ticket,      \* attempt number its claim wrote
  seen,        \* attempt number it read back and acts on
  plan,        \* how it is about to finish the run
  locks,       \* rows its open claim transaction has locked
  reclaims,    \* history: claims that took over an expired lease, by run
  faults, overruns   \* how much of the two bounds is used

rowVars == <<status, attempt, lease, owner, retry>>
workerVars == <<pc, cur, ticket, seen, plan, locks>>
vars == <<taskActive, created, rowVars, step, outbox, workerVars, reclaims,
          faults, overruns>>

Terminal == {"succeeded", "failed", "cancelled"}
RunStatus == {"absent", "queued", "running", "retry_wait"} \cup Terminal
StepStatus == {"none", "running", "succeeded", "failed", "skipped"}
EventType == {"succeeded", "failed", "retry_scheduled"}
Plan == {"none", "succeeded", "retry", "failed"}
\* Positions in run_once, in the order a run passes them.
Position == {"idle", "selected", "claimed", "loaded", "executing", "returned",
             "raised", "failing", "recording", "finishing", "reporting"}

RowsTypeOK ==
  /\ status \in [Run -> RunStatus]
  /\ attempt \in [Run -> Nat \ {0}]
  /\ lease \in [Run -> {"null", "live", "expired"}]
  /\ owner \in [Run -> Worker \cup {NoWorker}]
  /\ retry \in [Run -> {"null", "waiting", "due"}]
  /\ step \in [Run -> StepStatus]

WorkersTypeOK ==
  /\ pc \in [Worker -> Position]
  /\ cur \in [Worker -> Run \cup {NoRun}]
  /\ \A w \in Worker : pc[w] # "idle" => cur[w] \in Run
  /\ ticket \in [Worker -> Nat]
  /\ seen \in [Worker -> Nat]
  /\ plan \in [Worker -> Plan]
  /\ \A w \in Worker : pc[w] \in {"raised", "failing", "recording", "finishing", "reporting"}
                       => plan[w] # "none"
  /\ locks \in [Worker -> SUBSET Run]

LogsTypeOK ==
  /\ taskActive \in [Task -> BOOLEAN]
  /\ created \in Seq(Run)
  /\ outbox \subseteq [run : Run, type : EventType, attempt : Nat, status : RunStatus]
  /\ reclaims \in [Run -> Nat]
  /\ faults \in 0..MaxFaults
  /\ overruns \in 0..MaxOverruns

TypeOK == RowsTypeOK /\ WorkersTypeOK /\ LogsTypeOK

Init ==
  /\ taskActive = [t \in Task |-> TRUE]
  /\ created = <<>>
  /\ status = [r \in Run |-> "absent"]
  /\ attempt = [r \in Run |-> 1]
  /\ lease = [r \in Run |-> "null"]
  /\ owner = [r \in Run |-> NoWorker]
  /\ retry = [r \in Run |-> "null"]
  /\ step = [r \in Run |-> "none"]
  /\ outbox = {}
  /\ pc = [w \in Worker |-> "idle"]
  /\ cur = [w \in Worker |-> NoRun]
  /\ ticket = [w \in Worker |-> 0]
  /\ seen = [w \in Worker |-> 0]
  /\ plan = [w \in Worker |-> "none"]
  /\ locks = [w \in Worker |-> {}]
  /\ reclaims = [r \in Run |-> 0]
  /\ faults = 0
  /\ overruns = 0
-----------------------------------------------------------------------------
(* The table. *)

Locked(r) == \E w \in Worker : r \in locks[w]
TaskLocked(t) == JoinedRowsLocked /\ \E r \in Run : TaskOf[r] = t /\ Locked(r)

\* Mutant: the claim query forgets runs whose worker was lost.
ClaimableUnlessLost(r) ==
  /\ taskActive[TaskOf[r]]
  /\ \/ status[r] = "queued"
     \/ status[r] = "retry_wait" /\ retry[r] = "due"

\* Rows the claim query selects, before SKIP LOCKED.
Claimable(r) ==
  /\ taskActive[TaskOf[r]]
  /\ \/ status[r] = "queued"
     \/ status[r] = "retry_wait" /\ retry[r] = "due"
     \/ status[r] = "running" /\ lease[r] = "expired"

\* The other runs of r's task that hold a slot: running under a lease that
\* is absent or has not expired.
Occupying(r) ==
  {q \in Run \ {r} : /\ TaskOf[q] = TaskOf[r]
                     /\ status[q] = "running"
                     /\ lease[q] # "expired"}

HasCapacity(r) == Cardinality(Occupying(r)) < MaxConcurrency

Older(q, r) == \E i, j \in 1..Len(created) : i < j /\ created[i] = q /\ created[j] = r

\* Mutants of finish_run: without the guard on terminal rows, and leaving the
\* lease of a run that is put back.
FinishRunAnyStatus(r, s) ==
  /\ status' = [status EXCEPT ![r] = s]
  /\ retry' = [retry EXCEPT ![r] = IF s = "retry_wait" THEN "waiting" ELSE "null"]
  /\ lease' = [lease EXCEPT ![r] = "null"]
  /\ owner' = [owner EXCEPT ![r] = NoWorker]
  /\ UNCHANGED attempt

FinishRunKeepsLease(r, s) ==
  IF status[r] \in Terminal
  THEN UNCHANGED rowVars
  ELSE /\ status' = [status EXCEPT ![r] = s]
       /\ retry' = [retry EXCEPT ![r] = IF s = "retry_wait" THEN "waiting" ELSE "null"]
       /\ UNCHANGED <<attempt, lease, owner>>

\* finish_run: the row is written unless it is already terminal, whoever
\* holds its lease.  s is a terminal status or "retry_wait".
FinishRun(r, s) ==
  IF status[r] \in Terminal
  THEN UNCHANGED rowVars
  ELSE /\ status' = [status EXCEPT ![r] = s]
       /\ retry' = [retry EXCEPT ![r] = IF s = "retry_wait" THEN "waiting" ELSE "null"]
       /\ lease' = [lease EXCEPT ![r] = "null"]
       /\ owner' = [owner EXCEPT ![r] = NoWorker]
       /\ UNCHANGED attempt

\* Mutant: the event key lacks the event type.
EmitRunEventOncePerAttempt(r, type) ==
  LET event == [run |-> r, type |-> type, attempt |-> attempt[r], status |-> status[r]]
  IN outbox' = IF \E e \in outbox : e.run = r /\ e.attempt = attempt[r]
               THEN outbox ELSE outbox \cup {event}

\* enqueue_outbox_event under the key automation:<run>:<type>:<attempt_no>,
\* ON CONFLICT DO NOTHING; the payload carries the status read back.
EmitRunEvent(r, type) ==
  LET event == [run |-> r, type |-> type, attempt |-> attempt[r], status |-> status[r]]
      sameKey(e) == e.run = r /\ e.type = type /\ e.attempt = attempt[r]
  IN outbox' = IF \E e \in outbox : sameKey(e) THEN outbox ELSE outbox \cup {event}
-----------------------------------------------------------------------------
(* Users and administrators. *)

\* enqueue_run (manual trigger) and the insert of enqueue_due_tasks.  The
\* insert's foreign key waits for a lock on the task row.
Enqueue(r) ==
  /\ status[r] = "absent"
  /\ taskActive[TaskOf[r]]
  /\ ~TaskLocked(TaskOf[r])
  /\ status' = [status EXCEPT ![r] = "queued"]
  /\ created' = Append(created, r)
  /\ UNCHANGED <<taskActive, attempt, lease, owner, retry, step, outbox,
                 workerVars, reclaims, faults, overruns>>

\* Mutant: cancel_run without its check of the status.
CancelRunAnyTime(r) ==
  /\ ~Locked(r)
  /\ status[r] # "absent"
  /\ status' = [status EXCEPT ![r] = "cancelled"]
  /\ retry' = [retry EXCEPT ![r] = "null"]
  /\ lease' = [lease EXCEPT ![r] = "null"]
  /\ owner' = [owner EXCEPT ![r] = NoWorker]
  /\ UNCHANGED <<taskActive, created, attempt, step, outbox, workerVars, reclaims, faults, overruns>>

\* cancel_run by the run's owner; it waits for a claim's row lock.
CancelRun(r) ==
  /\ ~Locked(r)
  /\ status[r] \in {"queued", "running", "retry_wait"}
  /\ status' = [status EXCEPT ![r] = "cancelled"]
  /\ retry' = [retry EXCEPT ![r] = "null"]
  /\ lease' = [lease EXCEPT ![r] = "null"]
  /\ owner' = [owner EXCEPT ![r] = NoWorker]
  /\ UNCHANGED <<taskActive, created, attempt, step, outbox, workerVars, reclaims, faults, overruns>>

\* update_task and pause_tasks_by_handler_refs, as far as claims see them.
SetTaskStatus(t) ==
  /\ ~TaskLocked(t)
  /\ taskActive' = [taskActive EXCEPT ![t] = ~@]
  /\ UNCHANGED <<created, rowVars, step, outbox, workerVars,
                 reclaims, faults, overruns>>
-----------------------------------------------------------------------------
(* The clock. *)

\* The worker named by the lease is still inside run_once for r.
AtWork(r) == \E w \in Worker : owner[r] = w /\ cur[w] = r

ExpireLease(r) ==
  /\ status[r] = "running"
  /\ lease[r] = "live"
  /\ lease' = [lease EXCEPT ![r] = "expired"]
  /\ UNCHANGED <<taskActive, created, status, attempt, owner, retry, step,
                 outbox, workerVars, reclaims, faults>>

\* A lease nobody works under runs out.
LeaseLapses(r) == ~AtWork(r) /\ ExpireLease(r) /\ UNCHANGED overruns

\* Nothing renews a lease: 60 s against a timeout_seconds of 900.
LeaseOverrun(r) ==
  /\ AtWork(r)
  /\ overruns < MaxOverruns
  /\ overruns' = overruns + 1
  /\ ExpireLease(r)

RetryComesDue(r) ==
  /\ retry[r] = "waiting"
  /\ retry' = [retry EXCEPT ![r] = "due"]
  /\ UNCHANGED <<taskActive, created, status, attempt, lease, owner, step,
                 outbox, workerVars, reclaims, faults, overruns>>
-----------------------------------------------------------------------------
(* A worker's passage through run_once. *)

\* Nothing but the worker's position changes, or it leaves run_once.
Goto(w, position) == pc' = [pc EXCEPT ![w] = position]

Leave(w) ==
  /\ pc' = [pc EXCEPT ![w] = "idle"]
  /\ cur' = [cur EXCEPT ![w] = NoRun]
  /\ ticket' = [ticket EXCEPT ![w] = 0]
  /\ seen' = [seen EXCEPT ![w] = 0]
  /\ plan' = [plan EXCEPT ![w] = "none"]
  /\ locks' = [locks EXCEPT ![w] = {}]

\* Mutant: the claim's locks leave the task row free although others count.
ClaimSelectPastTaskLocks(w) ==
  LET rows == {q \in Run : Claimable(q) /\ ~Locked(q)}
      fitting == {q \in rows : HasCapacity(q)}
  IN /\ pc[w] = "idle"
     /\ \E r \in fitting :
          /\ \A q \in fitting : ~Older(q, r)
          /\ cur' = [cur EXCEPT ![w] = r]
     /\ locks' = [locks EXCEPT ![w] = rows]
     /\ Goto(w, "selected")
     /\ UNCHANGED <<taskActive, created, rowVars, step, outbox, ticket, seen,
                    plan, reclaims, faults, overruns>>

\* claim_run, first half: lock the claimable rows no other transaction has
\* locked and settle on the oldest whose task has capacity.
ClaimSelect(w) ==
  LET rows == {q \in Run : Claimable(q) /\ ~Locked(q) /\ ~TaskLocked(TaskOf[q])}
      fitting == {q \in rows : HasCapacity(q)}
  IN /\ pc[w] = "idle"
     /\ \E r \in fitting :
          /\ \A q \in fitting : ~Older(q, r)
          /\ cur' = [cur EXCEPT ![w] = r]
     /\ locks' = [locks EXCEPT ![w] = rows]
     /\ Goto(w, "selected")
     /\ UNCHANGED <<taskActive, created, rowVars, step, outbox, ticket, seen,
                    plan, reclaims, faults, overruns>>

\* Mutant: taking over a lost run does not count as an attempt.
ClaimCommitSameAttempt(w) ==
  LET r == cur[w]
      next == IF status[r] = "retry_wait" THEN attempt[r] + 1 ELSE attempt[r]
  IN /\ pc[w] = "selected"
     /\ status' = [status EXCEPT ![r] = "running"]
     /\ attempt' = [attempt EXCEPT ![r] = next]
     /\ owner' = [owner EXCEPT ![r] = w]
     /\ lease' = [lease EXCEPT ![r] = "live"]
     /\ retry' = [retry EXCEPT ![r] = "null"]
     /\ reclaims' = [reclaims EXCEPT ![r] = IF status[r] = "running" THEN @ + 1 ELSE @]
     /\ ticket' = [ticket EXCEPT ![w] = next]
     /\ locks' = [locks EXCEPT ![w] = {}]
     /\ Goto(w, "claimed")
     /\ UNCHANGED <<taskActive, created, step, outbox, cur, seen, plan,
                    faults, overruns>>

\* claim_run, second half: write the chosen row, commit, release the locks.
ClaimCommit(w) ==
  LET r == cur[w]
      next == IF status[r] \in {"retry_wait", "running"} THEN attempt[r] + 1 ELSE attempt[r]
  IN /\ pc[w] = "selected"
     /\ status' = [status EXCEPT ![r] = "running"]
     /\ attempt' = [attempt EXCEPT ![r] = next]
     /\ owner' = [owner EXCEPT ![r] = w]
     /\ lease' = [lease EXCEPT ![r] = "live"]
     /\ retry' = [retry EXCEPT ![r] = "null"]
     /\ reclaims' = [reclaims EXCEPT ![r] = IF status[r] = "running" THEN @ + 1 ELSE @]
     /\ ticket' = [ticket EXCEPT ![w] = next]
     /\ locks' = [locks EXCEPT ![w] = {}]
     /\ Goto(w, "claimed")
     /\ UNCHANGED <<taskActive, created, step, outbox, cur, seen, plan,
                    faults, overruns>>

\* claim_run's closing get_run, a transaction of its own: the attempt number
\* the worker acts on is the one it reads here.
ReadClaim(w) ==
  /\ pc[w] = "claimed"
  /\ seen' = [seen EXCEPT ![w] = attempt[cur[w]]]
  /\ Goto(w, "loaded")
  /\ UNCHANGED <<taskActive, created, rowVars, step, outbox, cur, ticket, plan,
                 locks, reclaims, faults, overruns>>

\* A worker that does not register the handler fails the run; no event.
\* While a release rolls out the workers need not agree on that.
FailUnregistered(w) ==
  /\ pc[w] = "loaded"
  /\ TaskOf[cur[w]] \notin Registered
  /\ ~Locked(cur[w])
  /\ FinishRun(cur[w], "failed")
  /\ Leave(w)
  /\ UNCHANGED <<taskActive, created, step, outbox, reclaims, faults, overruns>>

\* record_step running, then submit the handler to its pool.
StartHandler(w) ==
  /\ pc[w] = "loaded"
  /\ step' = [step EXCEPT ![cur[w]] = "running"]
  /\ Goto(w, "executing")
  /\ UNCHANGED <<taskActive, created, rowVars, outbox, cur, ticket, seen, plan,
                 locks, reclaims, faults, overruns>>

HandlerReturns(w) ==
  /\ pc[w] = "executing"
  /\ Goto(w, "returned")
  /\ UNCHANGED <<taskActive, created, rowVars, step, outbox, cur, ticket, seen,
                 plan, locks, reclaims, faults, overruns>>

\* Mutant: one attempt too many.
FailurePlanOneMore(w, retryable) ==
  IF retryable /\ seen[w] <= MaxAttempts THEN "retry" ELSE "failed"

\* _handle_failure's choice between another attempt and giving up.
FailurePlan(w, retryable) ==
  IF retryable /\ seen[w] < MaxAttempts THEN "retry" ELSE "failed"

\* The handler raises; _public_handler_failure decides retryable.
HandlerRaises(w) ==
  /\ pc[w] = "executing"
  /\ \E retryable \in BOOLEAN : plan' = [plan EXCEPT ![w] = FailurePlan(w, retryable)]
  /\ Goto(w, "raised")
  /\ UNCHANGED <<taskActive, created, rowVars, step, outbox, cur, ticket, seen,
                 locks, reclaims, faults, overruns>>

\* Mutant: a timeout goes on without choosing between retry and failure.
HandlerTimesOutUndecided(w) ==
  /\ pc[w] = "executing"
  /\ Goto(w, "failing")
  /\ UNCHANGED <<taskActive, created, rowVars, step, outbox, cur, ticket, seen,
                 plan, locks, reclaims, faults, overruns>>

\* future.result times out.  future.cancel does not stop a handler that
\* runs: module HandlerPool follows the thread it leaves behind.
HandlerTimesOut(w) ==
  /\ pc[w] = "executing"
  /\ plan' = [plan EXCEPT ![w] = FailurePlan(w, TRUE)]
  /\ Goto(w, "failing")
  /\ UNCHANGED <<taskActive, created, rowVars, step, outbox, cur, ticket, seen,
                 locks, reclaims, faults, overruns>>

\* The cancellation check after a result or an exception.
CheckCancelled(w) ==
  /\ pc[w] \in {"returned", "raised"}
  /\ IF status[cur[w]] = "cancelled"
     THEN /\ step' = [step EXCEPT ![cur[w]] = "skipped"]
          /\ Leave(w)
     ELSE /\ Goto(w, IF pc[w] = "returned" THEN "recording" ELSE "failing")
          /\ plan' = [plan EXCEPT ![w] = IF pc[w] = "returned" THEN "succeeded" ELSE @]
          /\ UNCHANGED <<step, cur, ticket, seen, locks>>
  /\ UNCHANGED <<taskActive, created, rowVars, outbox, reclaims, faults, overruns>>

\* _handle_failure checks once more and then leaves the step as it is.
CheckFailing(w) ==
  /\ pc[w] = "failing"
  /\ IF status[cur[w]] = "cancelled"
     THEN Leave(w)
     ELSE /\ Goto(w, "recording")
          /\ UNCHANGED <<cur, ticket, seen, plan, locks>>
  /\ UNCHANGED <<taskActive, created, rowVars, step, outbox, reclaims,
                 faults, overruns>>

\* record_step for either outcome.
RecordStep(w) ==
  /\ pc[w] = "recording"
  /\ step' = [step EXCEPT ![cur[w]] = IF plan[w] = "succeeded" THEN "succeeded" ELSE "failed"]
  /\ Goto(w, "finishing")
  /\ UNCHANGED <<taskActive, created, rowVars, outbox, cur, ticket, seen, plan,
                 locks, reclaims, faults, overruns>>

\* Mutant: finish_run heeds the lease owner, its caller does not notice.
FinishAsOwner(w) ==
  /\ pc[w] = "finishing"
  /\ ~Locked(cur[w])
  /\ IF owner[cur[w]] = w
     THEN FinishRun(cur[w], IF plan[w] = "retry" THEN "retry_wait" ELSE plan[w])
     ELSE UNCHANGED rowVars
  /\ Goto(w, "reporting")
  /\ UNCHANGED <<taskActive, created, step, outbox, cur, ticket, seen, plan,
                 locks, reclaims, faults, overruns>>

\* finish_run for either outcome; it waits for a claim's row lock.
Finish(w) ==
  /\ pc[w] = "finishing"
  /\ ~Locked(cur[w])
  /\ FinishRun(cur[w], IF plan[w] = "retry" THEN "retry_wait" ELSE plan[w])
  /\ Goto(w, "reporting")
  /\ UNCHANGED <<taskActive, created, step, outbox, cur, ticket, seen, plan,
                 locks, reclaims, faults, overruns>>

\* The row is read back and reported in another transaction.
Report(w) ==
  /\ pc[w] = "reporting"
  /\ EmitRunEvent(cur[w], IF plan[w] = "retry" THEN "retry_scheduled" ELSE plan[w])
  /\ Leave(w)
  /\ UNCHANGED <<taskActive, created, rowVars, step, reclaims, faults, overruns>>
-----------------------------------------------------------------------------
(* Faults. *)

\* The store calls inside run_once's try block.
InTry(w) ==
  \/ pc[w] = "returned"
  \/ pc[w] \in {"recording", "finishing", "reporting"} /\ plan[w] = "succeeded"

Fault == faults < MaxFaults /\ faults' = faults + 1

\* A store call inside the try block raises: run_once treats it as the
\* handler's failure, also after the run has been finished.
PublishError(w) ==
  /\ Fault
  /\ InTry(w)
  /\ \E retryable \in BOOLEAN : plan' = [plan EXCEPT ![w] = FailurePlan(w, retryable)]
  /\ Goto(w, "raised")
  /\ UNCHANGED <<taskActive, created, rowVars, step, outbox, cur, ticket, seen,
                 locks, reclaims, overruns>>

\* A store call elsewhere raises: the exception leaves run_once and
\* run_forever swallows it; an open claim is rolled back.
StoreError(w) ==
  /\ Fault
  /\ pc[w] \notin {"idle", "executing"}
  /\ ~InTry(w)
  /\ Leave(w)
  /\ UNCHANGED <<taskActive, created, rowVars, step, outbox, reclaims, overruns>>

\* The worker process dies with its threads and comes back.
Crash(w) ==
  /\ Fault
  /\ pc[w] # "idle"
  /\ Leave(w)
  /\ UNCHANGED <<taskActive, created, rowVars, step, outbox, reclaims, overruns>>
-----------------------------------------------------------------------------
\* What a worker does from its claim to the end of run_once, faults apart.
RunOnce(w) ==
  \/ ClaimCommit(w)
  \/ ReadClaim(w)
  \/ FailUnregistered(w)
  \/ StartHandler(w)
  \/ HandlerReturns(w)
  \/ HandlerRaises(w)
  \/ HandlerTimesOut(w)
  \/ CheckCancelled(w)
  \/ CheckFailing(w)
  \/ RecordStep(w)
  \/ Finish(w)
  \/ Report(w)

Next ==
  \/ \E r \in Run : \/ Enqueue(r)
                    \/ CancelRun(r)
                    \/ LeaseLapses(r)
                    \/ LeaseOverrun(r)
                    \/ RetryComesDue(r)
  \/ \E t \in Task : SetTaskStatus(t)
  \/ \E w \in Worker : \/ ClaimSelect(w)
                       \/ RunOnce(w)
                       \/ PublishError(w)
                       \/ StoreError(w)
                       \/ Crash(w)

Spec == Init /\ [][Next]_vars

(***************************************************************************)
(* run_forever polls while the process lives (ClaimSelect), future.result  *)
(* bounds the handler and every other step of run_once follows the one     *)
(* before it (RunOnce); leases and retry delays run out by the clock.      *)
(* Nothing obliges users, administrators or faults.                        *)
(***************************************************************************)
Fairness ==
  /\ \A w \in Worker : WF_vars(ClaimSelect(w)) /\ WF_vars(RunOnce(w))
  /\ \A r \in Run : WF_vars(LeaseLapses(r)) /\ WF_vars(RetryComesDue(r))

FairSpec == Spec /\ Fairness
-----------------------------------------------------------------------------
(* Properties. *)

\* The columns agree: a row has a lease and an owner exactly while it is
\* running and a retry instant exactly while it waits for one.  A row that
\* broke this would satisfy no branch of the claim query: lost for ever.
LeaseMatchesStatus ==
  \A r \in Run :
    /\ (status[r] = "running") <=> (owner[r] # NoWorker)
    /\ (status[r] = "running") <=> (lease[r] # "null")
    /\ (status[r] = "retry_wait") <=> (retry[r] # "null")

\* However late a stale worker, a claim or a cancellation arrives, a run that
\* has succeeded, failed or been cancelled keeps its status and its attempt.
TerminalIsFinal ==
  [][\A r \in Run : status[r] \in Terminal =>
        status'[r] = status[r] /\ attempt'[r] = attempt[r]]_vars

\* Of the workers inside run_once for one run, no two claimed it under the
\* same attempt number, whatever claims overlap and whatever leases expire.
ClaimsAreDistinct ==
  \A v, w \in Worker :
    v # w /\ cur[v] = cur[w] /\ ticket[v] # 0 => ticket[v] # ticket[w]

\* Only the take-over of an expired lease adds to the attempts the retry
\* policy allows, even when stale workers reschedule a run others execute.
AttemptBudget == \A r \in Run : attempt[r] <= MaxAttempts + reclaims[r]

\* Where claims lock the task row, the rows running under a live lease never
\* exceed the task's max_concurrency, although each claim counts before the
\* others commit.
LiveRunsWithinLimit ==
  \A t \in Task :
    Cardinality({r \in Run : TaskOf[r] = t /\ lease[r] = "live"}) <= MaxConcurrency

\* Subscribers are told that a run succeeded or failed only when it is over,
\* and the payload names the status it ended with, also where a store error or
\* a stale worker makes the type of the event another.
VerdictAfterTheEnd ==
  \A e \in outbox :
    e.type \in {"succeeded", "failed"} =>
      status[e.run] \in Terminal /\ e.status = status[e.run]

\* Without a fault a run that succeeded is reported, or about to be, and until
\* a lease is overrun nobody is told that it failed.
SuccessIsReported ==
  \A r \in Run :
    status[r] = "succeeded" /\ faults = 0 =>
      /\ \/ \E e \in outbox : e.run = r /\ e.type = "succeeded"
         \/ \E w \in Worker : pc[w] = "reporting" /\ cur[w] = r /\ plan[w] = "succeeded"
      /\ overruns = 0 => ~ \E e \in outbox : e.run = r /\ e.type = "failed"

\* docs/production_upgrade/target_architecture.md:46: after a worker crash the
\* run is retried once its lease expires.  A run of a task that stays active
\* is eventually over, whatever crashes, stalls and retries come between.
RunsComeToAnEnd ==
  \A r \in Run :
    <>[](taskActive[TaskOf[r]]) =>
      (status[r] # "absent" ~> status[r] \in Terminal)

\* The queue implements the life cycle its clients rely on: no run skips its
\* start, none comes back once it is over and every restart is counted.
Lifecycle == INSTANCE RunLifecycle
LifecycleSpec == Lifecycle!Spec
-----------------------------------------------------------------------------
(* What the documentation says and the code does not do. *)

\* platform_automation_tasks.max_concurrency is the task's limit of
\* concurrent executions: handlers of a task that workers wait for at one time.
Executing(t) ==
  {w \in Worker : pc[w] = "executing" /\ TaskOf[cur[w]] = t}
ConcurrencyLimitHolds == \A t \in Task : Cardinality(Executing(t)) <= MaxConcurrency

\* The outbox is transactional, so that the event of a run that succeeded is
\* registered whatever happens next.
SuccessIsAnnounced ==
  \A r \in Run :
    status[r] = "succeeded" ~> \E e \in outbox : e.run = r /\ e.type = "succeeded"
=============================================================================
