---------------------------- MODULE HandlerPool ----------------------------
(***************************************************************************)
(* One handler pool of a worker process: the ThreadPoolExecutor to which   *)
(* AutomationRuntime.run_once submits a handler and for whose future it    *)
(* waits no longer than timeout_seconds.  The process runs one run_once at *)
(* a time, but a handler that timed out goes on in its thread: cancelling  *)
(* a future stops only a handler that has not begun.                       *)
(*                                                                         *)
(* The pool (concurrent.futures) is modelled from how the code uses it.    *)
(***************************************************************************)
EXTENDS Integers, FiniteSets

CONSTANTS
  Run,          \* runs whose handlers share the pool
  Slots,        \* max_workers of the pool
  MaxSubmits    \* bound: handlers submitted in a behaviour

ASSUME ConstantsAssumption == Slots \in Nat \ {0} /\ MaxSubmits \in Nat

VARIABLES
  n,        \* handlers submitted so far; the last one is run_once's own
  runOf,    \* the run each of them executes
  future,   \* its future's state
  pc,       \* run_once: "idle", "waiting" in result(), or "timedout"
  over,     \* runs that need no further attempt
  open      \* the pool is not shut down

vars == <<n, runOf, future, pc, over, open>>

Submitted == 1..n
Running == {a \in Submitted : future[a] = "running"}
Pending == {a \in Submitted : future[a] = "pending"}

TypeOK ==
  /\ n \in 0..MaxSubmits
  /\ runOf \in [Submitted -> Run]
  /\ future \in [Submitted -> {"pending", "running", "done", "cancelled"}]
  /\ pc \in {"idle", "waiting", "timedout"}
  /\ pc # "idle" => n > 0
  /\ Cardinality(Running) <= Slots
  /\ over \subseteq Run
  /\ open \in BOOLEAN

Init ==
  /\ n = 0
  /\ runOf = [a \in {} |-> CHOOSE r \in Run : TRUE]
  /\ future = [a \in {} |-> "pending"]
  /\ pc = "idle"
  /\ over = {}
  /\ open = TRUE

\* run_once submits the handler of the run it has claimed.  On a pool that is
\* shut down submit raises and nothing changes.
Submit(r) ==
  /\ pc = "idle"
  /\ open
  /\ n < MaxSubmits
  /\ r \notin over
  /\ n' = n + 1
  /\ runOf' = [a \in 1..n + 1 |-> IF a = n + 1 THEN r ELSE runOf[a]]
  /\ future' = [a \in 1..n + 1 |-> IF a = n + 1 THEN "pending" ELSE future[a]]
  /\ pc' = "waiting"
  /\ UNCHANGED <<over, open>>

\* Mutant: a pool of one thread too many.
BeginOnExtraThread(a) ==
  /\ a \in Pending
  /\ \A b \in Pending : a <= b
  /\ Cardinality(Running) <= Slots
  /\ future' = [future EXCEPT ![a] = "running"]
  /\ UNCHANGED <<n, runOf, pc, over, open>>

\* A free thread takes the oldest handler that waits.
Begin(a) ==
  /\ a \in Pending
  /\ \A b \in Pending : a <= b
  /\ Cardinality(Running) < Slots
  /\ future' = [future EXCEPT ![a] = "running"]
  /\ UNCHANGED <<n, runOf, pc, over, open>>

\* A handler comes to its end, awaited or not.
Complete(a) ==
  /\ a \in Running
  /\ future' = [future EXCEPT ![a] = "done"]
  /\ UNCHANGED <<n, runOf, pc, over, open>>

\* result() returns or raises, CancelledError included; the run is over, or a
\* failure is to be retried.
Answer ==
  /\ pc = "waiting"
  /\ future[n] \in {"done", "cancelled"}
  /\ pc' = "idle"
  /\ \/ over' = over \cup {runOf[n]}
     \/ UNCHANGED over
  /\ UNCHANGED <<n, runOf, future, open>>

\* result() gives up.
TimeOut ==
  /\ pc = "waiting"
  /\ future[n] \in {"pending", "running"}
  /\ pc' = "timedout"
  /\ UNCHANGED <<n, runOf, future, over, open>>

\* Mutant: the future is left in the queue.
HandleTimeoutWithoutCancel ==
  /\ pc = "timedout"
  /\ pc' = "idle"
  /\ \/ over' = over \cup {runOf[n]}
     \/ UNCHANGED over
  /\ UNCHANGED <<n, runOf, future, open>>

\* Mutant: only the failure that is the run's last cancels the future.
HandleTimeoutCancelsLast ==
  /\ pc = "timedout"
  /\ pc' = "idle"
  /\ \/ /\ over' = over \cup {runOf[n]}
        /\ future' = [future EXCEPT ![n] = IF @ = "pending" THEN "cancelled" ELSE @]
     \/ UNCHANGED <<over, future>>
  /\ UNCHANGED <<n, runOf, open>>

\* future.cancel(), then _handle_failure: another attempt or the end.
HandleTimeout ==
  /\ pc = "timedout"
  /\ pc' = "idle"
  /\ future' = [future EXCEPT ![n] = IF @ = "pending" THEN "cancelled" ELSE @]
  /\ \/ over' = over \cup {runOf[n]}
     \/ UNCHANGED over
  /\ UNCHANGED <<n, runOf, open>>

\* close: shutdown(wait=False, cancel_futures=True).
Close ==
  /\ open
  /\ open' = FALSE
  /\ future' = [a \in Submitted |-> IF a \in Pending THEN "cancelled" ELSE future[a]]
  /\ UNCHANGED <<n, runOf, pc, over>>

RunOnce == Answer \/ TimeOut \/ HandleTimeout

Next ==
  \/ \E r \in Run : Submit(r)
  \/ \E a \in Submitted : Begin(a) \/ Complete(a)
  \/ RunOnce
  \/ Close

Spec == Init /\ [][Next]_vars

-----------------------------------------------------------------------------
(* Properties. *)

\* A handler begins only while run_once is still with it: none begins after
\* its attempt was given up and perhaps another was made, however full of
\* abandoned handlers the pool is.
NoLateBeginning ==
  [][\A a \in Submitted : future[a] = "pending" /\ future'[a] = "running" =>
        a = n /\ pc # "idle"]_vars

\* After the shutdown no handler begins.
NothingBeginsAfterClose ==
  [][~open => \A a \in Submitted : ~(future[a] = "pending" /\ future'[a] = "running")]_vars

\* The handlers that run_once no longer waits for began before it gave up, so
\* that no more of them are left than the pool has threads.
AbandonedFitInPool ==
  Cardinality({a \in Submitted : a # n /\ future[a] \in {"pending", "running"}}) <= Slots
=============================================================================
