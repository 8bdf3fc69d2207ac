---------------------------- MODULE RunLifecycle ----------------------------
(***************************************************************************)
(* What the automation queue promises whoever submits a run: the status    *)
(* and the attempt number the API shows.  No workers, leases or locks.     *)
(***************************************************************************)
EXTENDS Naturals

CONSTANT Run

VARIABLES status, attempt
vars == <<status, attempt>>

Over == {"succeeded", "failed", "cancelled"}

Init ==
  /\ status = [r \in Run |-> "absent"]
  /\ attempt = [r \in Run |-> 1]

\* The run is accepted, once.
Submit(r) ==
  /\ status[r] = "absent"
  /\ status' = [status EXCEPT ![r] = "queued"]
  /\ UNCHANGED attempt

\* Its first attempt starts.
Start(r) ==
  /\ status[r] = "queued"
  /\ status' = [status EXCEPT ![r] = "running"]
  /\ UNCHANGED attempt

\* Another attempt starts, after a retry delay or over a lost worker, and has
\* the next number.
StartAgain(r) ==
  /\ status[r] \in {"running", "retry_wait"}
  /\ status' = [status EXCEPT ![r] = "running"]
  /\ attempt' = [attempt EXCEPT ![r] = @ + 1]

\* An attempt that was started ends, perhaps after the run was put back.
EndAttempt(r) ==
  /\ status[r] \in {"running", "retry_wait"}
  /\ \E s \in {"succeeded", "failed", "retry_wait"} : status' = [status EXCEPT ![r] = s]
  /\ UNCHANGED attempt

Cancel(r) ==
  /\ status[r] \in {"queued", "running", "retry_wait"}
  /\ status' = [status EXCEPT ![r] = "cancelled"]
  /\ UNCHANGED attempt

Next == \E r \in Run : Submit(r) \/ Start(r) \/ StartAgain(r) \/ EndAttempt(r) \/ Cancel(r)

Spec == Init /\ [][Next]_vars
=============================================================================
