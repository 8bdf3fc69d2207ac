---------------------- MODULE CapabilityApprovalProofs ----------------------
(***************************************************************************)
(* Proofs about what users approve: CapabilityApproval, for any tickets,   *)
(* threads, users and retries, and Bridge, for any devices, users,         *)
(* operations and calls, on either store; and, at the end, about all       *)
(* that is submitted and reviewed, side by side (MCReviews).               *)
(***************************************************************************)
EXTENDS MCReviews, WeeklyLearningProofs

\* What a row's status says of its other columns and of the runs so far.
RowInv ==
  \A a \in Ticket :
    /\ status[a] \in {"absent", "pending"} => reviewer[a] = NoUser
    /\ status[a] # "absent" => requester[a] \in User /\ scope[a] \in Scope
    /\ status[a] \in {"approved", "consumed", "expired"} => reviewer[a] \in User \ {requester[a]}
    /\ status[a] # "consumed" => attempts[a] = 0
    /\ ranAs[a] # {} => status[a] = "consumed"
    /\ ranAs[a] \subseteq {<<requester[a], scope[a]>>}

\* What a thread that has read a row may still rely on.
ThreadInv ==
  \A t \in Thread :
    /\ pc[t] # "idle" => status[job[t].ticket] # "absent"
    /\ pc[t] = "reviewing" => job[t].user # requester[job[t].ticket]
    /\ pc[t] \in {"consuming", "granted", "waiting"} =>
         job[t].user = requester[job[t].ticket] /\ job[t].scope = scope[job[t].ticket]
    /\ Granted(t) => /\ status[job[t].ticket] = "consumed"
                     /\ attempts[job[t].ticket] = tries[t]
    /\ pc[t] = "granted" => tries[t] <= MaxRetries
    /\ ~Granted(t) => tries[t] = 0

\* A spent ticket is in one thread's hands.
HolderInv ==
  \A t, v \in Thread :
    Granted(t) /\ Granted(v) /\ job[t].ticket = job[v].ticket => t = v

\* A thread inside a transaction.
InTransaction(t) == pc[t] \in {"reviewing", "consuming"}

\* On a server an open transaction has locked its row, alone.
LockInv ==
  onServer =>
    /\ \A t \in Thread : InTransaction(t) => job[t].ticket \in locked
    /\ \A t, v \in Thread :
         InTransaction(t) /\ InTransaction(v) /\ job[t].ticket = job[v].ticket => t = v

IInv == TypeOK /\ RowInv /\ ThreadInv /\ HolderInv /\ RunsPerTicket

LockedInv == LockInv /\ ValidationsHold
-----------------------------------------------------------------------------
LEMMA InitIInv == Init => IInv
BY ConstantsAssumption
DEF ConstantsAssumption, Init, IInv, TypeOK, RowInv, ThreadInv, HolderInv, RunsPerTicket, Granted

\* Every step keeps the invariant.
LEMMA NextIInv == IInv /\ [Next]_vars => IInv'
<1> SUFFICES ASSUME IInv, [Next]_vars PROVE IInv'
  OBVIOUS
<1> USE ConstantsAssumption DEF ConstantsAssumption, IInv, Granted, tickets
<1>1. ASSUME NEW a \in Ticket, NEW u \in User, NEW s \in Scope, Request(a, u, s) PROVE IInv'
  <2>1. TypeOK'
    BY <1>1 DEF Request, TypeOK, Job
  <2>2. RowInv'
    BY <1>1 DEF Request, TypeOK, Job, RowInv, ThreadInv
  <2>3. ThreadInv'
    BY <1>1 DEF Request, TypeOK, Job, RowInv, ThreadInv, HolderInv
  <2>4. HolderInv'
    BY <1>1 DEF Request, TypeOK, Job, RowInv, ThreadInv, HolderInv
  <2>5. RunsPerTicket'
    BY <1>1 DEF Request, TypeOK, Job, RowInv, ThreadInv, RunsPerTicket
  <2> QED
    BY <2>1, <2>2, <2>3, <2>4, <2>5
<1>2. ASSUME NEW a \in Ticket, Lapse(a) PROVE IInv'
  <2>1. TypeOK'
    BY <1>2 DEF Lapse, TypeOK, Job
  <2>2. RowInv'
    BY <1>2 DEF Lapse, TypeOK, Job, RowInv, ThreadInv
  <2>3. ThreadInv'
    BY <1>2 DEF Lapse, TypeOK, Job, RowInv, ThreadInv, HolderInv
  <2>4. HolderInv'
    BY <1>2 DEF Lapse, TypeOK, Job, RowInv, ThreadInv, HolderInv
  <2>5. RunsPerTicket'
    BY <1>2 DEF Lapse, TypeOK, Job, RowInv, ThreadInv, RunsPerTicket
  <2> QED
    BY <2>1, <2>2, <2>3, <2>4, <2>5
<1>3. ASSUME List PROVE IInv'
  <2>1. TypeOK'
    BY <1>3 DEF List, TypeOK, Job
  <2>2. RowInv'
    BY <1>3 DEF List, TypeOK, Job, RowInv, ThreadInv
  <2>3. ThreadInv'
    BY <1>3 DEF List, TypeOK, Job, RowInv, ThreadInv, HolderInv
  <2>4. HolderInv'
    BY <1>3 DEF List, TypeOK, Job, RowInv, ThreadInv, HolderInv
  <2>5. RunsPerTicket'
    BY <1>3 DEF List, TypeOK, Job, RowInv, ThreadInv, RunsPerTicket
  <2> QED
    BY <2>1, <2>2, <2>3, <2>4, <2>5
<1>4. ASSUME NEW t \in Thread, NEW a \in Ticket, NEW u \in User, NEW d \in BOOLEAN, ReviewSelect(t, a, u, d) PROVE IInv'
  <2>1. TypeOK'
    BY <1>4 DEF ReviewSelect, Enter, TypeOK, Job
  <2>2. RowInv'
    BY <1>4 DEF ReviewSelect, Enter, TypeOK, Job, RowInv, ThreadInv
  <2>3. ThreadInv'
    BY <1>4 DEF ReviewSelect, Enter, TypeOK, Job, RowInv, ThreadInv, HolderInv
  <2>4. HolderInv'
    BY <1>4 DEF ReviewSelect, Enter, TypeOK, Job, RowInv, ThreadInv, HolderInv
  <2>5. RunsPerTicket'
    BY <1>4 DEF ReviewSelect, Enter, TypeOK, Job, RowInv, ThreadInv, RunsPerTicket
  <2> QED
    BY <2>1, <2>2, <2>3, <2>4, <2>5
<1>5. ASSUME NEW t \in Thread, ReviewUpdate(t) PROVE IInv'
  <2>1. TypeOK'
    BY <1>5 DEF ReviewUpdate, Leave, TypeOK, Job
  <2>2. RowInv'
    BY <1>5 DEF ReviewUpdate, Leave, TypeOK, Job, RowInv, ThreadInv
  <2>3. ThreadInv'
    BY <1>5 DEF ReviewUpdate, Leave, TypeOK, Job, RowInv, ThreadInv, HolderInv
  <2>4. HolderInv'
    BY <1>5 DEF ReviewUpdate, Leave, TypeOK, Job, RowInv, ThreadInv, HolderInv
  <2>5. RunsPerTicket'
    BY <1>5 DEF ReviewUpdate, Leave, TypeOK, Job, RowInv, ThreadInv, RunsPerTicket
  <2> QED
    BY <2>1, <2>2, <2>3, <2>4, <2>5
<1>6. ASSUME NEW t \in Thread, NEW a \in Ticket, NEW u \in User, NEW s \in Scope, ConsumeSelect(t, a, u, s) PROVE IInv'
  <2>1. TypeOK'
    BY <1>6 DEF ConsumeSelect, Enter, TypeOK, Job
  <2>2. RowInv'
    BY <1>6 DEF ConsumeSelect, Enter, TypeOK, Job, RowInv, ThreadInv
  <2>3. ThreadInv'
    BY <1>6 DEF ConsumeSelect, Enter, TypeOK, Job, RowInv, ThreadInv, HolderInv
  <2>4. HolderInv'
    BY <1>6 DEF ConsumeSelect, Enter, TypeOK, Job, RowInv, ThreadInv, HolderInv
  <2>5. RunsPerTicket'
    BY <1>6 DEF ConsumeSelect, Enter, TypeOK, Job, RowInv, ThreadInv, RunsPerTicket
  <2> QED
    BY <2>1, <2>2, <2>3, <2>4, <2>5
<1>7. ASSUME NEW t \in Thread, ConsumeUpdate(t) PROVE IInv'
  <2>1. TypeOK'
    BY <1>7 DEF ConsumeUpdate, Spendable, Leave, TypeOK, Job
  <2>2. RowInv'
    BY <1>7 DEF ConsumeUpdate, Spendable, Leave, TypeOK, Job, RowInv, ThreadInv
  <2>3. ThreadInv'
    BY <1>7 DEF ConsumeUpdate, Spendable, Leave, TypeOK, Job, RowInv, ThreadInv, HolderInv
  <2>4. HolderInv'
    BY <1>7 DEF ConsumeUpdate, Spendable, Leave, TypeOK, Job, RowInv, ThreadInv, HolderInv
  <2>5. RunsPerTicket'
    BY <1>7 DEF ConsumeUpdate, Spendable, Leave, TypeOK, Job, RowInv, ThreadInv, RunsPerTicket
  <2> QED
    BY <2>1, <2>2, <2>3, <2>4, <2>5
<1>8. ASSUME NEW t \in Thread, RateLimited(t) PROVE IInv'
  <2>1. TypeOK'
    BY <1>8 DEF RateLimited, Leave, TypeOK, Job
  <2>2. RowInv'
    BY <1>8 DEF RateLimited, Leave, TypeOK, Job, RowInv, ThreadInv
  <2>3. ThreadInv'
    BY <1>8 DEF RateLimited, Leave, TypeOK, Job, RowInv, ThreadInv, HolderInv
  <2>4. HolderInv'
    BY <1>8 DEF RateLimited, Leave, TypeOK, Job, RowInv, ThreadInv, HolderInv
  <2>5. RunsPerTicket'
    BY <1>8 DEF RateLimited, Leave, TypeOK, Job, RowInv, ThreadInv, RunsPerTicket
  <2> QED
    BY <2>1, <2>2, <2>3, <2>4, <2>5
<1>9. ASSUME NEW t \in Thread, Submit(t) PROVE IInv'
  <2>1. TypeOK'
    BY <1>9 DEF Submit, TypeOK, Job, RowInv, ThreadInv
  <2>2. RowInv'
    BY <1>9 DEF Submit, TypeOK, Job, RowInv, ThreadInv
  <2>3. ThreadInv'
    BY <1>9 DEF Submit, TypeOK, Job, RowInv, ThreadInv, HolderInv
  <2>4. HolderInv'
    BY <1>9 DEF Submit, TypeOK, Job, RowInv, ThreadInv, HolderInv
  <2>5. RunsPerTicket'
    BY <1>9 DEF Submit, TypeOK, Job, RowInv, ThreadInv, RunsPerTicket
  <2> QED
    BY <2>1, <2>2, <2>3, <2>4, <2>5
<1>10. ASSUME NEW t \in Thread, Return(t) PROVE IInv'
  <2>1. TypeOK'
    BY <1>10 DEF Return, Leave, TypeOK, Job
  <2>2. RowInv'
    BY <1>10 DEF Return, Leave, TypeOK, Job, RowInv, ThreadInv
  <2>3. ThreadInv'
    BY <1>10 DEF Return, Leave, TypeOK, Job, RowInv, ThreadInv, HolderInv
  <2>4. HolderInv'
    BY <1>10 DEF Return, Leave, TypeOK, Job, RowInv, ThreadInv, HolderInv
  <2>5. RunsPerTicket'
    BY <1>10 DEF Return, Leave, TypeOK, Job, RowInv, ThreadInv, RunsPerTicket
  <2> QED
    BY <2>1, <2>2, <2>3, <2>4, <2>5
<1>11. ASSUME NEW t \in Thread, FailAttempt(t) PROVE IInv'
  <2>1. TypeOK'
    BY <1>11 DEF FailAttempt, Leave, TypeOK, Job
  <2>2. RowInv'
    BY <1>11 DEF FailAttempt, Leave, TypeOK, Job, RowInv, ThreadInv
  <2>3. ThreadInv'
    BY <1>11 DEF FailAttempt, Leave, TypeOK, Job, RowInv, ThreadInv, HolderInv
  <2>4. HolderInv'
    BY <1>11 DEF FailAttempt, Leave, TypeOK, Job, RowInv, ThreadInv, HolderInv
  <2>5. RunsPerTicket'
    BY <1>11 DEF FailAttempt, Leave, TypeOK, Job, RowInv, ThreadInv, RunsPerTicket
  <2> QED
    BY <2>1, <2>2, <2>3, <2>4, <2>5
<1>12. ASSUME NEW t \in Thread, Crash(t) PROVE IInv'
  <2>1. TypeOK'
    BY <1>12 DEF Crash, Leave, TypeOK, Job
  <2>2. RowInv'
    BY <1>12 DEF Crash, Leave, TypeOK, Job, RowInv, ThreadInv
  <2>3. ThreadInv'
    BY <1>12 DEF Crash, Leave, TypeOK, Job, RowInv, ThreadInv, HolderInv
  <2>4. HolderInv'
    BY <1>12 DEF Crash, Leave, TypeOK, Job, RowInv, ThreadInv, HolderInv
  <2>5. RunsPerTicket'
    BY <1>12 DEF Crash, Leave, TypeOK, Job, RowInv, ThreadInv, RunsPerTicket
  <2> QED
    BY <2>1, <2>2, <2>3, <2>4, <2>5
<1>13. ASSUME UNCHANGED vars PROVE IInv'
  BY <1>13 DEF vars, TypeOK, Job, RowInv, ThreadInv, HolderInv, RunsPerTicket
<1> QED
  BY <1>1, <1>2, <1>3, <1>4, <1>5, <1>6, <1>7, <1>8, <1>9, <1>10, <1>11, <1>12, <1>13 DEF Next

\* Rows stay locked from the validation to the update, and keep their status.
LEMMA NextLockedInv == TypeOK /\ LockedInv /\ [Next]_vars => LockedInv'
<1> SUFFICES ASSUME TypeOK, LockInv, ValidationsHold, [Next]_vars PROVE LockInv' /\ ValidationsHold'
  BY DEF LockedInv
<1> USE DEF tickets, TypeOK, Job, LockInv, ValidationsHold, InTransaction
<1>1. ASSUME NEW a \in Ticket, NEW u \in User, NEW s \in Scope, Request(a, u, s) PROVE LockInv' /\ ValidationsHold'
  BY <1>1 DEF Request
<1>2. ASSUME NEW a \in Ticket, Lapse(a) PROVE LockInv' /\ ValidationsHold'
  BY <1>2 DEF Lapse
<1>3. ASSUME List PROVE LockInv' /\ ValidationsHold'
  BY <1>3 DEF List
<1>4. ASSUME NEW t \in Thread, NEW a \in Ticket, NEW u \in User, NEW d \in BOOLEAN, ReviewSelect(t, a, u, d) PROVE LockInv' /\ ValidationsHold'
  BY <1>4 DEF ReviewSelect, Enter
<1>5. ASSUME NEW t \in Thread, ReviewUpdate(t) PROVE LockInv' /\ ValidationsHold'
  BY <1>5 DEF ReviewUpdate, Leave
<1>6. ASSUME NEW t \in Thread, NEW a \in Ticket, NEW u \in User, NEW s \in Scope, ConsumeSelect(t, a, u, s) PROVE LockInv' /\ ValidationsHold'
  BY <1>6 DEF ConsumeSelect, Enter
<1>7. ASSUME NEW t \in Thread, ConsumeUpdate(t) PROVE LockInv' /\ ValidationsHold'
  BY <1>7 DEF ConsumeUpdate, Leave
<1>8. ASSUME NEW t \in Thread, RateLimited(t) PROVE LockInv' /\ ValidationsHold'
  BY <1>8 DEF RateLimited, Leave
<1>9. ASSUME NEW t \in Thread, Submit(t) PROVE LockInv' /\ ValidationsHold'
  BY <1>9 DEF Submit
<1>10. ASSUME NEW t \in Thread, Return(t) PROVE LockInv' /\ ValidationsHold'
  BY <1>10 DEF Return, Leave
<1>11. ASSUME NEW t \in Thread, FailAttempt(t) PROVE LockInv' /\ ValidationsHold'
  BY <1>11 DEF FailAttempt, Leave
<1>12. ASSUME NEW t \in Thread, Crash(t) PROVE LockInv' /\ ValidationsHold'
  BY <1>12 DEF Crash, Leave, Granted
<1>13. CASE UNCHANGED vars
  BY <1>13 DEF vars
<1> QED
  BY <1>1, <1>2, <1>3, <1>4, <1>5, <1>6, <1>7, <1>8, <1>9, <1>10, <1>11, <1>12, <1>13 DEF Next

-----------------------------------------------------------------------------
\* The inductive invariant holds in every behaviour.
THEOREM Invariance == Spec => []IInv
BY InitIInv, NextIInv, PTL DEF Spec

\* Rows, threads and counts keep their types.
THEOREM TypeCorrect == Spec => []TypeOK
<1>1. IInv => TypeOK
  BY DEF IInv
<1> QED
  BY <1>1, Invariance, PTL

\* A ticket buys one call of at most MaxRetries + 1 attempts, for any number
\* of threads that race for it.
THEOREM OneCallPerTicket == Spec => []RunsPerTicket
<1>1. IInv => RunsPerTicket
  BY DEF IInv
<1> QED
  BY <1>1, Invariance, PTL

\* What a ticket sets in motion is what another user approved.
THEOREM GrantedRuns == Spec => []RunsAreGranted
<1>1. IInv => RunsAreGranted
  BY DEF IInv, RowInv, RunsAreGranted
<1> QED
  BY <1>1, Invariance, PTL

\* A decision about a ticket and its reviewer stand, and on a server no lapsed
\* ticket is spent, however late its update comes.
THEOREM FinalVerdicts == Spec => VerdictsAreFinal
<1> DEFINE Step == \A a \in Ticket :
      /\ status[a] \in {"rejected", "consumed", "expired"} => status'[a] = status[a]
      /\ reviewer[a] # NoUser => reviewer'[a] = reviewer[a]
      /\ onServer /\ a \in lapsed /\ status'[a] = "consumed" => status[a] = "consumed"
<1>1. IInv /\ [Next]_vars => [Step]_vars
  <2> SUFFICES ASSUME IInv, Next PROVE Step
    OBVIOUS
  <2>1. TypeOK /\ RowInv
    BY DEF IInv
  <2>2. ASSUME UNCHANGED <<onServer, status, reviewer>> PROVE Step
    BY <2>1, <2>2 DEF TypeOK, Job, RowInv
  <2>3. ASSUME NEW a \in Ticket, NEW u \in User, NEW s \in Scope, Request(a, u, s) PROVE Step
    BY <2>1, <2>3 DEF Request, TypeOK, Job, RowInv
  <2>4. ASSUME List PROVE Step
    BY <2>1, <2>4 DEF List, TypeOK, Job, RowInv
  <2>5. ASSUME NEW t \in Thread, ReviewUpdate(t) PROVE Step
    BY <2>1, <2>5 DEF ReviewUpdate, TypeOK, Job, RowInv
  <2>6. ASSUME NEW t \in Thread, ConsumeUpdate(t) PROVE Step
    BY <2>1, <2>6 DEF ConsumeUpdate, Spendable, TypeOK, Job, RowInv
  <2> QED
    BY <2>2, <2>3, <2>4, <2>5, <2>6
    DEF Next, tickets, Lapse, ReviewSelect, Enter, ConsumeSelect, RateLimited, Submit, Return, FailAttempt, Crash
<1> QED
  BY <1>1, Invariance, PTL DEF Spec, VerdictsAreFinal

\* On a server no transaction updates a row it has validated in another state.
THEOREM ValidatedRows == Spec => []ValidationsHold
<1>1. Init => LockedInv
  BY DEF Init, LockedInv, LockInv, ValidationsHold, InTransaction
<1>2. Spec => []LockedInv
  BY <1>1, NextLockedInv, TypeCorrect, PTL DEF Spec
<1>3. LockedInv => ValidationsHold
  BY DEF LockedInv
<1> QED
  BY <1>2, <1>3, PTL
-----------------------------------------------------------------------------
(* Bridge: what a device may do is consented to, and counts, once. *)

\* The one who was told that he approved a device is its approver, and the
\* token it got is for him.
ConsentInv ==
  \A d \in Device :
    /\ devices[d].tokens = IF devices[d].status = "consumed" THEN 1 ELSE 0
    /\ devices[d].status \in {"approved", "consumed"} => <<d, devices[d].approver>> \in consents
    /\ devices[d].status = "consumed" => devices[d].holder = devices[d].approver
    /\ \A u \in User : <<d, u>> \in consents =>
         devices[d].approver = u /\ devices[d].status \in {"approved", "consumed"}

\* Only evidence that is in the memory is counted or accepted.
EvidenceInv ==
  \A o \in Device \X Operation :
    /\ observed[o] = 0 \/ (observed[o] = 1 /\ evidence[o] # NoContent)
    /\ \A x \in Content : <<o[1], o[2], x>> \in accepted => evidence[o] = x

\* Who is about to count an operation has written it, alone.
WriterInv ==
  \A c \in Call : Serving(c, "observing") =>
    /\ evidence[Key(c)] = calls[c].content
    /\ observed[Key(c)] = 0
    /\ \A e \in Call : Serving(e, "observing") /\ Key(e) = Key(c) => e = c

BridgeInv == BridgeTypeOK /\ ConsentInv /\ EvidenceInv /\ WriterInv

\* A delivery names a device, an operation and a content.
LEMMA DeliveryType ==
  ASSUME BridgeTypeOK, NEW c \in Call, NEW p \in {"looking", "writing", "observing"}, Serving(c, p)
  PROVE  /\ calls[c] \in Delivering
         /\ calls[c].device \in Device /\ calls[c].operation \in Operation
         /\ calls[c].content \in Content
         /\ Key(c) \in Device \X Operation
         /\ calls[c].at = p
BY DEF BridgeTypeOK, Serving, Enrolling, Delivering, Key

\* A request to approve or poll names a device, and a user to approve it.
LEMMA EnrollingType ==
  ASSUME BridgeTypeOK, NEW c \in Call
  PROVE  /\ Serving(c, "approving") => calls[c].device \in Device /\ calls[c].user \in User
         /\ Serving(c, "polling") => calls[c].device \in Device
BY DEF BridgeTypeOK, Serving, Enrolling, Delivering

LEMMA BridgeInitInv == BridgeInit => BridgeInv
<1> SUFFICES ASSUME BridgeInit PROVE BridgeInv
  OBVIOUS
<1>1. devices \in [Device -> DeviceRow] /\ \A d \in Device : devices[d].status = "absent" /\ devices[d].tokens = 0
  BY DEF BridgeInit, DeviceRow
<1>2. BridgeTypeOK
  BY <1>1 DEF BridgeInit, BridgeTypeOK
<1>3. ConsentInv
  BY <1>1 DEF BridgeInit, ConsentInv
<1>4. EvidenceInv /\ WriterInv
  BY DEF BridgeInit, EvidenceInv, WriterInv, Serving
<1> QED
  BY <1>2, <1>3, <1>4 DEF BridgeInv

\* Types and calls after a call has ended or begun.
LEMMA FinishInv ==
  ASSUME BridgeInv, NEW c \in Call, Finish(c), UNCHANGED <<evidence, observed>>
  PROVE  calls' \in [Call -> Enrolling \cup Delivering \cup {NoCall}] /\ WriterInv'
BY DEF BridgeInv, BridgeTypeOK, WriterInv, Finish, Serving, Key

LEMMA ArriveInv ==
  ASSUME BridgeInv, NEW c \in Call, NEW call \in Enrolling \cup Delivering,
         call.at # "observing", Arrive(c, call)
  PROVE  BridgeInv'
<1>1. BridgeTypeOK'
  BY DEF BridgeInv, BridgeTypeOK, Arrive
<1>2. ConsentInv'
  BY DEF BridgeInv, ConsentInv, Arrive
<1>3. EvidenceInv'
  BY DEF BridgeInv, EvidenceInv, Arrive
<1>4. WriterInv'
  BY DEF BridgeInv, BridgeTypeOK, WriterInv, Arrive, Serving, Key
<1> QED
  BY <1>1, <1>2, <1>3, <1>4 DEF BridgeInv

\* Steps that touch neither the evidence nor its history nor the calls.
LEMMA RowStepInv ==
  ASSUME BridgeInv, BridgeTypeOK', ConsentInv',
         UNCHANGED <<evidence, observed, accepted>>, WriterInv'
  PROVE  BridgeInv'
<1>1. EvidenceInv'
  BY DEF BridgeInv, EvidenceInv
<1> QED
  BY <1>1 DEF BridgeInv

LEMMA ApproveInv ==
  ASSUME BridgeInv, NEW c \in Call, Approve(c)
  PROVE  BridgeInv'
<1> DEFINE d == calls[c].device
           u == calls[c].user
<1>0. BridgeTypeOK /\ ConsentInv /\ d \in Device /\ u \in User
  BY EnrollingType DEF BridgeInv, Approve
<1>1. WriterInv' /\ calls' \in [Call -> Enrolling \cup Delivering \cup {NoCall}]
  BY FinishInv DEF Approve
<1> HIDE DEF d, u
<1>2. CASE ~MayApprove(d, u)
  <2>1. UNCHANGED <<devices, consents>>
    BY <1>2 DEF Approve, d, u
  <2>2. BridgeTypeOK' /\ ConsentInv'
    BY <1>0, <1>1, <2>1 DEF Approve, BridgeTypeOK, ConsentInv
  <2> QED
    BY <1>1, <2>2, RowStepInv DEF Approve
<1>3. CASE MayApprove(d, u)
  <2>1. /\ devices' = [devices EXCEPT ![d].status = "approved", ![d].approver = u]
        /\ consents' = consents \cup {<<d, u>>}
    BY <1>3 DEF Approve, d, u
  <2>2. /\ devices' \in [Device -> DeviceRow]
        /\ devices'[d].status = "approved" /\ devices'[d].approver = u
        /\ devices'[d].tokens = devices[d].tokens /\ devices'[d].holder = devices[d].holder
        /\ \A e \in Device \ {d} : devices'[e] = devices[e]
    <3>1. devices \in [Device -> DeviceRow] /\ devices[d] \in DeviceRow
      BY <1>0 DEF BridgeTypeOK
    <3>2. devices'[d] = [devices[d] EXCEPT !.status = "approved", !.approver = u]
          /\ \A e \in Device \ {d} : devices'[e] = devices[e]
      BY <1>0, <2>1, <3>1
    <3>3. [devices[d] EXCEPT !.status = "approved", !.approver = u] \in DeviceRow
      BY <1>0, <3>1 DEF DeviceRow
    <3> QED
      BY <1>0, <2>1, <3>1, <3>2, <3>3 DEF DeviceRow
  <2>3. devices[d].status \in {"pending", "approved"}
        /\ (devices[d].status = "approved" => devices[d].approver = u)
    BY <1>3 DEF MayApprove
  <2>4. BridgeTypeOK'
    BY <1>0, <1>1, <2>1, <2>2 DEF Approve, BridgeTypeOK
  <2>5. ConsentInv'
    <3> SUFFICES ASSUME NEW e \in Device
        PROVE /\ devices'[e].tokens = IF devices'[e].status = "consumed" THEN 1 ELSE 0
              /\ devices'[e].status \in {"approved", "consumed"} => <<e, devices'[e].approver>> \in consents'
              /\ devices'[e].status = "consumed" => devices'[e].holder = devices'[e].approver
              /\ \A v \in User : <<e, v>> \in consents' =>
                   devices'[e].approver = v /\ devices'[e].status \in {"approved", "consumed"}
      BY DEF ConsentInv
    <3>1. CASE e = d
      <4>1. devices[d].tokens = 0
        BY <1>0, <2>3 DEF ConsentInv
      <4>2. \A v \in User : <<d, v>> \in consents => v = u
        BY <1>0, <2>3 DEF ConsentInv
      <4>3. devices'[d].tokens = 0 /\ <<d, u>> \in consents'
            /\ \A v \in User : <<d, v>> \in consents' => v = u
        BY <2>1, <2>2, <4>1, <4>2
      <4> QED
        BY <3>1, <2>2, <4>3
    <3>2. CASE e # d
      BY <3>2, <1>0, <2>1, <2>2 DEF ConsentInv
    <3> QED
      BY <3>1, <3>2
  <2> QED
    BY <1>1, <2>4, <2>5, RowStepInv DEF Approve
<1> QED
  BY <1>2, <1>3

LEMMA ClaimInv ==
  ASSUME BridgeInv, NEW c \in Call, Claim(c)
  PROVE  BridgeInv'
<1> DEFINE d == calls[c].device
<1>0. BridgeTypeOK /\ ConsentInv /\ d \in Device
  BY EnrollingType DEF BridgeInv, Claim
<1>1. WriterInv' /\ calls' \in [Call -> Enrolling \cup Delivering \cup {NoCall}]
  BY FinishInv DEF Claim
<1> HIDE DEF d
<1>4. UNCHANGED <<identifying, known, elapsed, evidence, observed, consents, accepted>>
  BY DEF Claim
<1>2. CASE devices' = devices
  <2>1. BridgeTypeOK' /\ ConsentInv'
    BY <1>0, <1>1, <1>2, <1>4 DEF BridgeTypeOK, ConsentInv
  <2> QED
    BY <1>1, <2>1, RowStepInv DEF Claim
<1>3. CASE devices' # devices
  <2>1. /\ devices[d].status = "approved"
        /\ devices' = [devices EXCEPT ![d].status = "consumed", ![d].tokens = @ + 1,
                                      ![d].holder = devices[d].approver]
    BY <1>3 DEF Claim, d
  <2>2. /\ devices' \in [Device -> DeviceRow]
        /\ devices'[d].status = "consumed" /\ devices'[d].approver = devices[d].approver
        /\ devices'[d].tokens = devices[d].tokens + 1 /\ devices'[d].holder = devices[d].approver
        /\ \A e \in Device \ {d} : devices'[e] = devices[e]
    BY <1>0, <2>1 DEF BridgeTypeOK, DeviceRow
  <2>3. BridgeTypeOK'
    BY <1>0, <1>1, <1>4, <2>2 DEF BridgeTypeOK
  <2>4. ConsentInv'
    <3> SUFFICES ASSUME NEW e \in Device
        PROVE /\ devices'[e].tokens = IF devices'[e].status = "consumed" THEN 1 ELSE 0
              /\ devices'[e].status \in {"approved", "consumed"} => <<e, devices'[e].approver>> \in consents'
              /\ devices'[e].status = "consumed" => devices'[e].holder = devices'[e].approver
              /\ \A v \in User : <<e, v>> \in consents' =>
                   devices'[e].approver = v /\ devices'[e].status \in {"approved", "consumed"}
      BY DEF ConsentInv
    <3>1. CASE e = d
      BY <3>1, <1>0, <1>4, <2>1, <2>2 DEF ConsentInv
    <3>2. CASE e # d
      BY <3>2, <1>0, <1>4, <2>2 DEF ConsentInv
    <3> QED
      BY <3>1, <3>2
  <2> QED
    BY <1>1, <2>3, <2>4, RowStepInv DEF Claim
<1> QED
  BY <1>2, <1>3

LEMMA LookUpInv ==
  ASSUME BridgeInv, NEW c \in Call, LookUp(c)
  PROVE  BridgeInv'
<1> DEFINE k == Key(c)
<1>0. /\ BridgeTypeOK /\ EvidenceInv /\ WriterInv /\ ConsentInv
      /\ calls[c] \in Delivering /\ calls[c].content \in Content
      /\ calls[c].device \in Device /\ calls[c].operation \in Operation /\ calls[c].at = "looking"
  BY DeliveryType DEF BridgeInv, LookUp
<1>1. CASE evidence[k] = NoContent
  <2>1. calls' = [calls EXCEPT ![c].at = "writing"] /\ UNCHANGED accepted
    BY <1>1 DEF LookUp
  <2>2. calls'[c] \in Delivering /\ calls'[c].at = "writing" /\ \A e \in Call \ {c} : calls'[e] = calls[e]
    BY <1>0, <2>1 DEF BridgeTypeOK, Delivering
  <2>3. BridgeTypeOK'
    BY <1>0, <2>1, <2>2 DEF LookUp, BridgeTypeOK
  <2>4. WriterInv'
    BY <1>0, <2>2 DEF LookUp, WriterInv, Serving, Key
  <2>5. ConsentInv'
    BY <1>0 DEF LookUp, ConsentInv
  <2> QED
    BY <2>1, <2>3, <2>4, <2>5, RowStepInv DEF LookUp
<1>2. CASE evidence[k] # NoContent
  <2>1. /\ Finish(c)
        /\ \/ accepted' = accepted
           \/ /\ accepted' = accepted \cup {<<calls[c].device, calls[c].operation, calls[c].content>>}
              /\ evidence[k] = calls[c].content
    BY <1>2 DEF LookUp, Accept
  <2>2. WriterInv' /\ calls' \in [Call -> Enrolling \cup Delivering \cup {NoCall}]
    BY <2>1, FinishInv DEF LookUp
  <2>3. BridgeTypeOK'
    BY <1>0, <2>1, <2>2 DEF LookUp, BridgeTypeOK
  <2>4. EvidenceInv'
    BY <1>0, <2>1 DEF LookUp, EvidenceInv, Key
  <2>5. ConsentInv'
    BY <1>0 DEF LookUp, ConsentInv
  <2> QED
    BY <2>2, <2>3, <2>4, <2>5 DEF BridgeInv
<1> QED
  BY <1>1, <1>2

LEMMA WriteEvidenceInv ==
  ASSUME BridgeInv, NEW c \in Call, WriteCandidate(c)
  PROVE  BridgeInv'
<1> DEFINE k == Key(c)
<1>0. /\ BridgeTypeOK /\ EvidenceInv /\ WriterInv /\ ConsentInv /\ k \in Device \X Operation
      /\ calls[c] \in Delivering /\ calls[c].content \in Content /\ calls[c].at = "writing"
  BY DeliveryType DEF BridgeInv, WriteCandidate
<1>1. ConsentInv'
  BY <1>0 DEF WriteCandidate, ConsentInv
<1>2. CASE ~Fresh(k)
  <2>1. Finish(c) /\ UNCHANGED evidence
    BY <1>2 DEF WriteCandidate
  <2>2. WriterInv' /\ calls' \in [Call -> Enrolling \cup Delivering \cup {NoCall}]
    BY <2>1, FinishInv DEF WriteCandidate
  <2>3. BridgeTypeOK'
    BY <1>0, <2>1, <2>2 DEF WriteCandidate, BridgeTypeOK
  <2> QED
    BY <1>1, <2>1, <2>2, <2>3, RowStepInv DEF WriteCandidate
<1>3. CASE Fresh(k)
  <2>1. /\ evidence[k] = NoContent
        /\ evidence' = [evidence EXCEPT ![k] = calls[c].content]
        /\ calls' = [calls EXCEPT ![c].at = "observing"]
    BY <1>3 DEF WriteCandidate, Fresh
  <2>2. /\ calls'[c] \in Delivering /\ calls'[c].at = "observing"
        /\ calls'[c].device = calls[c].device /\ calls'[c].operation = calls[c].operation
        /\ calls'[c].content = calls[c].content
        /\ \A e \in Call \ {c} : calls'[e] = calls[e]
    BY <1>0, <2>1 DEF BridgeTypeOK, Delivering
  <2>3. /\ evidence'[k] = calls[c].content
        /\ \A o \in Device \X Operation : o # k => evidence'[o] = evidence[o]
    BY <1>0, <2>1 DEF BridgeTypeOK
  <2>4. BridgeTypeOK'
    BY <1>0, <2>1, <2>2 DEF WriteCandidate, BridgeTypeOK
  <2>5. observed[k] = 0 /\ \A x \in Content : <<k[1], k[2], x>> \notin accepted
    BY <1>0, <2>1, BridgeAssumption DEF EvidenceInv
  <2>6. EvidenceInv'
    BY <1>0, <2>3, <2>5, BridgeAssumption DEF WriteCandidate, EvidenceInv
  <2>7. \A e \in Call : Serving(e, "observing") => Key(e) \in Device \X Operation /\ Key(e) # k
    BY <1>0, <2>1, DeliveryType, BridgeAssumption DEF WriterInv
  <2>8. WriterInv'
    <3> SUFFICES ASSUME NEW e \in Call, Serving(e, "observing")'
        PROVE /\ evidence'[Key(e)'] = calls'[e].content
              /\ observed'[Key(e)'] = 0
              /\ \A f \in Call : Serving(f, "observing")' /\ Key(f)' = Key(e)' => f = e
      BY DEF WriterInv
    <3>1. Key(c)' = k /\ \A f \in Call \ {c} : Key(f)' = Key(f) /\ (Serving(f, "observing")' <=> Serving(f, "observing"))
      BY <2>2 DEF Key, Serving
    <3>2. CASE e = c
      BY <3>1, <3>2, <2>2, <2>3, <2>5, <2>7 DEF WriteCandidate
    <3>3. CASE e # c
      BY <3>1, <3>3, <2>2, <2>3, <2>7, <1>0 DEF WriteCandidate, WriterInv
    <3> QED
      BY <3>2, <3>3
  <2> QED
    BY <1>1, <2>4, <2>6, <2>8 DEF BridgeInv
<1> QED
  BY <1>2, <1>3

LEMMA ObserveInv ==
  ASSUME BridgeInv, NEW c \in Call, Observe(c)
  PROVE  BridgeInv'
<1> DEFINE k == Key(c)
<1>0. /\ BridgeTypeOK /\ EvidenceInv /\ WriterInv /\ ConsentInv /\ k \in Device \X Operation
      /\ calls[c].content \in Content /\ Serving(c, "observing")
      /\ calls[c].device \in Device /\ calls[c].operation \in Operation
  BY DeliveryType DEF BridgeInv, Observe
<1>1. evidence[k] = calls[c].content /\ observed[k] = 0
  BY <1>0 DEF WriterInv
<1>2. /\ observed'[k] = 1 /\ \A o \in Device \X Operation : o # k => observed'[o] = observed[o]
      /\ observed' \in [Device \X Operation -> Nat]
  BY <1>0, <1>1 DEF Observe, BridgeTypeOK
<1>3. accepted' = accepted \cup {<<calls[c].device, calls[c].operation, calls[c].content>>}
  BY DEF Observe, Accept
<1>4. calls' = [calls EXCEPT ![c] = NoCall]
  BY DEF Observe, Finish
<1>5. BridgeTypeOK'
  BY <1>0, <1>2, <1>3, <1>4 DEF Observe, BridgeTypeOK
<1>6. ConsentInv'
  BY <1>0 DEF Observe, ConsentInv
<1>7. EvidenceInv'
  BY <1>0, <1>1, <1>2, <1>3, BridgeAssumption DEF Observe, EvidenceInv, Key
<1>8. WriterInv'
  <2>1. \A e \in Call : Serving(e, "observing")' =>
          e # c /\ Serving(e, "observing") /\ calls'[e] = calls[e] /\ Key(e)' = Key(e)
    BY <1>0, <1>4 DEF Serving, BridgeTypeOK, Key
  <2>2. \A e \in Call : Serving(e, "observing")' => Key(e) \in Device \X Operation /\ Key(e) # k
    BY <1>0, <2>1, DeliveryType DEF WriterInv
  <2> QED
    BY <1>0, <1>2, <2>1, <2>2 DEF Observe, WriterInv
<1> QED
  BY <1>5, <1>6, <1>7, <1>8 DEF BridgeInv

LEMMA BridgeNextInv == BridgeInv /\ [BridgeNext]_bridgeVars => BridgeInv'
<1> SUFFICES ASSUME BridgeInv, [BridgeNext]_bridgeVars PROVE BridgeInv'
  OBVIOUS
<1>0. BridgeTypeOK /\ ConsentInv /\ WriterInv
  BY DEF BridgeInv
<1> DEFINE Quiet == UNCHANGED <<evidence, observed, calls, accepted>>
<1>1. Quiet => WriterInv'
  BY <1>0 DEF WriterInv, Serving, Key
<1>2. ASSUME UNCHANGED bridgeVars PROVE BridgeInv'
  BY <1>0, <1>1, <1>2, RowStepInv DEF bridgeVars, BridgeTypeOK, ConsentInv
<1>3. ASSUME NEW u \in User, Turn(u) PROVE BridgeInv'
  <2>1. BridgeTypeOK' /\ ConsentInv'
    BY <1>0, <1>3 DEF Turn, BridgeTypeOK, ConsentInv
  <2> QED
    BY <1>1, <1>3, <2>1, RowStepInv DEF Turn
<1>4. ASSUME NEW d \in Device, Enroll(d) PROVE BridgeInv'
  <2>1. BridgeTypeOK' /\ ConsentInv'
    BY <1>0, <1>4 DEF Enroll, BridgeTypeOK, DeviceRow, ConsentInv
  <2> QED
    BY <1>1, <1>4, <2>1, RowStepInv DEF Enroll
<1>5. ASSUME NEW d \in Device, Elapse(d) PROVE BridgeInv'
  <2>1. BridgeTypeOK' /\ ConsentInv'
    BY <1>0, <1>5 DEF Elapse, BridgeTypeOK, ConsentInv
  <2> QED
    BY <1>1, <1>5, <2>1, RowStepInv DEF Elapse
<1>6. ASSUME NEW d \in Device, Revoke(d) PROVE BridgeInv'
  <2>1. BridgeTypeOK' /\ ConsentInv'
    <3>1. /\ devices' \in [Device -> DeviceRow]
          /\ \A e \in Device : /\ devices'[e].status = devices[e].status
                              /\ devices'[e].tokens = devices[e].tokens
                              /\ devices'[e].approver = devices[e].approver
                              /\ devices'[e].holder = devices[e].holder
      BY <1>0, <1>6 DEF Revoke, BridgeTypeOK, DeviceRow
    <3> QED
      BY <1>0, <1>6, <3>1 DEF Revoke, BridgeTypeOK, ConsentInv
  <2> QED
    BY <1>1, <1>6, <2>1, RowStepInv DEF Revoke
<1>7. ASSUME NEW c \in Call, NEW d \in Device, Poll(c, d) PROVE BridgeInv'
  BY <1>7, ArriveInv DEF Poll, Enrolling
<1>8. ASSUME NEW c \in Call, NEW d \in Device, NEW u \in User, AskApproval(c, d, u) PROVE BridgeInv'
  BY <1>8, ArriveInv DEF AskApproval, Enrolling
<1>9. ASSUME NEW c \in Call, NEW d \in Device, NEW o \in Operation, NEW x \in Content, Deliver(c, d, o, x)
      PROVE BridgeInv'
  BY <1>9, ArriveInv DEF Deliver, Delivering
<1>10. ASSUME NEW c \in Call, Die(c) PROVE BridgeInv'
  <2>1. WriterInv' /\ calls' \in [Call -> Enrolling \cup Delivering \cup {NoCall}]
    BY <1>10, FinishInv DEF Die
  <2>2. BridgeTypeOK' /\ ConsentInv'
    BY <1>0, <1>10, <2>1 DEF Die, BridgeTypeOK, ConsentInv
  <2> QED
    BY <1>10, <2>1, <2>2, RowStepInv DEF Die
<1> QED
  BY <1>2, <1>3, <1>4, <1>5, <1>6, <1>7, <1>8, <1>9, <1>10,
     ApproveInv, ClaimInv, LookUpInv, WriteEvidenceInv, ObserveInv DEF BridgeNext

\* The inductive invariant of the bridge.
THEOREM BridgeInvariance == BridgeSpec => []BridgeInv
BY BridgeInitInv, BridgeNextInv, PTL DEF BridgeSpec

\* Approvals and polls may cross as they like: one user, one token.
THEOREM ConsentedOnce == BridgeSpec => []OneTokenPerConsent
<1>1. BridgeInv => OneTokenPerConsent
  <2> SUFFICES ASSUME BridgeInv, NEW d \in Device
      PROVE /\ devices[d].tokens = IF devices[d].status = "consumed" THEN 1 ELSE 0
            /\ devices[d].tokens > 0 => <<d, devices[d].holder>> \in consents
            /\ \A u, v \in User : <<d, u>> \in consents /\ <<d, v>> \in consents => u = v
    BY DEF OneTokenPerConsent
  <2>1. /\ devices[d] \in DeviceRow
        /\ devices[d].tokens = IF devices[d].status = "consumed" THEN 1 ELSE 0
        /\ devices[d].status = "consumed" =>
             <<d, devices[d].approver>> \in consents /\ devices[d].holder = devices[d].approver
        /\ \A u \in User : <<d, u>> \in consents => devices[d].approver = u
    BY DEF BridgeInv, BridgeTypeOK, ConsentInv
  <2>2. devices[d].tokens > 0 => devices[d].status = "consumed"
    BY <2>1
  <2> QED
    BY <2>1, <2>2
<1> QED
  BY <1>1, BridgeInvariance, PTL

\* Deliveries may be repeated, cross and die: what was accepted stands, and it
\* is counted once at most.
THEOREM EvidenceStands == BridgeSpec => []AcceptedEvidenceStands
<1>1. BridgeInv => AcceptedEvidenceStands
  <2> SUFFICES ASSUME BridgeInv, NEW d \in Device, NEW o \in Operation
      PROVE /\ observed[<<d, o>>] <= 1
            /\ \A x \in Content : <<d, o, x>> \in accepted => evidence[<<d, o>>] = x
    BY DEF AcceptedEvidenceStands
  <2> QED
    BY DEF BridgeInv, EvidenceInv
<1> QED
  BY <1>1, BridgeInvariance, PTL

-----------------------------------------------------------------------------
(* The five kinds of review in one deployment. *)

\* Each of them goes on as it would without the others; the learning is seen
\* together with the stores it writes to.
LEMMA EachGoesOn == MCSpec => Spec /\ SharedSpec /\ BridgeSpec
<1>1. MCInit => Init /\ SharedInit /\ BridgeInit
  BY DEF MCInit, SharedInit
<1>2. [MCNext]_<<vars, assetVars, memoryVars, learningVars, bridgeVars, part, class>> =>
        [Next]_vars /\ [SharedNext]_allVars /\ [BridgeNext]_bridgeVars
  BY DEF MCNext, SharedNext, allVars
<1> QED
  BY <1>1, <1>2, PTL DEF MCSpec, Spec, SharedSpec, BridgeSpec

\* Every reachable state of the tickets, the assets, the memory, the learning
\* and the devices is well-typed.
THEOREM ReviewTypesHold == MCSpec => []ReviewTypes
<1>1. IInv /\ SharedInv /\ BridgeInv => ReviewTypes
  BY DEF ReviewTypes, IInv, SharedInv, AssetInv, MemoryInv, LearningInv, BridgeInv
<1> QED
  BY <1>1, EachGoesOn, Invariance, SharedInvariance, BridgeInvariance, PTL

\* Nothing takes effect that nobody else has approved, whichever way it comes
\* in: calls run as granted and once per ticket, versions and memories are
\* vouched for, a finding is learned once, a device has one token, and what it
\* has delivered stands.
THEOREM NothingUnapproved ==
  MCSpec => [](/\ RunsAreGranted /\ RunsPerTicket /\ ValidationsHold
               /\ ActiveIsVouchedFor /\ CatalogFollowsReviews
               /\ RecallIsVouchedFor /\ LearnedOnce
               /\ OneTokenPerConsent /\ AcceptedEvidenceStands)
<1>1. SharedInv => ActiveIsVouchedFor /\ CatalogFollowsReviews /\ RecallIsVouchedFor
  BY DEF SharedInv, AssetInv, MemoryInv
<1> QED
  BY <1>1, EachGoesOn, GrantedRuns, OneCallPerTicket, ValidatedRows, SharedInvariance, LearnedAtMostOnce,
     ConsentedOnce, EvidenceStands, PTL

\* And no decision is undone: about a ticket, about a version of an asset, or
\* about a memory, nor does an earlier version come back.
THEOREM DecisionsLast ==
  MCSpec => VerdictsAreFinal /\ DecisionsStand /\ VersionsMoveForward /\ EndedMemoriesStayOut
BY EachGoesOn, FinalVerdicts, LearningKeepsDecisions, LearningMovesForward, LearningKeepsEnds, PTL
=============================================================================
