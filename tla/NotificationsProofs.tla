------------------------ MODULE NotificationsProofs ------------------------
(***************************************************************************)
(* Proofs about Notifications, for any events, subscriptions, attempt      *)
(* limit and reports and finitely many workers.                            *)
(*                                                                         *)
(* Both counting properties rest on counting what is still to happen: a    *)
(* worker between its claim and its send is a send to come (ToSend), a     *)
(* worker about to put its delivery back is a claim to come (ToPutBack),   *)
(* and so is a row open to a claim (Open).                                 *)
(***************************************************************************)
EXTENDS Notifications, FiniteSetTheorems, TLAPS

\* The workers that have delivery d and are at one of some positions.
Holders(at, has, d, positions) == {w \in Worker : has[w] = d /\ at[w] \in positions}

\* Workers that hold a claim they have not sent for, and workers that are
\* about to put their delivery back.
ToSend(d) == Holders(pc, cur, d, {"claimed", "loaded"})
ToPutBack(d) == Holders(pc, cur, d, {"failing"})

\* What a worker knows of its delivery is not ahead of the row.
WorkerInv ==
  \A w \in Worker :
    /\ pc[w] = "idle" => seen[w] = 0
    /\ pc[w] # "idle" => seen[w] <= attempts[cur[w]]
    /\ pc[w] = "sent" => own[w] \in 1..sends[cur[w]]

\* Every claim is for one send.
BudgetInv == \A d \in Listens : sends[d] + Cardinality(ToSend(d)) <= attempts[d]

\* A row open to a claim.
Open(d) == IF status[d] \in {"absent", "queued", "failed"} THEN 1 ELSE 0

\* Each send, made or to come, has a reason: the event itself, a send taken
\* for failed or a failure reported.
ReasonInv ==
  \A d \in Listens :
    sends[d] + Cardinality(ToSend(d)) + Cardinality(ToPutBack(d)) + Open(d)
      <= 1 + errors[d] + Cardinality(FailureReports(d))

IInv ==
  /\ TypeOK
  /\ IsFiniteSet(callbacks)
  /\ WorkerInv
  /\ DeliveredNamesItsMessage
  /\ DeadLettersHaveCauses
  /\ BudgetInv
  /\ ReasonInv

\* A delivery somebody works on is not open to a claim, nobody else works on it
\* and the attempt read of it is the one it is at.
HandInv ==
  /\ \A w \in Worker : pc[w] # "idle" => status[cur[w]] \notin {"absent", "queued", "failed"}
  /\ \A v, w \in Worker : pc[v] # "idle" /\ pc[w] # "idle" /\ cur[v] = cur[w] => v = w
  /\ \A w \in Worker : pc[w] \notin {"idle", "claimed"} => seen[w] = attempts[cur[w]]

Position == {"idle", "claimed", "loaded", "sent", "filing", "failing"}
-----------------------------------------------------------------------------
(* Counting. *)

In(x, S) == IF x \in S THEN 1 ELSE 0

\* Two finite sets that differ at most in x differ in size accordingly.
LEMMA OneApart ==
  ASSUME NEW S, NEW T, NEW x, IsFiniteSet(S), S \ {x} = T \ {x}
  PROVE  /\ IsFiniteSet(T)
         /\ Cardinality(S) \in Nat
         /\ Cardinality(T) \in Nat
         /\ Cardinality(T) = Cardinality(S) + In(x, T) - In(x, S)
<1> DEFINE R == S \ {x}
<1>1. IsFiniteSet(R) /\ Cardinality(R) \in Nat /\ x \notin R
  BY FS_Subset, FS_CardinalityType
<1>2. IsFiniteSet(R \cup {x}) /\ Cardinality(R \cup {x}) = Cardinality(R) + 1
  BY <1>1, FS_AddElement
<1>3. \A U : U \ {x} = R =>
        IsFiniteSet(U) /\ Cardinality(U) = Cardinality(R) + In(x, U)
  <2> SUFFICES ASSUME NEW U, U \ {x} = R
               PROVE  IsFiniteSet(U) /\ Cardinality(U) = Cardinality(R) + In(x, U)
    OBVIOUS
  <2>1. CASE x \in U
    <3>1. U = R \cup {x}
      BY <2>1
    <3> QED
      BY <1>2, <2>1, <3>1 DEF In
  <2>2. CASE x \notin U
    <3>1. U = R
      BY <2>2
    <3> QED
      BY <1>1, <2>2, <3>1 DEF In
  <2> QED
    BY <2>1, <2>2
<1>4. /\ IsFiniteSet(T)
      /\ Cardinality(S) = Cardinality(R) + In(x, S)
      /\ Cardinality(T) = Cardinality(R) + In(x, T)
  BY <1>3
<1>5. In(x, S) \in {0, 1} /\ In(x, T) \in {0, 1}
  BY DEF In
<1> HIDE DEF R
<1> QED
  BY <1>1, <1>4, <1>5

\* Holders are finitely many.
LEMMA HoldersFinite ==
  ASSUME NEW at, NEW has, NEW d, NEW positions
  PROVE  /\ IsFiniteSet(Holders(at, has, d, positions))
         /\ Cardinality(Holders(at, has, d, positions)) \in Nat
BY ConstantsAssumption, FS_Subset, FS_CardinalityType DEF ConstantsAssumption, Holders

\* The reports received are finitely many, those of a failure among them.
LEMMA ReportsFinite ==
  ASSUME IsFiniteSet(callbacks), NEW d
  PROVE  IsFiniteSet(FailureReports(d)) /\ Cardinality(FailureReports(d)) \in Nat
<1>1. FailureReports(d) \subseteq callbacks
  BY DEF FailureReports
<1> QED
  BY <1>1, FS_Subset, FS_CardinalityType
-----------------------------------------------------------------------------
(* The steps, by what they do to the workers and to the rows. *)

\* Every step is one of these; in the first group no worker moves.
LEMMA NextSteps ==
  [Next]_vars =>
    \/ \E e \in Event : Register(e) \/ Expand(e)
    \/ \E s \in Subscription : ToggleSubscription(s)
    \/ \E d \in Listens : ComesDue(d)
    \/ \E d \in Listens, n \in 1..AttemptLimit, type \in Reports, id \in ReportId :
         ReceiveReport(d, n, type, id)
    \/ UNCHANGED vars
    \/ \E w \in Worker :
         \/ ClaimDelivery(w) \/ ReadDelivery(w) \/ Suppress(w) \/ Postpone(w)
         \/ SendSucceeds(w) \/ SendFails(w) \/ MarkDelivered(w) \/ FileMail(w)
         \/ GiveUpOrRetry(w) \/ StoreError(w) \/ Abandon(w)
BY DEF Next, Process

-----------------------------------------------------------------------------
(* Types. *)

\* No step leaves the types.
LEMMA NextTypeOK == TypeOK /\ [Next]_vars => TypeOK'
<1> SUFFICES ASSUME TypeOK, [Next]_vars PROVE TypeOK'
  OBVIOUS
<1> USE ConstantsAssumption DEF ConstantsAssumption, TypeOK, DeliveryStatus, Settled,
        Callback, rowVars, workerVars
<1>1. ASSUME NEW e \in Event, Register(e) PROVE TypeOK'
  BY <1>1 DEF Register
<1>2. ASSUME NEW e \in Event, Expand(e) PROVE TypeOK'
  BY <1>2 DEF Expand
<1>3. ASSUME NEW s \in Subscription, ToggleSubscription(s) PROVE TypeOK'
  BY <1>3 DEF ToggleSubscription
<1>4. ASSUME NEW d \in Listens, ComesDue(d) PROVE TypeOK'
  BY <1>4 DEF ComesDue
<1>5. ASSUME NEW d \in Listens, NEW n \in 1..AttemptLimit, NEW type \in Reports,
       NEW id \in ReportId, ReceiveReport(d, n, type, id) PROVE TypeOK'
  <2>1. Meaning[type] \in DeliveryStatus
    BY DEF Meaning
  <2>2. status' \in [Listens -> DeliveryStatus] /\ due' \in [Listens -> BOOLEAN]
    BY <1>5, <2>1 DEF ReceiveReport
  <2>3. (message[d] = n) \in BOOLEAN /\ n \in Nat
    OBVIOUS
  <2>4. callbacks' \subseteq Callback
    <3> DEFINE c == [id |-> id, delivery |-> d, message |-> n, type |-> type, processed |-> message[d] = n]
    <3>1. c \in Callback
      BY <2>3
    <3>2. callbacks' = callbacks \cup {c}
      BY <1>5 DEF ReceiveReport
    <3> HIDE DEF c
    <3> QED
      BY <3>1, <3>2
  <2> QED
    BY <1>5, <2>2, <2>4 DEF ReceiveReport
<1>6. ASSUME NEW w \in Worker, ClaimDelivery(w) PROVE TypeOK'
  BY <1>6 DEF ClaimDelivery, Goto, ClaimableDelivery
<1>7. ASSUME NEW w \in Worker, ReadDelivery(w) PROVE TypeOK'
  BY <1>7 DEF ReadDelivery, Goto
<1>8. ASSUME NEW w \in Worker, Suppress(w) PROVE TypeOK'
  BY <1>8 DEF Suppress, FinishDelivery, Leave
<1>9. ASSUME NEW w \in Worker, Postpone(w) PROVE TypeOK'
  BY <1>9 DEF Postpone, FinishDelivery, Leave
<1>10. ASSUME NEW w \in Worker, SendSucceeds(w) PROVE TypeOK'
  BY <1>10 DEF SendSucceeds, Goto
<1>11. ASSUME NEW w \in Worker, SendFails(w) PROVE TypeOK'
  BY <1>11 DEF SendFails, Goto
<1>12. ASSUME NEW w \in Worker, MarkDelivered(w) PROVE TypeOK'
  <2>1. cur[w] \in Listens /\ own[w] \in Nat /\ FinishDelivery(cur[w], "delivered", own[w], TRUE)
    BY <1>12 DEF MarkDelivered
  <2>2. /\ status' \in [Listens -> DeliveryStatus]
        /\ attempts' = attempts
        /\ due' \in [Listens -> BOOLEAN]
        /\ message' \in [Listens -> Nat]
    BY <2>1 DEF FinishDelivery
  <2>3. \/ Goto(w, "filing") /\ UNCHANGED <<cur, seen, own>>
        \/ Leave(w)
    BY <1>12 DEF MarkDelivered
  <2>4. /\ pc' \in [Worker -> Position]
        /\ cur' \in [Worker -> Listens \cup {None}]
        /\ \A v \in Worker : pc'[v] # "idle" => cur'[v] \in Listens
        /\ seen' \in [Worker -> 0..AttemptLimit]
        /\ own' \in [Worker -> Nat]
    <3>1. CASE Goto(w, "filing") /\ UNCHANGED <<cur, seen, own>>
      BY <2>1, <3>1 DEF Goto, Position
    <3>2. CASE Leave(w)
      BY <3>2 DEF Leave, Position
    <3> QED
      BY <2>3, <3>1, <3>2
  <2> QED
    BY <1>12, <2>2, <2>4 DEF MarkDelivered, Position
<1>13. ASSUME NEW w \in Worker, FileMail(w) PROVE TypeOK'
  BY <1>13 DEF FileMail, Leave
<1>14. ASSUME NEW w \in Worker, GiveUpOrRetry(w) PROVE TypeOK'
  <2>1. cur[w] \in Listens /\ Leave(w)
    BY <1>14 DEF GiveUpOrRetry
  <2>2. \E x \in {"dead_letter", "failed"}, isDue \in BOOLEAN : FinishDelivery(cur[w], x, 0, isDue)
    BY <1>14 DEF GiveUpOrRetry
  <2>3. /\ status' \in [Listens -> DeliveryStatus]
        /\ attempts' = attempts
        /\ due' \in [Listens -> BOOLEAN]
        /\ message' \in [Listens -> Nat]
    BY <2>1, <2>2 DEF FinishDelivery
  <2> QED
    BY <1>14, <2>1, <2>3 DEF GiveUpOrRetry, Leave
<1>15. ASSUME NEW w \in Worker, StoreError(w) PROVE TypeOK'
  BY <1>15 DEF StoreError, Fault, Goto
<1>16. ASSUME NEW w \in Worker, Abandon(w) PROVE TypeOK'
  BY <1>16 DEF Abandon, Fault, Leave
<1>17. CASE UNCHANGED vars
  BY <1>17 DEF vars
<1> QED
  BY <1>1, <1>2, <1>3, <1>4, <1>5, <1>6, <1>7, <1>8, <1>9, <1>10, <1>11, <1>12, <1>13, <1>14, <1>15, <1>16, <1>17, NextSteps

\* Reports stay finitely many.
LEMMA NextFinite ==
  IsFiniteSet(callbacks) /\ [Next]_vars => IsFiniteSet(callbacks')
<1> SUFFICES ASSUME IsFiniteSet(callbacks), [Next]_vars PROVE IsFiniteSet(callbacks')
  OBVIOUS
<1>1. ASSUME NEW d \in Listens, NEW n \in 1..AttemptLimit, NEW type \in Reports,
             NEW id \in ReportId, ReceiveReport(d, n, type, id)
      PROVE  IsFiniteSet(callbacks')
  BY <1>1, FS_AddElement DEF ReceiveReport
<1>2. ASSUME UNCHANGED callbacks PROVE IsFiniteSet(callbacks')
  BY <1>2
<1> QED
  BY <1>1, <1>2, NextSteps
  DEF Register, Expand, ToggleSubscription, ComesDue, vars, ClaimDelivery, ReadDelivery,
      Suppress, Postpone, SendSucceeds, SendFails, MarkDelivered, FileMail, GiveUpOrRetry,
      StoreError, Abandon
-----------------------------------------------------------------------------
(* What workers know and what rows say. *)

\* The attempt a worker read and the message it sent stay within the row's
\* counts, which only grow.
LEMMA NextWorkerInv == TypeOK /\ WorkerInv /\ [Next]_vars => WorkerInv'
<1> SUFFICES ASSUME TypeOK, WorkerInv, [Next]_vars PROVE WorkerInv'
  OBVIOUS
<1> USE ConstantsAssumption DEF ConstantsAssumption, TypeOK, WorkerInv, rowVars, workerVars
<1>1. ASSUME NEW e \in Event, Register(e) PROVE WorkerInv'
  BY <1>1 DEF Register
<1>2. ASSUME NEW e \in Event, Expand(e) PROVE WorkerInv'
  BY <1>2 DEF Expand
<1>3. ASSUME NEW s \in Subscription, ToggleSubscription(s) PROVE WorkerInv'
  BY <1>3 DEF ToggleSubscription
<1>4. ASSUME NEW d \in Listens, ComesDue(d) PROVE WorkerInv'
  BY <1>4 DEF ComesDue
<1>5. ASSUME NEW d \in Listens, NEW n \in 1..AttemptLimit, NEW type \in Reports,
       NEW id \in ReportId, ReceiveReport(d, n, type, id) PROVE WorkerInv'
  BY <1>5 DEF ReceiveReport, Meaning
<1>6. ASSUME NEW w \in Worker, ClaimDelivery(w) PROVE WorkerInv'
  <2>1. PICK d \in Listens : attempts' = [attempts EXCEPT ![d] = @ + 1] /\ cur' = [cur EXCEPT ![w] = d]
    BY <1>6 DEF ClaimDelivery
  <2>2. pc' = [pc EXCEPT ![w] = "claimed"] /\ seen[w] \in Nat /\ UNCHANGED <<seen, own, sends>>
    BY <1>6 DEF ClaimDelivery, Goto
  <2>3. \A x \in Listens : attempts'[x] >= attempts[x]
    BY <2>1
  <2>4. seen[w] = 0
    BY <1>6 DEF ClaimDelivery
  <2> QED
    BY <2>1, <2>2, <2>3, <2>4
<1>7. ASSUME NEW w \in Worker, ReadDelivery(w) PROVE WorkerInv'
  BY <1>7 DEF ReadDelivery, Goto
<1>8. ASSUME NEW w \in Worker, Suppress(w) PROVE WorkerInv'
  BY <1>8 DEF Suppress, FinishDelivery, Leave
<1>9. ASSUME NEW w \in Worker, Postpone(w) PROVE WorkerInv'
  BY <1>9 DEF Postpone, FinishDelivery, Leave
<1>10. ASSUME NEW w \in Worker, SendSucceeds(w) PROVE WorkerInv'
  BY <1>10 DEF SendSucceeds, Goto
<1>11. ASSUME NEW w \in Worker, SendFails(w) PROVE WorkerInv'
  BY <1>11 DEF SendFails, Goto
<1>12. ASSUME NEW w \in Worker, MarkDelivered(w) PROVE WorkerInv'
  BY <1>12 DEF MarkDelivered, FinishDelivery, Goto, Leave
<1>13. ASSUME NEW w \in Worker, FileMail(w) PROVE WorkerInv'
  BY <1>13 DEF FileMail, Leave
<1>14. ASSUME NEW w \in Worker, GiveUpOrRetry(w) PROVE WorkerInv'
  BY <1>14 DEF GiveUpOrRetry, FinishDelivery, Leave
<1>15. ASSUME NEW w \in Worker, StoreError(w) PROVE WorkerInv'
  BY <1>15 DEF StoreError, Fault, Goto
<1>16. ASSUME NEW w \in Worker, Abandon(w) PROVE WorkerInv'
  BY <1>16 DEF Abandon, Fault, Leave
<1>17. CASE UNCHANGED vars
  BY <1>17 DEF vars
<1> QED
  BY <1>1, <1>2, <1>3, <1>4, <1>5, <1>6, <1>7, <1>8, <1>9, <1>10, <1>11, <1>12, <1>13, <1>14, <1>15, <1>16, <1>17, NextSteps

\* A row becomes delivered with a message that was sent, and messages stay.
LEMMA NextDelivered ==
  TypeOK /\ WorkerInv /\ DeliveredNamesItsMessage /\ [Next]_vars => DeliveredNamesItsMessage'
<1> SUFFICES ASSUME TypeOK, WorkerInv, DeliveredNamesItsMessage, [Next]_vars
             PROVE  DeliveredNamesItsMessage'
  OBVIOUS
<1> USE ConstantsAssumption DEF ConstantsAssumption, TypeOK, WorkerInv,
        DeliveredNamesItsMessage, rowVars, workerVars
<1>1. ASSUME NEW e \in Event, Register(e) PROVE DeliveredNamesItsMessage'
  BY <1>1 DEF Register
<1>2. ASSUME NEW e \in Event, Expand(e) PROVE DeliveredNamesItsMessage'
  BY <1>2 DEF Expand
<1>3. ASSUME NEW s \in Subscription, ToggleSubscription(s) PROVE DeliveredNamesItsMessage'
  BY <1>3 DEF ToggleSubscription
<1>4. ASSUME NEW d \in Listens, ComesDue(d) PROVE DeliveredNamesItsMessage'
  BY <1>4 DEF ComesDue
<1>5. ASSUME NEW d \in Listens, NEW n \in 1..AttemptLimit, NEW type \in Reports,
       NEW id \in ReportId, ReceiveReport(d, n, type, id) PROVE DeliveredNamesItsMessage'
  BY <1>5 DEF ReceiveReport, Meaning
<1>6. ASSUME NEW w \in Worker, ClaimDelivery(w) PROVE DeliveredNamesItsMessage'
  BY <1>6 DEF ClaimDelivery, Goto, ClaimableDelivery
<1>7. ASSUME NEW w \in Worker, ReadDelivery(w) PROVE DeliveredNamesItsMessage'
  BY <1>7 DEF ReadDelivery, Goto
<1>8. ASSUME NEW w \in Worker, Suppress(w) PROVE DeliveredNamesItsMessage'
  BY <1>8 DEF Suppress, FinishDelivery, Leave
<1>9. ASSUME NEW w \in Worker, Postpone(w) PROVE DeliveredNamesItsMessage'
  BY <1>9 DEF Postpone, FinishDelivery, Leave
<1>10. ASSUME NEW w \in Worker, SendSucceeds(w) PROVE DeliveredNamesItsMessage'
  BY <1>10 DEF SendSucceeds, Goto
<1>11. ASSUME NEW w \in Worker, SendFails(w) PROVE DeliveredNamesItsMessage'
  BY <1>11 DEF SendFails, Goto
<1>12. ASSUME NEW w \in Worker, MarkDelivered(w) PROVE DeliveredNamesItsMessage'
  BY <1>12 DEF MarkDelivered, FinishDelivery, Goto, Leave
<1>13. ASSUME NEW w \in Worker, FileMail(w) PROVE DeliveredNamesItsMessage'
  BY <1>13 DEF FileMail, Leave
<1>14. ASSUME NEW w \in Worker, GiveUpOrRetry(w) PROVE DeliveredNamesItsMessage'
  BY <1>14 DEF GiveUpOrRetry, FinishDelivery, Leave
<1>15. ASSUME NEW w \in Worker, StoreError(w) PROVE DeliveredNamesItsMessage'
  BY <1>15 DEF StoreError, Fault, Goto
<1>16. ASSUME NEW w \in Worker, Abandon(w) PROVE DeliveredNamesItsMessage'
  BY <1>16 DEF Abandon, Fault, Leave
<1>17. CASE UNCHANGED vars
  BY <1>17 DEF vars
<1> QED
  BY <1>1, <1>2, <1>3, <1>4, <1>5, <1>6, <1>7, <1>8, <1>9, <1>10, <1>11, <1>12, <1>13, <1>14, <1>15, <1>16, <1>17, NextSteps

\* A row becomes a dead letter at the limit or by a bounce, and neither goes
\* away.
LEMMA NextDeadLetters ==
  TypeOK /\ WorkerInv /\ DeadLettersHaveCauses /\ [Next]_vars => DeadLettersHaveCauses'
<1> SUFFICES ASSUME TypeOK, WorkerInv, DeadLettersHaveCauses, [Next]_vars
             PROVE  DeadLettersHaveCauses'
  OBVIOUS
<1> USE ConstantsAssumption DEF ConstantsAssumption, TypeOK, WorkerInv,
        DeadLettersHaveCauses, rowVars, workerVars
<1>1. ASSUME NEW e \in Event, Register(e) PROVE DeadLettersHaveCauses'
  BY <1>1 DEF Register
<1>2. ASSUME NEW e \in Event, Expand(e) PROVE DeadLettersHaveCauses'
  BY <1>2 DEF Expand
<1>3. ASSUME NEW s \in Subscription, ToggleSubscription(s) PROVE DeadLettersHaveCauses'
  BY <1>3 DEF ToggleSubscription
<1>4. ASSUME NEW d \in Listens, ComesDue(d) PROVE DeadLettersHaveCauses'
  BY <1>4 DEF ComesDue
<1>5. ASSUME NEW d \in Listens, NEW n \in 1..AttemptLimit, NEW type \in Reports,
       NEW id \in ReportId, ReceiveReport(d, n, type, id) PROVE DeadLettersHaveCauses'
  <2> DEFINE c == [id |-> id, delivery |-> d, message |-> n, type |-> type, processed |-> message[d] = n]
  <2>1. callbacks' = callbacks \cup {c} /\ attempts' = attempts
    BY <1>5 DEF ReceiveReport
  <2>2. \A x \in Listens : status'[x] = "dead_letter" =>
          status[x] = "dead_letter" \/ (x = d /\ type = "bounced" /\ message[d] = n)
    BY <1>5 DEF ReceiveReport, Meaning
  <2>3. type = "bounced" /\ message[d] = n => c.delivery = d /\ c.type = "bounced" /\ c.processed
    OBVIOUS
  <2> HIDE DEF c
  <2> QED
    BY <2>1, <2>2, <2>3
<1>6. ASSUME NEW w \in Worker, ClaimDelivery(w) PROVE DeadLettersHaveCauses'
  BY <1>6 DEF ClaimDelivery, Goto, ClaimableDelivery
<1>7. ASSUME NEW w \in Worker, ReadDelivery(w) PROVE DeadLettersHaveCauses'
  BY <1>7 DEF ReadDelivery, Goto
<1>8. ASSUME NEW w \in Worker, Suppress(w) PROVE DeadLettersHaveCauses'
  BY <1>8 DEF Suppress, FinishDelivery, Leave
<1>9. ASSUME NEW w \in Worker, Postpone(w) PROVE DeadLettersHaveCauses'
  BY <1>9 DEF Postpone, FinishDelivery, Leave
<1>10. ASSUME NEW w \in Worker, SendSucceeds(w) PROVE DeadLettersHaveCauses'
  BY <1>10 DEF SendSucceeds, Goto
<1>11. ASSUME NEW w \in Worker, SendFails(w) PROVE DeadLettersHaveCauses'
  BY <1>11 DEF SendFails, Goto
<1>12. ASSUME NEW w \in Worker, MarkDelivered(w) PROVE DeadLettersHaveCauses'
  BY <1>12 DEF MarkDelivered, FinishDelivery, Goto, Leave
<1>13. ASSUME NEW w \in Worker, FileMail(w) PROVE DeadLettersHaveCauses'
  BY <1>13 DEF FileMail, Leave
<1>14. ASSUME NEW w \in Worker, GiveUpOrRetry(w) PROVE DeadLettersHaveCauses'
  <2>1. cur[w] \in Listens /\ UNCHANGED <<attempts, callbacks>>
    BY <1>14 DEF GiveUpOrRetry, FinishDelivery
  <2>2. \A x \in Listens : status'[x] = "dead_letter" =>
          status[x] = "dead_letter" \/ (x = cur[w] /\ seen[w] >= AttemptLimit)
    BY <1>14, <2>1 DEF GiveUpOrRetry, FinishDelivery
  <2>3. seen[w] >= AttemptLimit => attempts[cur[w]] = AttemptLimit
    <3>1. seen[w] <= attempts[cur[w]]
      BY <1>14 DEF GiveUpOrRetry
    <3>2. attempts[cur[w]] \in 0..AttemptLimit /\ seen[w] \in 0..AttemptLimit
      BY <2>1
    <3>3. AttemptLimit \in Nat
      OBVIOUS
    <3> HIDE DEF TypeOK, WorkerInv, DeadLettersHaveCauses
    <3> QED
      BY <3>1, <3>2, <3>3
  <2> QED
    BY <2>1, <2>2, <2>3
<1>15. ASSUME NEW w \in Worker, StoreError(w) PROVE DeadLettersHaveCauses'
  BY <1>15 DEF StoreError, Fault, Goto
<1>16. ASSUME NEW w \in Worker, Abandon(w) PROVE DeadLettersHaveCauses'
  BY <1>16 DEF Abandon, Fault, Leave
<1>17. CASE UNCHANGED vars
  BY <1>17 DEF vars
<1> QED
  BY <1>1, <1>2, <1>3, <1>4, <1>5, <1>6, <1>7, <1>8, <1>9, <1>10, <1>11, <1>12, <1>13, <1>14, <1>15, <1>16, <1>17, NextSteps
-----------------------------------------------------------------------------
(* The counts. *)

\* The sends and claims to come of delivery d stay as many.
SameCounts(d) ==
  /\ Cardinality(ToSend(d)') = Cardinality(ToSend(d))
  /\ Cardinality(ToPutBack(d)') = Cardinality(ToPutBack(d))

\* Each step keeps both counts: a claim pays for one send, and a send taken
\* for failed or reported as failed is a reason for one more.
LEMMA NextCounts ==
  ASSUME TypeOK, TypeOK', IsFiniteSet(callbacks), IsFiniteSet(callbacks'),
         BudgetInv, ReasonInv, [Next]_vars
  PROVE  BudgetInv' /\ ReasonInv'
<1> SUFFICES ASSUME NEW d \in Listens
             PROVE  /\ sends'[d] + Cardinality(ToSend(d)') <= attempts'[d]
                    /\ sends'[d] + Cardinality(ToSend(d)') + Cardinality(ToPutBack(d)') + Open(d)'
                         <= 1 + errors'[d] + Cardinality(FailureReports(d)')
  BY DEF BudgetInv, ReasonInv
<1> DEFINE Goal ==
      /\ sends'[d] + Cardinality(ToSend(d)') <= attempts'[d]
      /\ sends'[d] + Cardinality(ToSend(d)') + Cardinality(ToPutBack(d)') + Open(d)'
           <= 1 + errors'[d] + Cardinality(FailureReports(d)')
<1>a. /\ sends[d] \in Nat /\ attempts[d] \in Nat /\ errors[d] \in Nat
      /\ Open(d) \in {0, 1} /\ Open(d)' \in {0, 1}
      /\ IsFiniteSet(FailureReports(d)) /\ Cardinality(FailureReports(d)) \in Nat
  BY ReportsFinite, ConstantsAssumption DEF TypeOK, Open, ConstantsAssumption
<1>b. /\ Cardinality(ToSend(d)) \in Nat
      /\ Cardinality(ToPutBack(d)) \in Nat
      /\ Cardinality(ToSend(d)') \in Nat
      /\ Cardinality(ToPutBack(d)') \in Nat
  BY HoldersFinite DEF ToSend, ToPutBack
<1>c. /\ sends[d] + Cardinality(ToSend(d)) <= attempts[d]
      /\ sends[d] + Cardinality(ToSend(d)) + Cardinality(ToPutBack(d)) + Open(d)
           <= 1 + errors[d] + Cardinality(FailureReports(d))
  BY DEF BudgetInv, ReasonInv
<1>d. UNCHANGED callbacks => FailureReports(d)' = FailureReports(d)
  BY DEF FailureReports
<1>e. UNCHANGED <<pc, cur>> => SameCounts(d)
  BY DEF ToSend, ToPutBack, SameCounts
<1>f. ASSUME UNCHANGED <<sends, attempts, errors, callbacks, pc, cur>>, Open(d)' = Open(d)
      PROVE  Goal
  BY <1>a, <1>b, <1>c, <1>d, <1>e, <1>f DEF SameCounts
<1>g. ASSUME NEW w \in Worker, \A v \in Worker \ {w} : pc'[v] = pc[v] /\ cur'[v] = cur[v]
      PROVE  /\ Cardinality(ToSend(d)') = Cardinality(ToSend(d))
                  + (IF cur'[w] = d /\ pc'[w] \in {"claimed", "loaded"} THEN 1 ELSE 0)
                  - (IF cur[w] = d /\ pc[w] \in {"claimed", "loaded"} THEN 1 ELSE 0)
             /\ Cardinality(ToPutBack(d)') = Cardinality(ToPutBack(d))
                  + (IF cur'[w] = d /\ pc'[w] \in {"failing"} THEN 1 ELSE 0)
                  - (IF cur[w] = d /\ pc[w] \in {"failing"} THEN 1 ELSE 0)
  <2>1. ASSUME NEW P
        PROVE  Cardinality(Holders(pc', cur', d, P)) = Cardinality(Holders(pc, cur, d, P))
                 + (IF cur'[w] = d /\ pc'[w] \in P THEN 1 ELSE 0)
                 - (IF cur[w] = d /\ pc[w] \in P THEN 1 ELSE 0)
    <3> DEFINE S == Holders(pc, cur, d, P)
               T == Holders(pc', cur', d, P)
    <3>1. IsFiniteSet(S) /\ S \ {w} = T \ {w}
      <4>1. \A v \in Worker \ {w} : pc'[v] = pc[v] /\ cur'[v] = cur[v]
        BY <1>g
      <4>2. S \ {w} = T \ {w}
        BY <4>1 DEF Holders
      <4> QED
        BY <4>2, HoldersFinite
    <3>2. /\ In(w, T) = IF cur'[w] = d /\ pc'[w] \in P THEN 1 ELSE 0
          /\ In(w, S) = IF cur[w] = d /\ pc[w] \in P THEN 1 ELSE 0
      BY DEF Holders, In
    <3>3. Cardinality(T) = Cardinality(S) + In(w, T) - In(w, S)
      <4> HIDE DEF S, T
      <4> QED
        BY <3>1, OneApart
    <3> QED
      BY <3>2, <3>3
  <2> QED
    BY <2>1 DEF ToSend, ToPutBack
<1>1. ASSUME NEW e \in Event, Register(e) PROVE Goal
  BY <1>1, <1>f DEF Register, Open, rowVars, workerVars
<1>2. ASSUME NEW e \in Event, Expand(e) PROVE Goal
  <2>1. Open(d)' = Open(d)
    BY <1>2 DEF Expand, Open, TypeOK
  <2> QED
    BY <1>2, <2>1, <1>f DEF Expand, workerVars
<1>3. ASSUME NEW s \in Subscription, ToggleSubscription(s) PROVE Goal
  BY <1>3, <1>f DEF ToggleSubscription, Open, rowVars, workerVars
<1>4. ASSUME NEW x \in Listens, ComesDue(x) PROVE Goal
  BY <1>4, <1>f DEF ComesDue, Open, workerVars
<1>5. ASSUME UNCHANGED vars PROVE Goal
  BY <1>5, <1>f DEF vars, Open, rowVars, workerVars
<1>6. ASSUME NEW x \in Listens, NEW k \in 1..AttemptLimit, NEW type \in Reports,
             NEW id \in ReportId, ReceiveReport(x, k, type, id)
      PROVE Goal
  <2> DEFINE c == [id |-> id, delivery |-> x, message |-> k, type |-> type, processed |-> message[x] = k]
  <2>1. /\ callbacks' = callbacks \cup {c}
        /\ UNCHANGED <<sends, attempts, errors, pc, cur>>
    BY <1>6 DEF ReceiveReport, workerVars
  <2>2. CASE x = d /\ type = "failed" /\ message[d] = k
    <3>1. c \notin callbacks
      BY <1>6 DEF ReceiveReport
    <3>2. c.delivery = d /\ c.type = "failed" /\ c.processed
      BY <2>2
    <3>3. FailureReports(d)' = FailureReports(d) \cup {c} /\ c \notin FailureReports(d)
      <4> HIDE DEF c
      <4> QED
        BY <2>1, <3>1, <3>2 DEF FailureReports
    <3>4. Cardinality(FailureReports(d)') = Cardinality(FailureReports(d)) + 1
      <4> HIDE DEF c
      <4> QED
        BY <1>a, <3>3, FS_AddElement
    <3> QED
      BY <1>a, <1>b, <1>c, <1>e, <2>1, <3>4 DEF SameCounts
  <2>3. CASE ~ (x = d /\ type = "failed" /\ message[d] = k)
    <3>1. ~ (c.delivery = d /\ c.type = "failed" /\ c.processed)
      BY <2>3
    <3>2. FailureReports(d)' = FailureReports(d)
      <4> HIDE DEF c
      <4> QED
        BY <2>1, <3>1 DEF FailureReports
    <3>3. Open(d)' <= Open(d)
      BY <1>6, <2>3, ConstantsAssumption DEF ReceiveReport, Open, Meaning, TypeOK, ConstantsAssumption
    <3> QED
      BY <1>a, <1>b, <1>c, <1>e, <2>1, <3>2, <3>3 DEF SameCounts
  <2> QED
    BY <2>2, <2>3
<1>7. ASSUME NEW w \in Worker, ClaimDelivery(w) PROVE Goal
  <2>1. PICK x \in Listens : /\ ClaimableDelivery(x)
                             /\ status' = [status EXCEPT ![x] = "sending"]
                             /\ attempts' = [attempts EXCEPT ![x] = @ + 1]
                             /\ cur' = [cur EXCEPT ![w] = x]
    BY <1>7 DEF ClaimDelivery
  <2>2. /\ pc[w] = "idle" /\ pc'[w] = "claimed" /\ cur'[w] = x
        /\ \A v \in Worker \ {w} : pc'[v] = pc[v] /\ cur'[v] = cur[v]
    BY <1>7, <2>1 DEF ClaimDelivery, Goto, TypeOK
  <2>3. /\ Cardinality(ToSend(d)') = Cardinality(ToSend(d)) + (IF x = d THEN 1 ELSE 0)
        /\ Cardinality(ToPutBack(d)') = Cardinality(ToPutBack(d))
    BY <2>1, <2>2, <1>b, <1>g, ConstantsAssumption DEF ConstantsAssumption
  <2>4. /\ attempts'[d] = attempts[d] + (IF x = d THEN 1 ELSE 0)
        /\ Open(d)' = Open(d) - (IF x = d THEN 1 ELSE 0)
    BY <2>1, <1>a DEF Open, ClaimableDelivery, TypeOK
  <2>5. UNCHANGED <<sends, errors, callbacks>>
    BY <1>7 DEF ClaimDelivery
  <2> QED
    BY <1>a, <1>b, <1>c, <1>d, <2>3, <2>4, <2>5
<1>8. ASSUME NEW w \in Worker, ReadDelivery(w) PROVE Goal
  <2>1. cur[w] \in Listens /\ pc[w] = "claimed"
    BY <1>8 DEF ReadDelivery, TypeOK
  <2>2. /\ pc'[w] = "loaded" /\ cur'[w] = cur[w]
        /\ \A v \in Worker \ {w} : pc'[v] = pc[v] /\ cur'[v] = cur[v]
    BY <1>8 DEF ReadDelivery, Goto, TypeOK
  <2>3. /\ Cardinality(ToSend(d)') = Cardinality(ToSend(d))
        /\ Cardinality(ToPutBack(d)') = Cardinality(ToPutBack(d))
    BY <2>1, <2>2, <1>b, <1>g, ConstantsAssumption DEF ConstantsAssumption
  <2>4. UNCHANGED <<sends, attempts, errors, callbacks>> /\ Open(d)' = Open(d)
    BY <1>8, <2>1 DEF ReadDelivery, Goto, TypeOK, Open, rowVars
  <2> QED
    BY <1>a, <1>b, <1>c, <1>d, <2>3, <2>4
<1>9. ASSUME NEW w \in Worker, Suppress(w) PROVE Goal
  <2>1. cur[w] \in Listens /\ pc[w] = "loaded"
    BY <1>9 DEF Suppress, TypeOK
  <2>2. /\ pc'[w] = "idle" /\ cur'[w] = None
        /\ \A v \in Worker \ {w} : pc'[v] = pc[v] /\ cur'[v] = cur[v]
    BY <1>9 DEF Suppress, FinishDelivery, Leave, TypeOK
  <2>3. /\ Cardinality(ToSend(d)') = Cardinality(ToSend(d)) - (IF cur[w] = d THEN 1 ELSE 0)
        /\ Cardinality(ToPutBack(d)') = Cardinality(ToPutBack(d))
    BY <2>1, <2>2, <1>b, <1>g, ConstantsAssumption DEF ConstantsAssumption
  <2>4. UNCHANGED <<sends, attempts, errors, callbacks>> /\ Open(d)' <= Open(d)
    BY <1>9, <2>1 DEF Suppress, FinishDelivery, Leave, TypeOK, Open, rowVars
  <2> QED
    BY <1>a, <1>b, <1>c, <1>d, <2>3, <2>4
<1>10. ASSUME NEW w \in Worker, Postpone(w) PROVE Goal
  <2>1. cur[w] \in Listens /\ pc[w] = "loaded"
    BY <1>10 DEF Postpone, TypeOK
  <2>2. /\ pc'[w] = "idle" /\ cur'[w] = None
        /\ \A v \in Worker \ {w} : pc'[v] = pc[v] /\ cur'[v] = cur[v]
    BY <1>10 DEF Postpone, FinishDelivery, Leave, TypeOK
  <2>3. /\ Cardinality(ToSend(d)') = Cardinality(ToSend(d)) - (IF cur[w] = d THEN 1 ELSE 0)
        /\ Cardinality(ToPutBack(d)') = Cardinality(ToPutBack(d))
    BY <2>1, <2>2, <1>b, <1>g, ConstantsAssumption DEF ConstantsAssumption
  <2>4. UNCHANGED <<sends, attempts, errors, callbacks>> /\ (cur[w] # d => Open(d)' = Open(d))
    BY <1>10, <2>1 DEF Postpone, FinishDelivery, Leave, TypeOK, Open, rowVars
  <2> QED
    BY <1>a, <1>b, <1>c, <1>d, <2>3, <2>4
<1>11. ASSUME NEW w \in Worker, SendSucceeds(w) PROVE Goal
  <2>1. cur[w] \in Listens /\ pc[w] = "loaded"
    BY <1>11 DEF SendSucceeds, TypeOK
  <2>2. /\ pc'[w] = "sent" /\ cur'[w] = cur[w]
        /\ \A v \in Worker \ {w} : pc'[v] = pc[v] /\ cur'[v] = cur[v]
    BY <1>11 DEF SendSucceeds, Goto, TypeOK
  <2>3. /\ Cardinality(ToSend(d)') = Cardinality(ToSend(d)) - (IF cur[w] = d THEN 1 ELSE 0)
        /\ Cardinality(ToPutBack(d)') = Cardinality(ToPutBack(d))
    BY <2>1, <2>2, <1>b, <1>g, ConstantsAssumption DEF ConstantsAssumption
  <2>4. /\ UNCHANGED <<attempts, errors, callbacks>> /\ Open(d)' = Open(d)
        /\ sends'[d] = sends[d] + (IF cur[w] = d THEN 1 ELSE 0)
    BY <1>11, <2>1 DEF SendSucceeds, Goto, TypeOK, Open, rowVars
  <2> QED
    BY <1>a, <1>b, <1>c, <1>d, <2>3, <2>4
<1>12. ASSUME NEW w \in Worker, SendFails(w) PROVE Goal
  <2>1. cur[w] \in Listens /\ pc[w] = "loaded"
    BY <1>12 DEF SendFails, TypeOK
  <2>2. /\ pc'[w] = "failing" /\ cur'[w] = cur[w]
        /\ \A v \in Worker \ {w} : pc'[v] = pc[v] /\ cur'[v] = cur[v]
    BY <1>12 DEF SendFails, Goto, TypeOK
  <2>3. /\ Cardinality(ToSend(d)') = Cardinality(ToSend(d)) - (IF cur[w] = d THEN 1 ELSE 0)
        /\ Cardinality(ToPutBack(d)') = Cardinality(ToPutBack(d)) + (IF cur[w] = d THEN 1 ELSE 0)
    BY <2>1, <2>2, <1>b, <1>g, ConstantsAssumption DEF ConstantsAssumption
  <2>4. /\ UNCHANGED <<attempts, callbacks>> /\ Open(d)' = Open(d)
        /\ sends'[d] <= sends[d] + (IF cur[w] = d THEN 1 ELSE 0) /\ sends'[d] \in Nat
        /\ errors'[d] = errors[d] + (IF cur[w] = d THEN 1 ELSE 0)
    BY <1>12, <2>1 DEF SendFails, Goto, TypeOK, Open, rowVars
  <2> QED
    BY <1>a, <1>b, <1>c, <1>d, <2>3, <2>4
<1>13. ASSUME NEW w \in Worker, MarkDelivered(w) PROVE Goal
  <2>1. cur[w] \in Listens /\ pc[w] = "sent"
    BY <1>13 DEF MarkDelivered, TypeOK
  <2>2. PICK p \in {"filing", "idle"}, c \in {cur[w], None} :
           /\ pc'[w] = p /\ cur'[w] = c
           /\ \A v \in Worker \ {w} : pc'[v] = pc[v] /\ cur'[v] = cur[v]
    BY <1>13 DEF MarkDelivered, Goto, Leave, TypeOK
  <2>3. SameCounts(d)
    BY <2>1, <2>2, <1>b, <1>g, ConstantsAssumption DEF ConstantsAssumption, SameCounts
  <2>4. UNCHANGED <<sends, attempts, errors, callbacks>> /\ Open(d)' <= Open(d)
    BY <1>13, <2>1 DEF MarkDelivered, FinishDelivery, TypeOK, Open
  <2> QED
    BY <1>a, <1>b, <1>c, <1>d, <2>3, <2>4 DEF SameCounts
<1>14. ASSUME NEW w \in Worker, FileMail(w) PROVE Goal
  <2>1. cur[w] \in Listens /\ pc[w] = "filing"
    BY <1>14 DEF FileMail, TypeOK
  <2>2. /\ pc'[w] = "idle" /\ cur'[w] = None
        /\ \A v \in Worker \ {w} : pc'[v] = pc[v] /\ cur'[v] = cur[v]
    BY <1>14 DEF FileMail, Leave, TypeOK
  <2>3. /\ Cardinality(ToSend(d)') = Cardinality(ToSend(d))
        /\ Cardinality(ToPutBack(d)') = Cardinality(ToPutBack(d))
    BY <2>1, <2>2, <1>b, <1>g, ConstantsAssumption DEF ConstantsAssumption
  <2>4. UNCHANGED <<sends, attempts, errors, callbacks>> /\ Open(d)' = Open(d)
    BY <1>14, <2>1 DEF FileMail, Leave, TypeOK, Open, rowVars
  <2> QED
    BY <1>a, <1>b, <1>c, <1>d, <2>3, <2>4
<1>15. ASSUME NEW w \in Worker, GiveUpOrRetry(w) PROVE Goal
  <2>1. cur[w] \in Listens /\ pc[w] = "failing"
    BY <1>15 DEF GiveUpOrRetry, TypeOK
  <2>2. /\ pc'[w] = "idle" /\ cur'[w] = None
        /\ \A v \in Worker \ {w} : pc'[v] = pc[v] /\ cur'[v] = cur[v]
    BY <1>15 DEF GiveUpOrRetry, FinishDelivery, Leave, TypeOK
  <2>3. /\ Cardinality(ToSend(d)') = Cardinality(ToSend(d))
        /\ Cardinality(ToPutBack(d)') = Cardinality(ToPutBack(d)) - (IF cur[w] = d THEN 1 ELSE 0)
    BY <2>1, <2>2, <1>b, <1>g, ConstantsAssumption DEF ConstantsAssumption
  <2>4. UNCHANGED <<sends, attempts, errors, callbacks>> /\ (cur[w] # d => Open(d)' = Open(d))
    BY <1>15, <2>1 DEF GiveUpOrRetry, FinishDelivery, Leave, TypeOK, Open, rowVars
  <2> QED
    BY <1>a, <1>b, <1>c, <1>d, <2>3, <2>4
<1>16. ASSUME NEW w \in Worker, StoreError(w) PROVE Goal
  <2>1. cur[w] \in Listens /\ pc[w] \in {"sent", "filing"}
    BY <1>16 DEF StoreError, TypeOK
  <2>2. /\ pc'[w] = "failing" /\ cur'[w] = cur[w]
        /\ \A v \in Worker \ {w} : pc'[v] = pc[v] /\ cur'[v] = cur[v]
    BY <1>16 DEF StoreError, Goto, TypeOK
  <2>3. /\ Cardinality(ToSend(d)') = Cardinality(ToSend(d))
        /\ Cardinality(ToPutBack(d)') = Cardinality(ToPutBack(d)) + (IF cur[w] = d THEN 1 ELSE 0)
    BY <2>1, <2>2, <1>b, <1>g, ConstantsAssumption DEF ConstantsAssumption
  <2>4. /\ UNCHANGED <<sends, attempts, callbacks>> /\ Open(d)' = Open(d)
        /\ errors'[d] = errors[d] + (IF cur[w] = d THEN 1 ELSE 0)
    BY <1>16, <2>1 DEF StoreError, Goto, TypeOK, Open, rowVars
  <2> QED
    BY <1>a, <1>b, <1>c, <1>d, <2>3, <2>4
<1>17. ASSUME NEW w \in Worker, Abandon(w) PROVE Goal
  <2>1. /\ pc'[w] = "idle" /\ cur'[w] = None
        /\ \A v \in Worker \ {w} : pc'[v] = pc[v] /\ cur'[v] = cur[v]
    BY <1>17 DEF Abandon, Leave, TypeOK
  <2>2. /\ Cardinality(ToSend(d)') <= Cardinality(ToSend(d))
        /\ Cardinality(ToPutBack(d)') <= Cardinality(ToPutBack(d))
    BY <2>1, <1>b, <1>g, ConstantsAssumption DEF ConstantsAssumption
  <2>3. UNCHANGED <<sends, attempts, errors, callbacks>> /\ Open(d)' = Open(d)
    BY <1>17 DEF Abandon, rowVars, Open
  <2> QED
    BY <1>a, <1>b, <1>c, <1>d, <2>2, <2>3
<1> QED
  BY <1>1, <1>2, <1>3, <1>4, <1>5, <1>6, <1>7, <1>8, <1>9, <1>10, <1>11, <1>12, <1>13, <1>14, <1>15, <1>16, <1>17, NextSteps
-----------------------------------------------------------------------------
(* The theorems. *)

LEMMA InitIInv == Init => IInv
<1> SUFFICES ASSUME Init PROVE IInv
  OBVIOUS
<1> USE ConstantsAssumption DEF Init, ConstantsAssumption
<1>1. TypeOK
  BY DEF TypeOK, DeliveryStatus, Settled
<1>2. IsFiniteSet(callbacks)
  BY FS_EmptySet
<1>3. WorkerInv /\ DeliveredNamesItsMessage /\ DeadLettersHaveCauses
  BY DEF WorkerInv, DeliveredNamesItsMessage, DeadLettersHaveCauses
<1>4. ASSUME NEW d \in Listens
      PROVE  ToSend(d) = {} /\ ToPutBack(d) = {} /\ FailureReports(d) = {} /\ Open(d) = 1
  BY DEF ToSend, ToPutBack, Holders, FailureReports, Open
<1>5. ASSUME NEW d \in Listens
      PROVE  /\ sends[d] + Cardinality(ToSend(d)) <= attempts[d]
             /\ sends[d] + Cardinality(ToSend(d)) + Cardinality(ToPutBack(d)) + Open(d)
                  <= 1 + errors[d] + Cardinality(FailureReports(d))
  <2>1. Cardinality({}) = 0
    BY FS_EmptySet
  <2>2. sends[d] = 0 /\ attempts[d] = 0 /\ errors[d] = 0
    OBVIOUS
  <2>3. ToSend(d) = {} /\ ToPutBack(d) = {} /\ FailureReports(d) = {} /\ Open(d) = 1
    BY <1>4
  <2> QED
    BY <2>1, <2>2, <2>3
<1>6. BudgetInv /\ ReasonInv
  BY <1>5 DEF BudgetInv, ReasonInv
<1> QED
  BY <1>1, <1>2, <1>3, <1>6 DEF IInv

LEMMA NextIInv == IInv /\ [Next]_vars => IInv'
<1> SUFFICES ASSUME IInv, [Next]_vars PROVE IInv'
  OBVIOUS
<1>1. TypeOK' /\ IsFiniteSet(callbacks')
  BY NextTypeOK, NextFinite DEF IInv
<1>2. WorkerInv' /\ DeliveredNamesItsMessage' /\ DeadLettersHaveCauses'
  BY NextWorkerInv, NextDelivered, NextDeadLetters DEF IInv
<1>3. BudgetInv' /\ ReasonInv'
  BY <1>1, NextCounts DEF IInv
<1> QED
  BY <1>1, <1>2, <1>3 DEF IInv

\* The inductive invariant holds in every behaviour of the delivery worker.
THEOREM Invariance == Spec => []IInv
BY InitIInv, NextIInv, PTL DEF Spec

\* Rows, reports and workers keep their types.
THEOREM TypeCorrect == Spec => []TypeOK
<1>1. IInv => TypeOK
  BY DEF IInv
<1> QED
  BY <1>1, Invariance, PTL

\* No delivery is sent more often than its attempts allow.
THEOREM SendsWithinBudget == Spec => []SendBudget
<1>1. IInv => SendBudget
  <2> SUFFICES ASSUME IInv, NEW d \in Listens
               PROVE  sends[d] <= attempts[d] /\ attempts[d] <= AttemptLimit
    BY DEF SendBudget
  <2>1. Cardinality(ToSend(d)) \in Nat
    BY HoldersFinite DEF ToSend
  <2>2. sends[d] \in Nat /\ attempts[d] \in 0..AttemptLimit /\ AttemptLimit \in Nat
    BY ConstantsAssumption DEF IInv, TypeOK, ConstantsAssumption
  <2>3. sends[d] + Cardinality(ToSend(d)) <= attempts[d]
    BY DEF IInv, BudgetInv
  <2> QED
    BY <2>1, <2>2, <2>3
<1> QED
  BY <1>1, Invariance, PTL

\* A message is repeated only for a send taken for failed or a failure that
\* the provider reported, once for each.
THEOREM RepeatsHaveReasons == Spec => []ResendsHaveReasons
<1>1. IInv => ResendsHaveReasons
  <2> SUFFICES ASSUME IInv, NEW d \in Listens
               PROVE  sends[d] <= 1 + errors[d] + Cardinality(FailureReports(d))
    BY DEF ResendsHaveReasons
  <2>1. Cardinality(ToSend(d)) \in Nat /\ Cardinality(ToPutBack(d)) \in Nat
    BY HoldersFinite DEF ToSend, ToPutBack
  <2>2. sends[d] \in Nat /\ errors[d] \in Nat /\ Cardinality(FailureReports(d)) \in Nat
    BY ReportsFinite DEF IInv, TypeOK
  <2>3. Open(d) \in {0, 1}
    BY DEF Open
  <2>4. sends[d] + Cardinality(ToSend(d)) + Cardinality(ToPutBack(d)) + Open(d)
          <= 1 + errors[d] + Cardinality(FailureReports(d))
    BY DEF IInv, ReasonInv
  <2> QED
    BY <2>1, <2>2, <2>3, <2>4
<1> QED
  BY <1>1, Invariance, PTL

\* A delivered row names a message its provider took.
THEOREM DeliveredIsNamed == Spec => []DeliveredNamesItsMessage
<1>1. IInv => DeliveredNamesItsMessage
  BY DEF IInv
<1> QED
  BY <1>1, Invariance, PTL

\* A dead letter has used up its attempts or has bounced.
THEOREM DeadLettersExplained == Spec => []DeadLettersHaveCauses
<1>1. IInv => DeadLettersHaveCauses
  BY DEF IInv
<1> QED
  BY <1>1, Invariance, PTL

-----------------------------------------------------------------------------
(* Where providers report no failures after the fact. *)

\* A claim takes a delivery nobody works on, and only its worker opens it to
\* claims again; a late report of a failure would open it as well.
LEMMA NextHands ==
  ASSUME "failed" \notin Reports
  PROVE  TypeOK /\ HandInv /\ [Next]_vars => HandInv'
<1> SUFFICES ASSUME TypeOK, HandInv, [Next]_vars PROVE HandInv'
  OBVIOUS
<1> USE ConstantsAssumption DEF ConstantsAssumption, TypeOK, HandInv, rowVars, workerVars
<1>1. ASSUME NEW e \in Event, Register(e) PROVE HandInv'
  BY <1>1 DEF Register
<1>2. ASSUME NEW e \in Event, Expand(e) PROVE HandInv'
  BY <1>2 DEF Expand
<1>3. ASSUME NEW s \in Subscription, ToggleSubscription(s) PROVE HandInv'
  BY <1>3 DEF ToggleSubscription
<1>4. ASSUME NEW d \in Listens, ComesDue(d) PROVE HandInv'
  BY <1>4 DEF ComesDue
<1>5. ASSUME NEW d \in Listens, NEW n \in 1..AttemptLimit, NEW type \in Reports,
       NEW id \in ReportId, ReceiveReport(d, n, type, id) PROVE HandInv'
  BY <1>5 DEF ReceiveReport, Meaning
<1>6. ASSUME NEW w \in Worker, ClaimDelivery(w) PROVE HandInv'
  BY <1>6 DEF ClaimDelivery, ClaimableDelivery, Goto
<1>7. ASSUME NEW w \in Worker, ReadDelivery(w) PROVE HandInv'
  BY <1>7 DEF ReadDelivery, Goto
<1>8. ASSUME NEW w \in Worker, Suppress(w) PROVE HandInv'
  BY <1>8 DEF Suppress, FinishDelivery, Leave
<1>9. ASSUME NEW w \in Worker, Postpone(w) PROVE HandInv'
  BY <1>9 DEF Postpone, FinishDelivery, Leave
<1>10. ASSUME NEW w \in Worker, SendSucceeds(w) \/ SendFails(w) PROVE HandInv'
  <2>1. /\ pc[w] = "loaded"
        /\ \E p \in {"sent", "failing"} : pc' = [pc EXCEPT ![w] = p]
        /\ UNCHANGED <<status, attempts, cur, seen>>
    BY <1>10 DEF SendSucceeds, SendFails, Goto
  <2> QED
    BY <2>1
<1>11. ASSUME NEW w \in Worker, MarkDelivered(w) PROVE HandInv'
  <2>1. /\ pc[w] = "sent"
        /\ status' = [status EXCEPT ![cur[w]] = "delivered"]
        /\ UNCHANGED attempts
    BY <1>11 DEF MarkDelivered, FinishDelivery
  <2>2. CASE Goto(w, "filing") /\ UNCHANGED <<cur, seen>>
    BY <2>1, <2>2 DEF Goto
  <2>3. CASE Leave(w)
    BY <2>1, <2>3 DEF Leave
  <2> QED
    BY <1>11, <2>2, <2>3 DEF MarkDelivered
<1>12. ASSUME NEW w \in Worker, FileMail(w) PROVE HandInv'
  BY <1>12 DEF FileMail, Leave
<1>13. ASSUME NEW w \in Worker, GiveUpOrRetry(w) PROVE HandInv'
  BY <1>13 DEF GiveUpOrRetry, FinishDelivery, Leave
<1>14. ASSUME NEW w \in Worker, StoreError(w) \/ Abandon(w) PROVE HandInv'
  <2>1. UNCHANGED <<status, attempts>>
    BY <1>14 DEF StoreError, Abandon
  <2>2. CASE StoreError(w)
    BY <2>1, <2>2 DEF StoreError, Goto
  <2>3. CASE Abandon(w)
    BY <2>1, <2>3 DEF Abandon, Leave
  <2> QED
    BY <1>14, <2>2, <2>3
<1>15. CASE UNCHANGED vars
  BY <1>15 DEF vars
<1> QED
  BY <1>1, <1>2, <1>3, <1>4, <1>5, <1>6, <1>7, <1>8, <1>9, <1>10, <1>11, <1>12, <1>13, <1>14, <1>15, NextSteps

\* What is put back as failed has attempts left.
LEMMA NextRetried ==
  ASSUME "failed" \notin Reports, ~QuietHours
  PROVE  TypeOK /\ HandInv /\ FailedIsRetried /\ [Next]_vars => FailedIsRetried'
<1> SUFFICES ASSUME TypeOK, HandInv, FailedIsRetried, [Next]_vars PROVE FailedIsRetried'
  OBVIOUS
<1> USE ConstantsAssumption DEF ConstantsAssumption, TypeOK, FailedIsRetried, rowVars, workerVars
<1>1. ASSUME NEW e \in Event, Register(e) PROVE FailedIsRetried'
  BY <1>1 DEF Register
<1>2. ASSUME NEW e \in Event, Expand(e) PROVE FailedIsRetried'
  BY <1>2 DEF Expand
<1>3. ASSUME NEW s \in Subscription, ToggleSubscription(s) PROVE FailedIsRetried'
  BY <1>3 DEF ToggleSubscription
<1>4. ASSUME NEW d \in Listens, ComesDue(d) PROVE FailedIsRetried'
  BY <1>4 DEF ComesDue
<1>5. ASSUME NEW d \in Listens, NEW n \in 1..AttemptLimit, NEW type \in Reports,
       NEW id \in ReportId, ReceiveReport(d, n, type, id) PROVE FailedIsRetried'
  BY <1>5 DEF ReceiveReport, Meaning
<1>6. ASSUME NEW w \in Worker, ClaimDelivery(w) PROVE FailedIsRetried'
  BY <1>6 DEF ClaimDelivery, ClaimableDelivery, Goto
<1>7. ASSUME NEW w \in Worker, ReadDelivery(w) PROVE FailedIsRetried'
  BY <1>7 DEF ReadDelivery, Goto
<1>8. ASSUME NEW w \in Worker, Suppress(w) PROVE FailedIsRetried'
  BY <1>8 DEF Suppress, FinishDelivery, Leave
<1>9. ASSUME NEW w \in Worker, Postpone(w) PROVE FailedIsRetried'
  BY <1>9 DEF Postpone, FinishDelivery, Leave
<1>10. ASSUME NEW w \in Worker, SendSucceeds(w) \/ SendFails(w) PROVE FailedIsRetried'
  BY <1>10 DEF SendSucceeds, SendFails, Goto
<1>11. ASSUME NEW w \in Worker, MarkDelivered(w) PROVE FailedIsRetried'
  BY <1>11 DEF MarkDelivered, FinishDelivery, Goto, Leave
<1>12. ASSUME NEW w \in Worker, FileMail(w) PROVE FailedIsRetried'
  BY <1>12 DEF FileMail, Leave
<1>13. ASSUME NEW w \in Worker, GiveUpOrRetry(w) PROVE FailedIsRetried'
  BY <1>13 DEF HandInv, GiveUpOrRetry, FinishDelivery, Leave
<1>14. ASSUME NEW w \in Worker, StoreError(w) \/ Abandon(w) PROVE FailedIsRetried'
  BY <1>14 DEF StoreError, Abandon, Fault, Goto, Leave
<1>15. CASE UNCHANGED vars
  BY <1>15 DEF vars
<1> QED
  BY <1>1, <1>2, <1>3, <1>4, <1>5, <1>6, <1>7, <1>8, <1>9, <1>10, <1>11, <1>12, <1>13, <1>14, <1>15, NextSteps

\* Deliveries in the workers' hands, as long as no provider reports a failure.
LEMMA HandInvariance ==
  ASSUME "failed" \notin Reports
  PROVE  Spec => []HandInv
<1>1. Init => HandInv
  BY DEF Init, HandInv
<1>2. TypeOK /\ HandInv /\ [Next]_vars => HandInv'
  BY NextHands
<1> QED
  BY <1>1, <1>2, TypeCorrect, PTL DEF Spec

\* A delivery is in one worker's hands at a time, through store errors, crashes
\* and quiet hours, unless its provider reports a failure while the worker is
\* still about to file the mail or to put it back.
THEOREM OneWorkerPerDelivery ==
  ASSUME "failed" \notin Reports
  PROVE  Spec => [](\A v, w \in Worker :
                      pc[v] # "idle" /\ pc[w] # "idle" /\ cur[v] = cur[w] => v = w)
<1>1. HandInv => \A v, w \in Worker :
                   pc[v] # "idle" /\ pc[w] # "idle" /\ cur[v] = cur[w] => v = w
  BY DEF HandInv
<1> QED
  BY <1>1, HandInvariance, PTL

\* Quiet hours and failures reported by the provider are all that leaves a
\* delivery failed with no attempt to come: without them, what a worker puts
\* back at the limit is a dead letter, as the runbook says.
THEOREM FailuresAreRetried ==
  ASSUME "failed" \notin Reports, ~QuietHours
  PROVE  Spec => []FailedIsRetried
<1>1. Init => FailedIsRetried
  BY DEF Init, FailedIsRetried
<1>2. TypeOK /\ HandInv /\ FailedIsRetried /\ [Next]_vars => FailedIsRetried'
  BY NextRetried
<1> QED
  BY <1>1, <1>2, TypeCorrect, HandInvariance, PTL DEF Spec
=============================================================================
