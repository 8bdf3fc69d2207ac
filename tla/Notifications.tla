--------------------------- MODULE Notifications ---------------------------
(***************************************************************************)
(* The outbox and the notification deliveries of                           *)
(* backend/platform/automation: events are expanded into one delivery per  *)
(* subscription, workers send them through process_notifications_once, and *)
(* providers report back about the messages they were handed.              *)
(*                                                                         *)
(* Every store call is one transaction and one action.  A claim leaves no  *)
(* lease: the status "sending" alone keeps other workers away, and a       *)
(* provider's report may change that status at any time.                   *)
(*                                                                         *)
(* A message is named by its delivery and the number of the send, as       *)
(* X-Request-Id and Message-ID name it.  Filters and quiet hours depend on *)
(* edits and on the clock: whether they apply is a choice.                 *)
(***************************************************************************)
EXTENDS Integers, FiniteSets

CONSTANTS
  Event, Subscription, Worker,
  Listens,         \* pairs <<s, e>>: s subscribes to the type of e
  Recorded,        \* subscriptions whose mails are filed after the send
  None,            \* a worker without a delivery
  AttemptLimit,    \* 5 in the code
  Reports,         \* types of provider reports that may come in
  ReportId,        \* bound: provider_event_ids of the reports of a behaviour
  QuietHours,      \* whether subscriptions have quiet hours
  MaxFaults        \* bound: crashes and store errors in a behaviour

ASSUME ConstantsAssumption ==
  /\ Listens \subseteq Subscription \X Event
  /\ Recorded \subseteq Subscription
  /\ None \notin Listens
  /\ IsFiniteSet(Worker)
  /\ AttemptLimit \in Nat \ {0}
  /\ Reports \subseteq {"accepted", "delivered", "bounced", "failed"}
  /\ QuietHours \in BOOLEAN
  /\ MaxFaults \in Nat

VARIABLES
  active,      \* subscriptions that are active
  event,       \* platform_outbox_events.status; "publishing" is never committed
  status, attempts, due, message,  \* columns of a delivery's row
  callbacks,   \* platform_provider_callbacks
  sends,       \* external: messages the provider took, by delivery
  pc, cur, seen, own,  \* a worker in process_notifications_once: its delivery,
                   \* the attempt it read and the message it sent
  errors,      \* history: sends a worker took for failed, by delivery
  faults       \* how much of MaxFaults is used

rowVars == <<status, attempts, due, message>>
workerVars == <<pc, cur, seen, own>>
vars == <<active, event, rowVars, callbacks, sends, workerVars, errors, faults>>

Settled == {"delivered", "suppressed", "dead_letter"}
DeliveryStatus == {"absent", "queued", "sending", "failed"} \cup Settled
Callback == [id : ReportId, delivery : Listens, message : Nat, type : Reports,
             processed : BOOLEAN]

TypeOK ==
  /\ active \subseteq Subscription
  /\ event \in [Event -> {"absent", "pending", "published"}]
  /\ status \in [Listens -> DeliveryStatus]
  /\ attempts \in [Listens -> 0..AttemptLimit]
  /\ due \in [Listens -> BOOLEAN]
  /\ message \in [Listens -> Nat]
  /\ callbacks \subseteq Callback
  /\ sends \in [Listens -> Nat]
  /\ pc \in [Worker -> {"idle", "claimed", "loaded", "sent", "filing", "failing"}]
  /\ cur \in [Worker -> Listens \cup {None}]
  /\ \A w \in Worker : pc[w] # "idle" => cur[w] \in Listens
  /\ seen \in [Worker -> 0..AttemptLimit]
  /\ own \in [Worker -> Nat]
  /\ errors \in [Listens -> Nat]
  /\ faults \in 0..MaxFaults

Init ==
  /\ active = Subscription
  /\ event = [e \in Event |-> "absent"]
  /\ status = [d \in Listens |-> "absent"]
  /\ attempts = [d \in Listens |-> 0]
  /\ due = [d \in Listens |-> TRUE]
  /\ message = [d \in Listens |-> 0]
  /\ callbacks = {}
  /\ sends = [d \in Listens |-> 0]
  /\ pc = [w \in Worker |-> "idle"]
  /\ cur = [w \in Worker |-> None]
  /\ seen = [w \in Worker |-> 0]
  /\ own = [w \in Worker |-> 0]
  /\ errors = [d \in Listens |-> 0]
  /\ faults = 0
-----------------------------------------------------------------------------
(* Producers, subscribers and the clock. *)

\* enqueue_outbox_event under a key of its own.
Register(e) ==
  /\ event[e] = "absent"
  /\ event' = [event EXCEPT ![e] = "pending"]
  /\ UNCHANGED <<active, rowVars, callbacks, sends, workerVars, errors, faults>>

\* update_subscription and disable_subscription, as far as expansion sees
\* them; deliveries that exist already are sent regardless.
ToggleSubscription(s) ==
  /\ active' = IF s \in active THEN active \ {s} ELSE active \cup {s}
  /\ UNCHANGED <<event, rowVars, callbacks, sends, workerVars, errors, faults>>

\* next_attempt_at is reached.
ComesDue(d) ==
  /\ ~due[d]
  /\ due' = [due EXCEPT ![d] = TRUE]
  /\ UNCHANGED <<active, event, status, attempts, message, callbacks, sends,
                 workerVars, errors, faults>>

\* expand_outbox_once: one delivery for each active subscription, unless it
\* exists, in one transaction with the event's status.
Expand(e) ==
  /\ event[e] = "pending"
  /\ event' = [event EXCEPT ![e] = "published"]
  /\ status' = [d \in Listens |->
                  IF d[2] = e /\ d[1] \in active /\ status[d] = "absent"
                  THEN "queued" ELSE status[d]]
  /\ UNCHANGED <<active, attempts, due, message, callbacks, sends, workerVars,
                 errors, faults>>
-----------------------------------------------------------------------------
(* A worker's passage through process_notifications_once. *)

\* finish_delivery: the row is overwritten, whatever its status is by now.
\* m is the provider's message, 0 when the call names none.
FinishDelivery(d, s, m, isDue) ==
  /\ status' = [status EXCEPT ![d] = s]
  /\ message' = [message EXCEPT ![d] = m]
  /\ due' = [due EXCEPT ![d] = isDue]
  /\ UNCHANGED attempts

Goto(w, position) == pc' = [pc EXCEPT ![w] = position]

Leave(w) ==
  /\ pc' = [pc EXCEPT ![w] = "idle"]
  /\ cur' = [cur EXCEPT ![w] = None]
  /\ seen' = [seen EXCEPT ![w] = 0]
  /\ own' = [own EXCEPT ![w] = 0]

\* Mutant: one attempt too many.
ClaimableOnceMore(d) ==
  /\ status[d] \in {"queued", "failed"}
  /\ due[d]
  /\ attempts[d] <= AttemptLimit

\* Rows claim_delivery selects; created_at only decides who is first.
ClaimableDelivery(d) ==
  /\ status[d] \in {"queued", "failed"}
  /\ due[d]
  /\ attempts[d] < AttemptLimit

ClaimDelivery(w) ==
  /\ pc[w] = "idle"
  /\ \E d \in Listens :
       /\ ClaimableDelivery(d)
       /\ status' = [status EXCEPT ![d] = "sending"]
       /\ attempts' = [attempts EXCEPT ![d] = @ + 1]
       /\ cur' = [cur EXCEPT ![w] = d]
  /\ Goto(w, "claimed")
  /\ UNCHANGED <<active, event, due, message, callbacks, sends, seen, own, errors, faults>>

\* claim_delivery reads the row again after its transaction.
ReadDelivery(w) ==
  /\ pc[w] = "claimed"
  /\ seen' = [seen EXCEPT ![w] = attempts[cur[w]]]
  /\ Goto(w, "loaded")
  /\ UNCHANGED <<active, event, rowVars, callbacks, sends, cur, own, errors, faults>>

\* The payload does not match the subscription's filter.
Suppress(w) ==
  /\ pc[w] = "loaded"
  /\ FinishDelivery(cur[w], "suppressed", 0, TRUE)
  /\ Leave(w)
  /\ UNCHANGED <<active, event, callbacks, sends, errors, faults>>

\* Within quiet hours the delivery is put back for an hour; the attempt that
\* its claim counted stays counted.
Postpone(w) ==
  /\ QuietHours
  /\ pc[w] = "loaded"
  /\ FinishDelivery(cur[w], "failed", 0, FALSE)
  /\ Leave(w)
  /\ UNCHANGED <<active, event, callbacks, sends, errors, faults>>

\* _deliver returns: the provider has the message.
SendSucceeds(w) ==
  /\ pc[w] = "loaded"
  /\ sends' = [sends EXCEPT ![cur[w]] = @ + 1]
  /\ own' = [own EXCEPT ![w] = sends[cur[w]] + 1]
  /\ Goto(w, "sent")
  /\ UNCHANGED <<active, event, rowVars, callbacks, cur, seen, errors, faults>>

\* Mutant: a send that failed is repeated within the same claim.
SendFailsAndRepeats(w) ==
  /\ pc[w] = "loaded"
  /\ \E taken \in {0, 1} : sends' = [sends EXCEPT ![cur[w]] = @ + taken]
  /\ errors' = [errors EXCEPT ![cur[w]] = @ + 1]
  /\ sends[cur[w]] <= AttemptLimit
  /\ UNCHANGED <<active, event, rowVars, callbacks, pc, cur, seen, own, faults>>

\* _deliver raises: before the provider took the message or, when only the
\* answer is lost, after.
SendFails(w) ==
  /\ pc[w] = "loaded"
  /\ \E taken \in {0, 1} : sends' = [sends EXCEPT ![cur[w]] = @ + taken]
  /\ errors' = [errors EXCEPT ![cur[w]] = @ + 1]
  /\ Goto(w, "failing")
  /\ UNCHANGED <<active, event, rowVars, callbacks, cur, seen, own, faults>>

\* Mutant: the provider's message is not noted.
MarkDeliveredUnnamed(w) ==
  /\ pc[w] = "sent"
  /\ FinishDelivery(cur[w], "delivered", 0, TRUE)
  /\ IF cur[w][1] \in Recorded
     THEN Goto(w, "filing") /\ UNCHANGED <<cur, seen, own>>
     ELSE Leave(w)
  /\ UNCHANGED <<active, event, callbacks, sends, errors, faults>>

MarkDelivered(w) ==
  /\ pc[w] = "sent"
  /\ FinishDelivery(cur[w], "delivered", own[w], TRUE)
  /\ IF cur[w][1] \in Recorded
     THEN Goto(w, "filing") /\ UNCHANGED <<cur, seen, own>>
     ELSE Leave(w)
  /\ UNCHANGED <<active, event, callbacks, sends, errors, faults>>

\* record_email_message files the mail (ON CONFLICT DO NOTHING).
FileMail(w) ==
  /\ pc[w] = "filing"
  /\ Leave(w)
  /\ UNCHANGED <<active, event, rowVars, callbacks, sends, errors, faults>>

Fault == faults < MaxFaults /\ faults' = faults + 1

\* finish_delivery or record_email_message raises: taken for a failed send,
\* also when the delivery has been marked delivered.
StoreError(w) ==
  /\ Fault
  /\ pc[w] \in {"sent", "filing"}
  /\ errors' = [errors EXCEPT ![cur[w]] = @ + 1]
  /\ Goto(w, "failing")
  /\ UNCHANGED <<active, event, rowVars, callbacks, sends, cur, seen, own>>

\* Mutant: the last attempt is not recognised as the last.
GiveUpOrRetryTooLate(w) ==
  /\ pc[w] = "failing"
  /\ IF seen[w] > AttemptLimit
     THEN FinishDelivery(cur[w], "dead_letter", 0, TRUE)
     ELSE FinishDelivery(cur[w], "failed", 0, FALSE)
  /\ Leave(w)
  /\ UNCHANGED <<active, event, callbacks, sends, errors, faults>>

\* Mutant: one attempt is given up too early.
GiveUpTooEarly(w) ==
  /\ pc[w] = "failing"
  /\ IF seen[w] + 1 >= AttemptLimit
     THEN FinishDelivery(cur[w], "dead_letter", 0, TRUE)
     ELSE FinishDelivery(cur[w], "failed", 0, FALSE)
  /\ Leave(w)
  /\ UNCHANGED <<active, event, callbacks, sends, errors, faults>>

\* The exception branch: dead letter at the limit, else a later attempt.
GiveUpOrRetry(w) ==
  /\ pc[w] = "failing"
  /\ IF seen[w] >= AttemptLimit
     THEN FinishDelivery(cur[w], "dead_letter", 0, TRUE)
     ELSE FinishDelivery(cur[w], "failed", 0, FALSE)
  /\ Leave(w)
  /\ UNCHANGED <<active, event, callbacks, sends, errors, faults>>

\* The worker process dies, or a store call outside the try block raises:
\* the delivery stays "sending".
Abandon(w) ==
  /\ Fault
  /\ pc[w] # "idle"
  /\ Leave(w)
  /\ UNCHANGED <<active, event, rowVars, callbacks, sends, errors>>
-----------------------------------------------------------------------------
(* Providers. *)

Meaning == [accepted |-> "sending", delivered |-> "delivered",
            bounced |-> "dead_letter", failed |-> "failed"]

\* Mutant: a report is applied as often as it comes in.
ReceiveReportAgain(d, n, type, id) ==
  /\ n \in 1..sends[d]
  /\ \A c \in callbacks :
       c.id = id => c.delivery = d /\ c.message = n /\ c.type = type
  /\ callbacks' = IF \E c \in callbacks : c.id = id
                  THEN callbacks
                  ELSE callbacks \cup {[id |-> id, delivery |-> d, message |-> n,
                                        type |-> type, processed |-> message[d] = n]}
  /\ IF message[d] = n
     THEN /\ status' = [status EXCEPT ![d] = Meaning[type]]
          /\ due' = [due EXCEPT ![d] = TRUE]
     ELSE UNCHANGED <<status, due>>
  /\ UNCHANGED <<active, event, attempts, message, sends, workerVars, errors, faults>>

\* record_provider_callback: a report about message n, perhaps late or out of
\* order.  A provider may report the same thing of a message twice, as two
\* events; an event it delivers twice changes nothing, or raises when its
\* content is another.  The delivery is found by the message its row names now.
ReceiveReport(d, n, type, id) ==
  /\ n \in 1..sends[d]
  /\ ~ \E c \in callbacks : c.id = id
  /\ callbacks' = callbacks \cup {[id |-> id, delivery |-> d, message |-> n,
                                   type |-> type, processed |-> message[d] = n]}
  /\ IF message[d] = n
     THEN /\ status' = [status EXCEPT ![d] = Meaning[type]]
          /\ due' = [due EXCEPT ![d] = TRUE]
     ELSE UNCHANGED <<status, due>>
  /\ UNCHANGED <<active, event, attempts, message, sends, workerVars, errors, faults>>
-----------------------------------------------------------------------------
\* What a worker does after a claim, faults apart.
Process(w) ==
  \/ ReadDelivery(w)
  \/ Suppress(w)
  \/ Postpone(w)
  \/ SendSucceeds(w)
  \/ SendFails(w)
  \/ MarkDelivered(w)
  \/ FileMail(w)
  \/ GiveUpOrRetry(w)

Next ==
  \/ \E e \in Event : Register(e) \/ Expand(e)
  \/ \E s \in Subscription : ToggleSubscription(s)
  \/ \E d \in Listens : \/ ComesDue(d)
                        \/ \E n \in 1..AttemptLimit, type \in Reports, id \in ReportId :
                             ReceiveReport(d, n, type, id)
  \/ \E w \in Worker : \/ ClaimDelivery(w)
                       \/ Process(w)
                       \/ StoreError(w)
                       \/ Abandon(w)

Spec == Init /\ [][Next]_vars

\* run_forever calls process_notifications_once as long as the process lives,
\* sockets have timeouts, and the clock runs.
FairSpec ==
  /\ Spec
  /\ \A e \in Event : WF_vars(Expand(e))
  /\ \A d \in Listens : WF_vars(ComesDue(d))
  /\ \A w \in Worker : WF_vars(ClaimDelivery(w)) /\ WF_vars(Process(w))
-----------------------------------------------------------------------------
(* Properties. *)

\* However often workers fail and providers report, a delivery is handed to
\* its provider no more often than the attempt limit allows.
SendBudget == \A d \in Listens : sends[d] <= attempts[d] /\ attempts[d] <= AttemptLimit

FailureReports(d) ==
  {c \in callbacks : c.delivery = d /\ c.type = "failed" /\ c.processed}

\* A subscriber gets a message again only after a reason to: a send that the
\* worker took for failed, or one failure the provider reported.  A report
\* that comes in twice is no new reason.
ResendsHaveReasons ==
  \A d \in Listens :
    sends[d] <= 1 + errors[d] + Cardinality(FailureReports(d))

\* A delivered row names a message that was sent: reports can find it.
DeliveredNamesItsMessage ==
  \A d \in Listens : status[d] = "delivered" => message[d] \in 1..sends[d]

\* A delivery is a dead letter only when its attempts are used up or its
\* provider reported a bounce.
DeadLettersHaveCauses ==
  \A d \in Listens :
    status[d] = "dead_letter" =>
      \/ attempts[d] = AttemptLimit
      \/ \E c \in callbacks : c.delivery = d /\ c.type = "bounced" /\ c.processed

\* Without crashes, quiet hours and provider reports every delivery is sent,
\* suppressed or a dead letter in the end.
DeliveriesSettle ==
  \A d \in Listens : status[d] # "absent" ~> status[d] \in Settled
-----------------------------------------------------------------------------
(* What the documentation says and the code does not do. *)

\* A failed delivery is retried, and past the limit it is a dead letter: none
\* is left "failed" with no attempt to come.
FailedIsRetried ==
  \A d \in Listens : status[d] = "failed" => attempts[d] < AttemptLimit
=============================================================================
