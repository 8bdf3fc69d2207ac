------------------------------- MODULE Bridge -------------------------------
(***************************************************************************)
(* The bridge that lets an installed client (WorkBuddy, Codex, QWork) act  *)
(* for a user.  A device enrolls, somebody with the user code approves it  *)
(* in a browser, and the device polls until it gets its token; with the    *)
(* token it delivers the evidence of its operations, which becomes a       *)
(* memory candidate and an observation of the learning.  Clients repeat    *)
(* what they got no answer to.                                             *)
(*                                                                         *)
(* Approval and poll are one transaction each, under a row lock on a       *)
(* server, under the lock of the API process else; the clock is read       *)
(* before it begins.  Delivery is a lookup, a write and an observation   *)
(* in three.  One tenant, one channel; codes and verifiers are right.      *)
(***************************************************************************)
EXTENDS Users, Integers

CONSTANTS
  Device,      \* enrollments, each with the binding it may lead to
  Operation,   \* operation_id or run_id of a binding
  Content,     \* what an operation may be reported as
  Call,        \* request threads
  NoContent, NoCall

ASSUME BridgeAssumption == NoContent \notin Content

VARIABLES
  identifying,   \* a server: its stores accept active accounts only
  known,         \* users with an active account
  devices,       \* platform_bridge_enrollments and platform_bridge_bindings
  elapsed,       \* devices whose expires_at has passed
  evidence,      \* content of the memory record of each operation
  observed,      \* how often the learning has counted it
  calls,         \* what each thread does
  consents,      \* history: who was told that his approval stands
  accepted       \* history: what a client was told is accepted

bridgeVars == <<identifying, known, devices, elapsed, evidence, observed, calls, consents, accepted>>

DeviceRow == [status : {"absent", "pending", "approved", "consumed"},
              approver : User \cup {NoUser},
              tokens : Nat,                     \* bindings inserted
              holder : User \cup {NoUser},      \* user of the last one
              revoked : BOOLEAN]

Enrolling == [at : {"approving"}, device : Device, user : User] \cup
             [at : {"polling"}, device : Device]
Delivering == [at : {"looking", "writing", "observing"}, device : Device,
               operation : Operation, content : Content]

BridgeTypeOK ==
  /\ identifying \in BOOLEAN
  /\ known \subseteq User
  /\ devices \in [Device -> DeviceRow]
  /\ elapsed \subseteq Device
  /\ evidence \in [Device \X Operation -> Content \cup {NoContent}]
  /\ observed \in [Device \X Operation -> Nat]
  /\ calls \in [Call -> Enrolling \cup Delivering \cup {NoCall}]
  /\ consents \subseteq Device \X User
  /\ accepted \subseteq Device \X Operation \X Content

BridgeInit ==
  /\ identifying \in BOOLEAN
  /\ known = User
  /\ devices = [d \in Device |-> [status |-> "absent", approver |-> NoUser, tokens |-> 0,
                                  holder |-> NoUser, revoked |-> FALSE]]
  /\ elapsed = {}
  /\ evidence = [o \in Device \X Operation |-> NoContent]
  /\ observed = [o \in Device \X Operation |-> 0]
  /\ calls = [c \in Call |-> NoCall]
  /\ consents = {}
  /\ accepted = {}

\* The account of u is disabled, or enabled again.
Turn(u) ==
  /\ known' = IF u \in known THEN known \ {u} ELSE known \cup {u}
  /\ UNCHANGED <<identifying, devices, elapsed, evidence, observed, calls, consents, accepted>>

\* expires_at passes.
Elapse(d) ==
  /\ devices[d].status # "absent"
  /\ d \notin elapsed
  /\ elapsed' = elapsed \cup {d}
  /\ UNCHANGED <<identifying, known, devices, evidence, observed, calls, consents, accepted>>

Arrive(c, call) ==
  /\ calls[c] = NoCall
  /\ calls' = [calls EXCEPT ![c] = call]
  /\ UNCHANGED <<identifying, known, devices, elapsed, evidence, observed, consents, accepted>>

\* The call is over: it has answered, raised, or died with its process.
Finish(c) == calls' = [calls EXCEPT ![c] = NoCall]

Die(c) ==
  /\ calls[c] # NoCall
  /\ Finish(c)
  /\ UNCHANGED <<identifying, known, devices, elapsed, evidence, observed, consents, accepted>>

Serving(c, step) == calls[c] # NoCall /\ calls[c].at = step

\* An account the stores of this deployment accept.
Identified(u) == identifying => u \in known
-----------------------------------------------------------------------------
(* Enrollment. *)

\* start_enrollment.
Enroll(d) ==
  /\ devices[d].status = "absent"
  /\ devices' = [devices EXCEPT ![d].status = "pending"]
  /\ UNCHANGED <<identifying, known, elapsed, evidence, observed, calls, consents, accepted>>

\* A code in time: what approve_enrollment and poll_enrollment compare with the
\* clock they read first.
InTime(d) == devices[d].status # "absent" /\ d \notin elapsed

AskApproval(c, d, u) == InTime(d) /\ Arrive(c, [at |-> "approving", device |-> d, user |-> u])

Poll(c, d) == InTime(d) /\ Arrive(c, [at |-> "polling", device |-> d])

\* As MayApprove, had an approval no owner.
MayApproveAgain(d, u) == devices[d].status \in {"pending", "approved"}

\* Who may approve d: anyone while it is pending, then only who did.
MayApprove(d, u) ==
  \/ devices[d].status = "pending" /\ Identified(u)
  \/ devices[d].status = "approved" /\ devices[d].approver = u

Approve(c) ==
  LET d == calls[c].device
      u == calls[c].user
  IN
  /\ Serving(c, "approving")
  /\ IF MayApprove(d, u)
     THEN /\ devices' = [devices EXCEPT ![d].status = "approved", ![d].approver = u]
          /\ consents' = consents \cup {<<d, u>>}
     ELSE UNCHANGED <<devices, consents>>
  /\ Finish(c)
  /\ UNCHANGED <<identifying, known, elapsed, evidence, observed, accepted>>

\* The token is made and the enrollment consumed, unless it is still pending,
\* has been consumed, or its approver has no account any more.
Claim(c) ==
  LET d == calls[c].device IN
  /\ Serving(c, "polling")
  /\ devices' = IF devices[d].status = "approved" /\ Identified(devices[d].approver)
                THEN [devices EXCEPT ![d].status = "consumed", ![d].tokens = @ + 1,
                                     ![d].holder = devices[d].approver]
                ELSE devices
  /\ Finish(c)
  /\ UNCHANGED <<identifying, known, elapsed, evidence, observed, consents, accepted>>

\* revoke_binding, by the user it acts for.
Revoke(d) ==
  /\ devices[d].tokens > 0
  /\ ~devices[d].revoked
  /\ Identified(devices[d].holder)
  /\ devices' = [devices EXCEPT ![d].revoked = TRUE]
  /\ UNCHANGED <<identifying, known, elapsed, evidence, observed, calls, consents, accepted>>
-----------------------------------------------------------------------------
(* Delivery of evidence. *)

\* resolve_binding finds the token of d and nothing else.
Deliver(c, d, o, x) ==
  /\ devices[d].tokens > 0
  /\ ~devices[d].revoked
  /\ Arrive(c, [at |-> "looking", device |-> d, operation |-> o, content |-> x])

Key(c) == <<calls[c].device, calls[c].operation>>

Accept(c) == accepted' = accepted \cup {<<calls[c].device, calls[c].operation, calls[c].content>>}

\* The operation is looked up: known with this content it is accepted again,
\* known with another it is refused.
LookUp(c) ==
  /\ Serving(c, "looking")
  /\ IF evidence[Key(c)] = NoContent
     THEN calls' = [calls EXCEPT ![c].at = "writing"] /\ UNCHANGED accepted
     ELSE /\ Finish(c)
          /\ IF evidence[Key(c)] = calls[c].content THEN Accept(c) ELSE UNCHANGED accepted
  /\ UNCHANGED <<identifying, known, devices, elapsed, evidence, observed, consents>>

\* As Fresh, without a look at the memory_id.
FreshAnyway(o) == TRUE

\* No memory record of this memory_id is in the way of the INSERT.
Fresh(o) == evidence[o] = NoContent

\* create_candidate; for a record that is there by now it raises.
WriteCandidate(c) ==
  /\ Serving(c, "writing")
  /\ IF Fresh(Key(c))
     THEN /\ evidence' = [evidence EXCEPT ![Key(c)] = calls[c].content]
          /\ calls' = [calls EXCEPT ![c].at = "observing"]
     ELSE UNCHANGED evidence /\ Finish(c)
  /\ UNCHANGED <<identifying, known, devices, elapsed, observed, consents, accepted>>

\* observe_analysis_result, and the answer.
Observe(c) ==
  /\ Serving(c, "observing")
  /\ observed' = [observed EXCEPT ![Key(c)] = @ + 1]
  /\ Accept(c)
  /\ Finish(c)
  /\ UNCHANGED <<identifying, known, devices, elapsed, evidence, consents>>
-----------------------------------------------------------------------------
BridgeNext ==
  \/ \E u \in User : Turn(u)
  \/ \E d \in Device : Enroll(d) \/ Elapse(d) \/ Revoke(d)
  \/ \E c \in Call :
       \/ \E d \in Device : Poll(c, d) \/ \E u \in User : AskApproval(c, d, u)
       \/ Approve(c) \/ Claim(c)
       \/ \E d \in Device, o \in Operation, x \in Content : Deliver(c, d, o, x)
       \/ LookUp(c) \/ WriteCandidate(c) \/ Observe(c)
       \/ Die(c)

BridgeSpec == BridgeInit /\ [][BridgeNext]_bridgeVars
-----------------------------------------------------------------------------
(* Properties. *)

\* A device acts for the one user who was told so, with one token: of the
\* people who approve it at the same time one succeeds, and of the polls that
\* race for its token one gets it (approve_enrollment, poll_enrollment).
OneTokenPerConsent ==
  \A d \in Device :
    /\ devices[d].tokens = IF devices[d].status = "consumed" THEN 1 ELSE 0
    /\ devices[d].tokens > 0 => <<d, devices[d].holder>> \in consents
    /\ \A u, v \in User : <<d, u>> \in consents /\ <<d, v>> \in consents => u = v

\* Evidence a client was told is accepted is what the memory holds of the
\* operation, whatever else was delivered under its name, and the learning has
\* counted the operation at most once (ingest_sda_bridge_evidence and
\* _ingest_sda_operation_evidence).
AcceptedEvidenceStands ==
  \A d \in Device, o \in Operation :
    /\ observed[<<d, o>>] <= 1
    /\ \A x \in Content : <<d, o, x>> \in accepted => evidence[<<d, o>>] = x
=============================================================================
