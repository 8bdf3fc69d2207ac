------------------------- MODULE CapabilityApproval -------------------------
(***************************************************************************)
(* Approval tickets for high-risk skill and MCP calls: a ticket is         *)
(* requested for one exact input, approved by another user for a limited   *)
(* time, and spent by one call.  Review and consumption are transactions   *)
(* of two statements, a SELECT the code validates and an UPDATE with a     *)
(* WHERE clause of its own; a call that has spent its ticket submits its   *)
(* handler up to max_retries + 1 times.                                    *)
(*                                                                         *)
(* The deployment chooses the store.  On a server (PostgreSQL, MySQL) the  *)
(* SELECT locks the row and the UPDATE looks at the expiry again (MySQL's  *)
(* clock); in the SQLite twin, opened by two processes, the SELECT locks   *)
(* nothing.  One tenant; the rights to use the skill and to review are     *)
(* checked before and change nothing here.                                 *)
(***************************************************************************)
EXTENDS Users, Integers

CONSTANTS
  Ticket,       \* approval rows
  Thread,       \* threads that review or execute
  Scope,        \* subject, action and input hash of a call, taken as one
  MaxRetries,   \* max_retries of the skill; 0 for an MCP tool
  NoScope, NoJob

ASSUME ConstantsAssumption ==
  /\ MaxRetries \in Nat
  /\ NoScope \notin Scope

VARIABLES
  onServer,   \* which store the deployment uses, see above
  status,     \* of each ticket; "absent" before its insertion
  requester,  \* requested_by
  scope,      \* what it was requested for
  reviewer,   \* reviewed_by
  lapsed,     \* tickets whose expires_at has passed
  locked,     \* tickets whose row a transaction has locked
  pc,         \* what each thread does
  job,        \* the ticket, user, scope and decision of its request
  tries,      \* handlers its call has submitted
  attempts,   \* handlers submitted on each ticket
  ranAs       \* for which user and scope they were submitted

tickets == <<status, requester, scope, reviewer, lapsed>>
vars == <<onServer, tickets, locked, pc, job, tries, attempts, ranAs>>

Job == [ticket : Ticket, user : User, scope : Scope \cup {NoScope}, approve : BOOLEAN]

\* A thread whose call has spent its ticket and is not over.
Granted(t) == pc[t] \in {"granted", "waiting"}

TypeOK ==
  /\ onServer \in BOOLEAN
  /\ status \in [Ticket -> {"absent", "pending", "approved", "rejected", "consumed", "expired"}]
  /\ requester \in [Ticket -> User \cup {NoUser}]
  /\ scope \in [Ticket -> Scope \cup {NoScope}]
  /\ reviewer \in [Ticket -> User \cup {NoUser}]
  /\ lapsed \subseteq Ticket
  /\ locked \subseteq Ticket
  /\ pc \in [Thread -> {"idle", "reviewing", "consuming", "granted", "waiting"}]
  /\ job \in [Thread -> Job \cup {NoJob}]
  /\ \A t \in Thread : pc[t] # "idle" => job[t] \in Job
  /\ tries \in [Thread -> 0..MaxRetries + 1]
  /\ attempts \in [Ticket -> Nat]
  /\ ranAs \in [Ticket -> SUBSET (User \X Scope)]

Init ==
  /\ onServer \in BOOLEAN
  /\ status = [a \in Ticket |-> "absent"]
  /\ requester = [a \in Ticket |-> NoUser]
  /\ scope = [a \in Ticket |-> NoScope]
  /\ reviewer = [a \in Ticket |-> NoUser]
  /\ lapsed = {}
  /\ locked = {}
  /\ pc = [t \in Thread |-> "idle"]
  /\ job = [t \in Thread |-> NoJob]
  /\ tries = [t \in Thread |-> 0]
  /\ attempts = [a \in Ticket |-> 0]
  /\ ranAs = [a \in Ticket |-> {}]

Request(a, u, s) ==
  /\ status[a] = "absent"
  /\ status' = [status EXCEPT ![a] = "pending"]
  /\ requester' = [requester EXCEPT ![a] = u]
  /\ scope' = [scope EXCEPT ![a] = s]
  /\ UNCHANGED <<onServer, reviewer, lapsed, locked, pc, job, tries, attempts, ranAs>>

\* As Enter, without FOR UPDATE.
EnterUnlocked(t, a, at, j) ==
  /\ pc[t] = "idle"
  /\ a \notin locked
  /\ pc' = [pc EXCEPT ![t] = at]
  /\ job' = [job EXCEPT ![t] = j]
  /\ UNCHANGED <<onServer, tickets, locked, tries, attempts, ranAs>>

\* The first statement of a transaction: t reads row a, locking it where the
\* store does, and goes on only if the row passes the validation.
Enter(t, a, at, j) ==
  /\ pc[t] = "idle"
  /\ a \notin locked
  /\ locked' = IF onServer THEN locked \cup {a} ELSE locked
  /\ pc' = [pc EXCEPT ![t] = at]
  /\ job' = [job EXCEPT ![t] = j]
  /\ UNCHANGED <<onServer, tickets, tries, attempts, ranAs>>

\* t is done with its request, having raised or returned.
Leave(t) ==
  /\ pc' = [pc EXCEPT ![t] = "idle"]
  /\ job' = [job EXCEPT ![t] = NoJob]
  /\ tries' = [tries EXCEPT ![t] = 0]

\* As ReviewSelect, without the four eyes.
ReviewSelectOwn(t, a, u, d) ==
  /\ status[a] = "pending"
  /\ Enter(t, a, "reviewing", [ticket |-> a, user |-> u, scope |-> NoScope, approve |-> d])

ReviewSelect(t, a, u, d) ==
  /\ status[a] = "pending"
  /\ requester[a] # u
  /\ Enter(t, a, "reviewing", [ticket |-> a, user |-> u, scope |-> NoScope, approve |-> d])

\* As ReviewUpdate, without the status in the WHERE clause.
ReviewUpdateBlindly(t) ==
  LET a == job[t].ticket IN
  /\ pc[t] = "reviewing"
  /\ status' = [status EXCEPT ![a] = IF job[t].approve THEN "approved" ELSE "rejected"]
  /\ reviewer' = [reviewer EXCEPT ![a] = job[t].user]
  /\ locked' = locked \ {a}
  /\ Leave(t)
  /\ UNCHANGED <<onServer, requester, scope, lapsed, attempts, ranAs>>

\* The UPDATE of a review, or no row updated: concurrent_review is raised.
ReviewUpdate(t) ==
  LET a == job[t].ticket IN
  /\ pc[t] = "reviewing"
  /\ IF status[a] = "pending"
     THEN /\ status' = [status EXCEPT ![a] = IF job[t].approve THEN "approved" ELSE "rejected"]
          /\ reviewer' = [reviewer EXCEPT ![a] = job[t].user]
     ELSE UNCHANGED <<status, reviewer>>
  /\ locked' = locked \ {a}
  /\ Leave(t)
  /\ UNCHANGED <<onServer, requester, scope, lapsed, attempts, ranAs>>

\* expires_at of an approved ticket passes.
Lapse(a) ==
  /\ status[a] \in {"approved", "consumed"}
  /\ a \notin lapsed
  /\ lapsed' = lapsed \cup {a}
  /\ UNCHANGED <<onServer, status, requester, scope, reviewer, locked, pc, job, tries,
                 attempts, ranAs>>

\* Listing the tickets on a server first marks the lapsed ones; the statement
\* waits for the rows others have locked.
List ==
  LET late == {a \in lapsed : status[a] = "approved"} IN
  /\ onServer
  /\ late # {}
  /\ late \cap locked = {}
  /\ status' = [a \in Ticket |-> IF a \in late THEN "expired" ELSE status[a]]
  /\ UNCHANGED <<onServer, requester, scope, reviewer, lapsed, locked, pc, job, tries,
                 attempts, ranAs>>

\* User u calls with input s and ticket a: the row must be approved, u's own,
\* for this input, and not expired by the caller's clock.
ConsumeSelect(t, a, u, s) ==
  /\ status[a] = "approved"
  /\ requester[a] = u
  /\ scope[a] = s
  /\ a \notin lapsed
  /\ Enter(t, a, "consuming", [ticket |-> a, user |-> u, scope |-> s, approve |-> FALSE])

\* The rows the UPDATE of a consumption finds.
Spendable(a) == status[a] = "approved" /\ (onServer => a \notin lapsed)

\* As ConsumeUpdate, without a status in the WHERE clause.
ConsumeUpdateBlindly(t) ==
  LET a == job[t].ticket IN
  /\ pc[t] = "consuming"
  /\ status' = [status EXCEPT ![a] = "consumed"]
  /\ pc' = [pc EXCEPT ![t] = "granted"]
  /\ locked' = locked \ {a}
  /\ UNCHANGED <<onServer, requester, scope, reviewer, lapsed, job, tries, attempts, ranAs>>

\* The UPDATE of a consumption, or no row updated: already_consumed is raised.
ConsumeUpdate(t) ==
  LET a == job[t].ticket IN
  /\ pc[t] = "consuming"
  /\ locked' = locked \ {a}
  /\ \/ /\ Spendable(a)
        /\ status' = [status EXCEPT ![a] = "consumed"]
        /\ pc' = [pc EXCEPT ![t] = "granted"]
        /\ UNCHANGED <<job, tries>>
     \/ /\ ~Spendable(a)
        /\ Leave(t)
        /\ UNCHANGED status
  /\ UNCHANGED <<onServer, requester, scope, reviewer, lapsed, attempts, ranAs>>

\* The rate limiter refuses the call after its ticket is spent.
RateLimited(t) ==
  /\ pc[t] = "granted"
  /\ tries[t] = 0
  /\ Leave(t)
  /\ UNCHANGED <<onServer, tickets, locked, attempts, ranAs>>

\* One attempt of _invoke_with_policy, or the MCP gateway's only one.
Submit(t) ==
  LET j == job[t] IN
  /\ pc[t] = "granted"
  /\ pc' = [pc EXCEPT ![t] = "waiting"]
  /\ tries' = [tries EXCEPT ![t] = @ + 1]
  /\ attempts' = [attempts EXCEPT ![j.ticket] = @ + 1]
  /\ ranAs' = [ranAs EXCEPT ![j.ticket] = @ \cup {<<j.user, j.scope>>}]
  /\ UNCHANGED <<onServer, tickets, locked, job>>

\* The handler's result arrives; its outputs may still be refused.
Return(t) ==
  /\ pc[t] = "waiting"
  /\ Leave(t)
  /\ UNCHANGED <<onServer, tickets, locked, attempts, ranAs>>

\* As FailAttempt, with one retry too many.
FailAttemptOnceMore(t) ==
  /\ pc[t] = "waiting"
  /\ IF tries[t] <= MaxRetries + 1
     THEN pc' = [pc EXCEPT ![t] = "granted"] /\ UNCHANGED <<job, tries>>
     ELSE Leave(t)
  /\ UNCHANGED <<onServer, tickets, locked, attempts, ranAs>>

\* The handler raises or exceeds its time: retried while attempts are left.
FailAttempt(t) ==
  /\ pc[t] = "waiting"
  /\ IF tries[t] <= MaxRetries
     THEN pc' = [pc EXCEPT ![t] = "granted"] /\ UNCHANGED <<job, tries>>
     ELSE Leave(t)
  /\ UNCHANGED <<onServer, tickets, locked, attempts, ranAs>>

\* The thread's process dies: an open transaction is rolled back.
Crash(t) ==
  /\ pc[t] # "idle"
  /\ locked' = IF Granted(t) THEN locked ELSE locked \ {job[t].ticket}
  /\ Leave(t)
  /\ UNCHANGED <<onServer, tickets, attempts, ranAs>>

Next ==
  \/ \E a \in Ticket, u \in User, s \in Scope : Request(a, u, s)
  \/ \E a \in Ticket : Lapse(a)
  \/ List
  \/ \E t \in Thread :
       \/ \E a \in Ticket, u \in User, d \in BOOLEAN : ReviewSelect(t, a, u, d)
       \/ ReviewUpdate(t)
       \/ \E a \in Ticket, u \in User, s \in Scope : ConsumeSelect(t, a, u, s)
       \/ ConsumeUpdate(t)
       \/ RateLimited(t)
       \/ Submit(t)
       \/ Return(t)
       \/ FailAttempt(t)
       \/ Crash(t)

Spec == Init /\ [][Next]_vars

-----------------------------------------------------------------------------
\* Whatever a ticket sets in motion was asked for by the user it runs for,
\* with this very input, and approved by somebody else (approvals.consume and
\* its callers in skills/executor.py and mcp/gateway.py).
RunsAreGranted ==
  \A a \in Ticket : \A r \in ranAs[a] :
    /\ status[a] = "consumed"
    /\ r = <<requester[a], scope[a]>>
    /\ reviewer[a] \in User \ {requester[a]}

\* A ticket buys one call: however many threads try to spend it, its handler
\* is submitted at most max_retries + 1 times.
RunsPerTicket == \A a \in Ticket : attempts[a] <= MaxRetries + 1

\* A decision stands: no review, listing or consumption changes the reviewer
\* of a ticket or takes it out of rejected, consumed or expired; and on a
\* server a ticket that has lapsed is never spent, not even by a call that
\* found it valid and is about to update it.
VerdictsAreFinal ==
  [][\A a \in Ticket :
       /\ status[a] \in {"rejected", "consumed", "expired"} => status'[a] = status[a]
       /\ reviewer[a] # NoUser => reviewer'[a] = reviewer[a]
       /\ onServer /\ a \in lapsed /\ status'[a] = "consumed" => status[a] = "consumed"]_vars

\* On a server what a review or a consumption has validated still holds when
\* it updates the row: neither another request nor the listing comes between.
ValidationsHold ==
  onServer => \A t \in Thread :
    /\ pc[t] = "reviewing" => status[job[t].ticket] = "pending"
    /\ pc[t] = "consuming" => status[job[t].ticket] = "approved"
=============================================================================
