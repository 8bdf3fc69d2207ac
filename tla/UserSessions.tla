---------------------------- MODULE UserSessions ----------------------------
(***************************************************************************)
(* Accounts, their roles and the device sessions issued to them.  Login,   *)
(* refresh, tenant switch, logout, registration and the administrator's    *)
(* update and delete are HTTP handlers, each a chain of transactions of    *)
(* its own, so that other handlers run between any two of them, and a      *)
(* handler may end after any of them: its process dies or a store fails.   *)
(*                                                                         *)
(* The deployment chooses the stores.  On a server (PostgreSQL, MySQL)     *)
(* deleting an account disables it, and roles and sessions are only        *)
(* written for an active one; in SQLite the row goes away and nothing asks *)
(* for it.  Roles are taken as the tenants they give access to.            *)
(***************************************************************************)
EXTENDS Integers

CONSTANTS
  User,
  Tenant,
  Session,       \* device sessions
  Thread,        \* request threads
  MaxRotations,  \* bound: rotations of a session
  Faulty,        \* bound: whether processes die and stores fail
  NoUser, NoSession, NoJob

ASSUME ConstantsAssumption ==
  /\ MaxRotations \in Nat
  /\ Faulty \in BOOLEAN
  /\ NoUser \notin User
  /\ NoSession \notin Session

VARIABLES
  onServer,    \* which stores the deployment uses
  status,      \* of each account
  roles,       \* tenants of its assignments
  applied,     \* tenants of its registration, kept as its department
  owner,       \* user_id of each session; NoUser before it is issued
  tenants,     \* its tenant_codes
  generation,  \* how often its two tokens were replaced
  state,       \* "live", "revoked" (revoked_at), or "over": idle or absolute timeout
  fresh,       \* sessions whose access token has not expired
  pc, job,     \* what each thread does, and for whom
  exchanged,   \* history: how often each refresh token was exchanged
  vouched      \* history: tenants an administrator ever decided a user may enter

accounts == <<status, roles, applied, vouched>>
sessions == <<owner, tenants, generation, state, fresh, exchanged>>
vars == <<onServer, accounts, sessions, pc, job>>

Position == {"idle", "verified", "resolved", "entered", "granting", "leaving", "updating",
             "activated", "granted", "deleting", "removing", "sweeping", "applying",
             "approving", "admitting", "rejecting", "listed", "demoting"}
Generation == 0..MaxRotations
Status == {"absent", "invited", "active", "inactive"}
Job == [user : User \cup {NoUser}, tenants : SUBSET Tenant, status : Status,
        session : Session \cup {NoSession}, generation : Generation]

TypeOK ==
  /\ onServer \in BOOLEAN
  /\ status \in [User -> Status]
  /\ roles \in [User -> SUBSET Tenant]
  /\ applied \in [User -> SUBSET Tenant]
  /\ owner \in [Session -> User \cup {NoUser}]
  /\ tenants \in [Session -> SUBSET Tenant]
  /\ generation \in [Session -> Generation]
  /\ state \in [Session -> {"live", "revoked", "over"}]
  /\ fresh \subseteq Session
  /\ pc \in [Thread -> Position]
  /\ job \in [Thread -> Job \cup {NoJob}]
  /\ \A t \in Thread : pc[t] # "idle" => job[t] \in Job
  /\ exchanged \in [Session -> [Generation -> Nat]]
  /\ vouched \in [User -> SUBSET Tenant]

\* The accounts a deployment was set up with have roles.
Init ==
  /\ onServer \in BOOLEAN
  /\ roles \in [User -> SUBSET Tenant]
  /\ status = [u \in User |-> IF roles[u] = {} THEN "absent" ELSE "active"]
  /\ applied = [u \in User |-> {}]
  /\ owner = [s \in Session |-> NoUser]
  /\ tenants = [s \in Session |-> {}]
  /\ generation = [s \in Session |-> 0]
  /\ state = [s \in Session |-> "live"]
  /\ fresh = {}
  /\ pc = [t \in Thread |-> "idle"]
  /\ job = [t \in Thread |-> NoJob]
  /\ exchanged = [s \in Session |-> [g \in Generation |-> 0]]
  /\ vouched = roles

Issued(s) == owner[s] # NoUser

\* validate_access lets a request with the current access token pass.
Accepted(s) == Issued(s) /\ state[s] = "live" /\ s \in fresh
-----------------------------------------------------------------------------
Goto(t, position) == pc' = [pc EXCEPT ![t] = position]

\* A handler begins.
Begin(t, position, u, ts, st, s) ==
  /\ pc[t] = "idle"
  /\ Goto(t, position)
  /\ job' = [job EXCEPT ![t] = [user |-> u, tenants |-> ts, status |-> st, session |-> s,
                                generation |-> IF s = NoSession THEN 0 ELSE generation[s]]]

\* It ends: it has answered, it has raised, or its process has died.
End(t) ==
  /\ Goto(t, "idle")
  /\ job' = [job EXCEPT ![t] = NoJob]

Abort(t) ==
  /\ Faulty
  /\ pc[t] # "idle"
  /\ End(t)
  /\ UNCHANGED <<onServer, accounts, sessions>>

\* upsert_profile writes the whole row; the tenant a user has applied for is
\* part of it as long as the account waits for its review.
WriteStatus(u, st, ts) ==
  /\ status' = [status EXCEPT ![u] = st]
  /\ applied' = [applied EXCEPT ![u] = ts]
-----------------------------------------------------------------------------
(* Login, refresh, tenant switch and logout. *)

\* As VerifyLogin, with any account there is.
VerifyAnyLogin(t, u) ==
  /\ status[u] # "absent"
  /\ Begin(t, "verified", u, {}, "active", NoSession)
  /\ UNCHANGED <<onServer, accounts, sessions>>

\* login_by_email has found the profile active and the password right (or
\* the identity provider vouches for the user).
VerifyLogin(t, u) ==
  /\ status[u] = "active"
  /\ Begin(t, "verified", u, {}, "active", NoSession)
  /\ UNCHANGED <<onServer, accounts, sessions>>

\* It writes the profile it has read, status and all, for the sake of
\* last_login.
WriteLogin(t) ==
  /\ pc[t] = "verified"
  /\ WriteStatus(job[t].user, job[t].status, {})
  /\ Goto(t, "entered")
  /\ UNCHANGED <<onServer, roles, vouched, sessions, job>>

\* A client presents the tokens of s that are current; ts is {} for a refresh
\* and the tenant it wants for a switch.  A token replaced before matches no
\* row, and the handler ends.
Resolve(t, s, ts) ==
  /\ Issued(s)
  /\ state[s] = "live"
  /\ ts = {} \/ s \in fresh
  /\ Begin(t, "resolved", owner[s], ts, "active", s)
  /\ UNCHANGED <<onServer, accounts, sessions>>

\* session_for_user reads the profile.
CheckProfile(t) ==
  /\ pc[t] = "resolved"
  /\ IF status[job[t].user] = "active"
     THEN Goto(t, "entered") /\ UNCHANGED job
     ELSE End(t)
  /\ UNCHANGED <<onServer, accounts, sessions>>

\* _session_payload_for_profile reads the roles.
ReadRoles(t) ==
  LET u == job[t].user IN
  /\ pc[t] = "entered"
  /\ IF roles[u] # {} /\ job[t].tenants \subseteq roles[u]
     THEN Goto(t, "granting") /\ job' = [job EXCEPT ![t].tenants = roles[u]]
     ELSE End(t)
  /\ UNCHANGED <<onServer, accounts, sessions>>

\* issue; on a server it raises for an account that is no longer active.
Issue(t, s) ==
  LET u == job[t].user IN
  /\ pc[t] = "granting"
  /\ job[t].session = NoSession
  /\ ~Issued(s)
  /\ IF onServer => status[u] = "active"
     THEN /\ owner' = [owner EXCEPT ![s] = u]
          /\ tenants' = [tenants EXCEPT ![s] = job[t].tenants]
          /\ fresh' = fresh \cup {s}
     ELSE UNCHANGED <<owner, tenants, fresh>>
  /\ End(t)
  /\ UNCHANGED <<onServer, accounts, generation, state, exchanged>>

\* The rows the UPDATE of a rotation finds, had it no hash in its WHERE clause.
RotatableByAny(s, g) == state[s] = "live"

\* As Rotatable, without revoked_at.
RotatableAnyTime(s, g) == generation[s] = g

\* The session that resolve and validation find by the refresh token, and the
\* row the UPDATE finds by its hash.
Rotatable(s, g) == state[s] = "live" /\ generation[s] = g

\* rotate_refresh replaces both tokens and the tenants.
Rotate(t) ==
  LET s == job[t].session
      g == job[t].generation
  IN
  /\ pc[t] = "granting"
  /\ s # NoSession
  /\ IF Rotatable(s, g)
     THEN /\ generation[s] < MaxRotations
          /\ generation' = [generation EXCEPT ![s] = @ + 1]
          /\ tenants' = [tenants EXCEPT ![s] = job[t].tenants]
          /\ fresh' = fresh \cup {s}
          /\ exchanged' = [exchanged EXCEPT ![s][g] = @ + 1]
     ELSE UNCHANGED <<generation, tenants, fresh, exchanged>>
  /\ End(t)
  /\ UNCHANGED <<onServer, accounts, owner, state>>

\* The browser sends a logout with the cookies it has at that moment.
SendLogout(t, s) ==
  /\ Issued(s)
  /\ Begin(t, "leaving", owner[s], {}, "active", s)
  /\ UNCHANGED <<onServer, accounts, sessions>>

\* revoke, by either token: none of them matches after a rotation.
Logout(t) ==
  LET s == job[t].session IN
  /\ pc[t] = "leaving"
  /\ state' = [state EXCEPT ![s] = IF generation[s] = job[t].generation THEN "revoked" ELSE @]
  /\ End(t)
  /\ UNCHANGED <<onServer, accounts, owner, tenants, generation, fresh, exchanged>>

\* access_expires_at passes.
AccessExpires(s) ==
  /\ s \in fresh
  /\ fresh' = fresh \ {s}
  /\ UNCHANGED <<onServer, accounts, owner, tenants, generation, state, exchanged, pc, job>>

\* idle_expires_at or expires_at passes.
SessionExpires(s) ==
  /\ Issued(s)
  /\ state[s] = "live"
  /\ state' = [state EXCEPT ![s] = "over"]
  /\ UNCHANGED <<onServer, accounts, owner, tenants, generation, fresh, exchanged, pc, job>>
-----------------------------------------------------------------------------
(* The administrator's update and delete, of accounts and of roles. *)

\* upsert_user reads the assignments: those of the tenants the form does not
\* name are kept.  The form's come on top.
ReadUpdate(t, u, ts, st) ==
  /\ Begin(t, "updating", u, roles[u] \cup ts, st, NoSession)
  /\ vouched' = [vouched EXCEPT ![u] = @ \cup ts]
  /\ UNCHANGED <<onServer, status, roles, applied, sessions>>

\* The account is made active, whatever is asked for.
Activate(t) ==
  /\ pc[t] = "updating"
  /\ WriteStatus(job[t].user, "active", {})
  /\ Goto(t, "activated")
  /\ UNCHANGED <<onServer, roles, vouched, sessions, job>>

\* replace_user_assignments; on a server it raises for an account that is not
\* active.
ReplaceRoles(t, from, to) ==
  LET u == job[t].user IN
  /\ pc[t] = from
  /\ IF onServer => status[u] = "active"
     THEN /\ roles' = [roles EXCEPT ![u] = job[t].tenants]
          /\ IF to = "idle" THEN End(t) ELSE Goto(t, to) /\ UNCHANGED job
     ELSE UNCHANGED roles /\ End(t)
  /\ UNCHANGED <<onServer, status, applied, vouched, sessions>>

GrantRoles(t) == ReplaceRoles(t, "activated", "granted")

\* The profile is written again, with the status asked for.
SetStatus(t) ==
  /\ pc[t] = "granted"
  /\ WriteStatus(job[t].user, job[t].status, {})
  /\ Goto(t, "sweeping")
  /\ UNCHANGED <<onServer, roles, vouched, sessions, job>>

\* delete_user has read the roles and found that it may.
ReadDelete(t, u) ==
  /\ Begin(t, "deleting", u, {}, "inactive", NoSession)
  /\ UNCHANGED <<onServer, accounts, sessions>>

\* delete_user_assignments; on a server only those of an active account.
DeleteRoles(t) ==
  LET u == job[t].user IN
  /\ pc[t] = "deleting"
  /\ roles' = IF onServer => status[u] = "active" THEN [roles EXCEPT ![u] = {}] ELSE roles
  /\ Goto(t, "removing")
  /\ UNCHANGED <<onServer, status, applied, vouched, sessions, job>>

\* As DeleteProfile, with the status as the table has it.
DeleteProfileRaw(t) ==
  /\ pc[t] = "removing"
  /\ WriteStatus(job[t].user, IF onServer THEN "disabled" ELSE "absent", {})
  /\ Goto(t, "sweeping")
  /\ UNCHANGED <<onServer, roles, vouched, sessions, job>>

\* delete_profile.
DeleteProfile(t) ==
  LET u == job[t].user
      gone == IF onServer /\ status[u] # "absent" THEN "inactive" ELSE "absent"
  IN
  /\ pc[t] = "removing"
  /\ WriteStatus(u, gone, {})
  /\ Goto(t, "sweeping")
  /\ UNCHANGED <<onServer, roles, vouched, sessions, job>>

\* The route calls revoke_user, which on a server finds active accounts only.
RevokeUser(t) ==
  LET u == job[t].user IN
  /\ pc[t] = "sweeping"
  /\ state' = [s \in Session |->
                 IF owner[s] = u /\ (onServer => status[u] = "active")
                 THEN "revoked" ELSE state[s]]
  /\ End(t)
  /\ UNCHANGED <<onServer, accounts, owner, tenants, generation, fresh, exchanged>>

\* _delete_custom_role lists who has a custom role of tenant x.
ListMembers(t, u, x) ==
  /\ x \in roles[u]
  /\ Begin(t, "listed", u, {x}, "active", NoSession)
  /\ UNCHANGED <<onServer, accounts, sessions>>

\* It reads each one's assignments once more, to take the role away and to
\* put the tenant's operator role in its place where there is one.
ReadKept(t) ==
  LET u == job[t].user IN
  /\ pc[t] = "listed"
  /\ \E kept \in {roles[u] \cup job[t].tenants, roles[u] \ job[t].tenants} :
       job' = [job EXCEPT ![t].tenants = kept]
  /\ Goto(t, "demoting")
  /\ UNCHANGED <<onServer, accounts, sessions>>

Demote(t) == ReplaceRoles(t, "demoting", "idle")
-----------------------------------------------------------------------------
(* Registration. *)

\* submit_registration_request finds no account, or one that was turned off.
ReadApplication(t, u, x) ==
  /\ status[u] \in {"absent", "inactive"}
  /\ Begin(t, "applying", u, {x}, "invited", NoSession)
  /\ UNCHANGED <<onServer, accounts, sessions>>

\* As Apply, without waiting for a review.
ApplyAtOnce(t) ==
  /\ pc[t] = "applying"
  /\ WriteStatus(job[t].user, "active", job[t].tenants)
  /\ End(t)
  /\ UNCHANGED <<onServer, roles, vouched, sessions>>

Apply(t) ==
  /\ pc[t] = "applying"
  /\ WriteStatus(job[t].user, "invited", job[t].tenants)
  /\ End(t)
  /\ UNCHANGED <<onServer, roles, vouched, sessions>>

\* review_registration reads the profile; approved or not.
ReadReview(t, u, ok) ==
  /\ status[u] = "invited"
  /\ Begin(t, IF ok THEN "approving" ELSE "rejecting", u, applied[u], "invited", NoSession)
  /\ vouched' = IF ok THEN [vouched EXCEPT ![u] = @ \cup applied[u]] ELSE vouched
  /\ UNCHANGED <<onServer, status, roles, applied, sessions>>

Approve(t) ==
  /\ pc[t] = "approving"
  /\ WriteStatus(job[t].user, "active", {})
  /\ Goto(t, "admitting")
  /\ UNCHANGED <<onServer, roles, vouched, sessions, job>>

Admit(t) == ReplaceRoles(t, "admitting", "idle")

Reject(t) ==
  /\ pc[t] = "rejecting"
  /\ WriteStatus(job[t].user, "inactive", {})
  /\ End(t)
  /\ UNCHANGED <<onServer, roles, vouched, sessions>>
-----------------------------------------------------------------------------
SignIn(t) ==
  \/ \E u \in User : VerifyLogin(t, u)
  \/ \E s \in Session, ts \in {{}} \cup {{x} : x \in Tenant} : Resolve(t, s, ts)
  \/ WriteLogin(t) \/ CheckProfile(t) \/ ReadRoles(t) \/ Rotate(t)
  \/ \E s \in Session : Issue(t, s) \/ SendLogout(t, s)
  \/ Logout(t)

Administer(t) ==
  \/ \E u \in User :
       \/ \E ts \in (SUBSET Tenant) \ {{}}, st \in {"active", "inactive"} : ReadUpdate(t, u, ts, st)
       \/ ReadDelete(t, u)
       \/ \E x \in Tenant : ListMembers(t, u, x)
  \/ Activate(t) \/ GrantRoles(t) \/ SetStatus(t)
  \/ DeleteRoles(t) \/ DeleteProfile(t) \/ RevokeUser(t)
  \/ ReadKept(t) \/ Demote(t)

Register(t) ==
  \/ \E u \in User :
       \/ \E x \in Tenant : ReadApplication(t, u, x)
       \/ \E ok \in BOOLEAN : ReadReview(t, u, ok)
  \/ Apply(t) \/ Approve(t) \/ Admit(t) \/ Reject(t)

Next ==
  \/ \E t \in Thread : SignIn(t) \/ Administer(t) \/ Register(t) \/ Abort(t)
  \/ \E s \in Session : AccessExpires(s) \/ SessionExpires(s)

Spec == Init /\ [][Next]_vars
-----------------------------------------------------------------------------
(* Properties. *)

\* A refresh token buys one new pair of tokens: of the refreshes and tenant
\* switches that race with the same token one succeeds (rotate_refresh).
TokensAreExchangedOnce ==
  \A s \in Session, g \in Generation :
    exchanged[s][g] = IF g < generation[s] THEN 1 ELSE 0

\* A session that was revoked or has run out is never renewed or reopened, not
\* by a refresh that found it live either.
EndedSessionsStayEnded ==
  [][\A s \in Session : state[s] # "live" =>
        /\ state'[s] # "live"
        /\ generation'[s] = generation[s]
        /\ tenants'[s] = tenants[s]]_vars

\* An account is active, has roles and gets sessions only after an
\* administrator has decided so, and for the tenants he decided on, however
\* registrations, reviews, logins and updates cross.
NobodyEntersUnvouched ==
  /\ \A u \in User :
       /\ status[u] = "active" => vouched[u] # {}
       /\ roles[u] \subseteq vouched[u]
  /\ \A s \in Session : Issued(s) => tenants[s] # {} /\ tenants[s] \subseteq vouched[owner[s]]

\* Nobody works on the account.
Quiet(u) == \A t \in Thread : pc[t] = "idle" \/ job[t].user # u

\* revoke_user(reason="account_deleted"): no session is accepted any more once
\* an account is deleted or disabled and the handlers that did it are through.
SessionsEndWithTheAccount ==
  \A s \in Session : Accepted(s) /\ Quiet(owner[s]) => status[owner[s]] = "active"
=============================================================================
