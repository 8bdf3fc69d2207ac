------------------------- MODULE UserSessionsProofs -------------------------
(***************************************************************************)
(* Proofs about UserSessions, for any users, tenants, sessions, threads    *)
(* and numbers of rotations, on either store.                              *)
(***************************************************************************)
EXTENDS UserSessions, TLAPS

\* Every step of Next, on one level.
LEMMA Steps ==
  ASSUME Next
  PROVE  \/ \E t \in Thread, u \in User :
              \/ VerifyLogin(t, u) \/ ReadDelete(t, u)
              \/ \E ts \in (SUBSET Tenant) \ {{}}, st \in {"active", "inactive"} : ReadUpdate(t, u, ts, st)
              \/ \E x \in Tenant : ReadApplication(t, u, x) \/ ListMembers(t, u, x)
              \/ \E ok \in BOOLEAN : ReadReview(t, u, ok)
         \/ \E t \in Thread, s \in Session :
              \/ \E ts \in SUBSET Tenant : Resolve(t, s, ts)
              \/ Issue(t, s) \/ SendLogout(t, s)
         \/ \E t \in Thread :
              \/ WriteLogin(t) \/ CheckProfile(t) \/ ReadRoles(t) \/ Rotate(t) \/ Logout(t)
              \/ Activate(t) \/ GrantRoles(t) \/ SetStatus(t)
              \/ DeleteRoles(t) \/ DeleteProfile(t) \/ RevokeUser(t)
              \/ ReadKept(t) \/ Demote(t)
              \/ Apply(t) \/ Approve(t) \/ Admit(t) \/ Reject(t) \/ Abort(t)
         \/ \E s \in Session : AccessExpires(s) \/ SessionExpires(s)
  BY DEF Next, SignIn, Administer, Register

\* The parts of TypeOK: rows and requests.
RowsOK ==
  /\ onServer \in BOOLEAN
  /\ status \in [User -> Status]
  /\ roles \in [User -> SUBSET Tenant]
  /\ applied \in [User -> SUBSET Tenant]
  /\ vouched \in [User -> SUBSET Tenant]

SessionsOK ==
  /\ owner \in [Session -> User \cup {NoUser}]
  /\ tenants \in [Session -> SUBSET Tenant]
  /\ generation \in [Session -> Generation]
  /\ state \in [Session -> {"live", "revoked", "over"}]
  /\ fresh \subseteq Session
  /\ exchanged \in [Session -> [Generation -> Nat]]

RequestsOK ==
  /\ pc \in [Thread -> Position]
  /\ job \in [Thread -> Job \cup {NoJob}]
  /\ \A t \in Thread : pc[t] # "idle" => job[t] \in Job

LEMMA TypeParts == TypeOK <=> RowsOK /\ SessionsOK /\ RequestsOK
  BY DEF TypeOK, RowsOK, SessionsOK, RequestsOK

\* What Begin, End and Goto do to the requests.
LEMMA BeginOK ==
  ASSUME TypeOK, NEW t \in Thread, NEW position \in Position, NEW u \in User,
         NEW ts \in SUBSET Tenant, NEW st \in Status, NEW s \in Session \cup {NoSession},
         Begin(t, position, u, ts, st, s)
  PROVE  /\ RequestsOK'
         /\ job'[t] \in Job
         /\ job'[t].user = u /\ job'[t].tenants = ts /\ job'[t].status = st /\ job'[t].session = s
         /\ s \in Session => job'[t].generation = generation[s]
         /\ pc'[t] = position
         /\ \A r \in Thread \ {t} : pc'[r] = pc[r] /\ job'[r] = job[r]
<1> DEFINE g == IF s = NoSession THEN 0 ELSE generation[s]
<1>1. g \in Generation
  BY ConstantsAssumption DEF TypeOK, Generation
<1>2. [user |-> u, tenants |-> ts, status |-> st, session |-> s, generation |-> g] \in Job
  BY <1>1 DEF Job
<1>3. job' = [job EXCEPT ![t] = [user |-> u, tenants |-> ts, status |-> st, session |-> s,
                                 generation |-> g]]
  BY DEF Begin
<1> HIDE DEF g
<1>4. /\ pc' = [pc EXCEPT ![t] = position]
      /\ pc \in [Thread -> Position] /\ job \in [Thread -> Job \cup {NoJob}]
  BY DEF Begin, Goto, TypeOK
<1>5. /\ job'[t] = [user |-> u, tenants |-> ts, status |-> st, session |-> s, generation |-> g]
      /\ pc'[t] = position
      /\ \A r \in Thread \ {t} : pc'[r] = pc[r] /\ job'[r] = job[r]
  BY <1>3, <1>4
<1>6. RequestsOK'
  <2>1. pc' \in [Thread -> Position] /\ job' \in [Thread -> Job \cup {NoJob}]
    BY <1>2, <1>3, <1>4
  <2> QED
    BY <2>1, <1>2, <1>5 DEF RequestsOK, TypeOK
<1>7. s \in Session => g = generation[s]
  BY ConstantsAssumption DEF g
<1> QED
  BY <1>2, <1>5, <1>6, <1>7

LEMMA EndOK ==
  ASSUME TypeOK, NEW t \in Thread, End(t)
  PROVE  /\ RequestsOK'
         /\ pc'[t] = "idle"
         /\ \A r \in Thread \ {t} : pc'[r] = pc[r] /\ job'[r] = job[r]
<1>1. /\ pc' = [pc EXCEPT ![t] = "idle"] /\ job' = [job EXCEPT ![t] = NoJob]
      /\ pc \in [Thread -> Position] /\ job \in [Thread -> Job \cup {NoJob}]
  BY DEF End, Goto, TypeOK
<1>2. /\ pc'[t] = "idle"
      /\ \A r \in Thread \ {t} : pc'[r] = pc[r] /\ job'[r] = job[r]
  BY <1>1
<1>3. pc' \in [Thread -> Position] /\ job' \in [Thread -> Job \cup {NoJob}]
  BY <1>1 DEF Position
<1> QED
  BY <1>2, <1>3 DEF RequestsOK, TypeOK

LEMMA GotoOK ==
  ASSUME TypeOK, NEW t \in Thread, pc[t] # "idle", NEW position \in Position,
         Goto(t, position), UNCHANGED job
  PROVE  /\ RequestsOK'
         /\ pc'[t] = position
         /\ \A r \in Thread \ {t} : pc'[r] = pc[r]
<1>1. /\ pc' = [pc EXCEPT ![t] = position] /\ pc \in [Thread -> Position]
      /\ job \in [Thread -> Job \cup {NoJob}] /\ job[t] \in Job
  BY DEF Goto, TypeOK
<1>2. pc'[t] = position /\ \A r \in Thread \ {t} : pc'[r] = pc[r]
  BY <1>1
<1> QED
  BY <1>1, <1>2 DEF RequestsOK, TypeOK

LEMMA JobOK ==
  ASSUME TypeOK, NEW t \in Thread, pc[t] # "idle"
  PROVE  /\ job[t].user \in User \cup {NoUser}
         /\ job[t].tenants \in SUBSET Tenant
         /\ job[t].status \in Status
         /\ job[t].session \in Session \cup {NoSession}
         /\ job[t].generation \in Generation
  BY DEF TypeOK, Job

\* A running request names a user, and a session only of that user.
UsersKnown == \A t \in Thread : pc[t] # "idle" =>
  /\ job[t].user \in User
  /\ job[t].session \in Session => owner[job[t].session] = job[t].user

\* Requests keep their types, and stay about one user.
LEMMA RequestsStep ==
  ASSUME TypeOK, UsersKnown, [Next]_vars
  PROVE  RequestsOK' /\ UsersKnown'
<1> USE ConstantsAssumption DEF UsersKnown
<1>1. ASSUME NEW t \in Thread, NEW position \in Position, NEW u \in User, NEW ts \in SUBSET Tenant,
             NEW st \in Status, NEW s \in Session \cup {NoSession},
             Begin(t, position, u, ts, st, s), UNCHANGED owner,
             s \in Session => owner[s] = u
      PROVE  RequestsOK' /\ UsersKnown'
  <2>1. RequestsOK' /\ job'[t].user = u /\ job'[t].session = s
        /\ \A r \in Thread \ {t} : pc'[r] = pc[r] /\ job'[r] = job[r]
    BY <1>1, BeginOK
  <2> QED
    BY <1>1, <2>1
<1>2. ASSUME NEW t \in Thread, End(t),
             \A s \in Session : owner'[s] # owner[s] => owner[s] = NoUser
      PROVE  RequestsOK' /\ UsersKnown'
  <2>1. RequestsOK' /\ pc'[t] = "idle"
        /\ \A r \in Thread \ {t} : pc'[r] = pc[r] /\ job'[r] = job[r]
    BY <1>2, EndOK
  <2> QED
    BY <1>2, <2>1
<1>3. ASSUME NEW t \in Thread, pc[t] # "idle", NEW position \in Position,
             Goto(t, position), UNCHANGED <<job, owner>>
      PROVE  RequestsOK' /\ UsersKnown'
  <2>1. RequestsOK' /\ \A r \in Thread \ {t} : pc'[r] = pc[r]
    BY <1>3, GotoOK
  <2> QED
    BY <1>3, <2>1
<1> HIDE DEF UsersKnown
<1>4. ASSUME NEW t \in Thread, NEW u \in User,
             \/ VerifyLogin(t, u) \/ ReadDelete(t, u)
             \/ \E ts \in (SUBSET Tenant) \ {{}}, st \in {"active", "inactive"} : ReadUpdate(t, u, ts, st)
             \/ \E x \in Tenant : ReadApplication(t, u, x) \/ ListMembers(t, u, x)
             \/ \E ok \in BOOLEAN : ReadReview(t, u, ok)
      PROVE  RequestsOK' /\ UsersKnown'
  <2>1. /\ roles[u] \in SUBSET Tenant /\ applied[u] \in SUBSET Tenant
        /\ NoSession \in Session \cup {NoSession} /\ NoSession \notin Session
    BY DEF TypeOK
  <2>2. UNCHANGED owner
    BY <1>4 DEF VerifyLogin, ReadDelete, ReadUpdate, ReadApplication, ListMembers, ReadReview, sessions
  <2>3. ASSUME NEW position \in Position, NEW ts \in SUBSET Tenant, NEW st \in Status,
               Begin(t, position, u, ts, st, NoSession)
        PROVE  RequestsOK' /\ UsersKnown'
    BY <1>1, <2>1, <2>2, <2>3
  <2>4. CASE VerifyLogin(t, u)
    BY <2>3, <2>4 DEF VerifyLogin, Position, Status
  <2>5. CASE ReadDelete(t, u)
    BY <2>3, <2>5 DEF ReadDelete, Position, Status
  <2>6. ASSUME NEW ts \in SUBSET Tenant, NEW st \in {"active", "inactive"}, ReadUpdate(t, u, ts, st)
        PROVE  RequestsOK' /\ UsersKnown'
    <3>1. roles[u] \cup ts \in SUBSET Tenant /\ st \in Status /\ "updating" \in Position
      BY <2>1 DEF Status, Position
    <3> QED
      BY <3>1, <2>3, <2>6 DEF ReadUpdate
  <2>7. ASSUME NEW x \in Tenant, ReadApplication(t, u, x)
        PROVE  RequestsOK' /\ UsersKnown'
    <3>1. {x} \in SUBSET Tenant /\ "invited" \in Status /\ "applying" \in Position
      BY DEF Status, Position
    <3> QED
      BY <3>1, <2>3, <2>7 DEF ReadApplication
  <2>9. ASSUME NEW x \in Tenant, ListMembers(t, u, x)
        PROVE  RequestsOK' /\ UsersKnown'
    <3>1. {x} \in SUBSET Tenant /\ "active" \in Status /\ "listed" \in Position
      BY DEF Status, Position
    <3> QED
      BY <3>1, <2>3, <2>9 DEF ListMembers
  <2>8. ASSUME NEW ok \in BOOLEAN, ReadReview(t, u, ok)
        PROVE  RequestsOK' /\ UsersKnown'
    <3>1. "invited" \in Status /\ (IF ok THEN "approving" ELSE "rejecting") \in Position
      BY DEF Status, Position
    <3> QED
      BY <3>1, <2>1, <2>3, <2>8 DEF ReadReview
  <2> QED
    BY <1>4, <2>4, <2>5, <2>6, <2>7, <2>8, <2>9
<1>5. ASSUME NEW t \in Thread, NEW s \in Session,
             (\E ts \in SUBSET Tenant : Resolve(t, s, ts)) \/ SendLogout(t, s)
      PROVE  RequestsOK' /\ UsersKnown'
  <2>1. owner[s] \in User /\ UNCHANGED owner
    BY <1>5 DEF Resolve, SendLogout, Issued, TypeOK, sessions
  <2>2. ASSUME NEW position \in Position, NEW ts \in SUBSET Tenant,
               Begin(t, position, owner[s], ts, "active", s)
        PROVE  RequestsOK' /\ UsersKnown'
    BY <1>1, <2>1, <2>2 DEF Status
  <2>3. ASSUME NEW ts \in SUBSET Tenant, Resolve(t, s, ts)
        PROVE  RequestsOK' /\ UsersKnown'
    BY <2>2, <2>3 DEF Resolve, Position
  <2>4. CASE SendLogout(t, s)
    BY <2>2, <2>4 DEF SendLogout, Position
  <2> QED
    BY <1>5, <2>3, <2>4
<1>6. ASSUME NEW t \in Thread,
             \/ \E s \in Session : Issue(t, s)
             \/ Rotate(t) \/ Logout(t) \/ RevokeUser(t)
             \/ Apply(t) \/ Reject(t) \/ Abort(t)
      PROVE  RequestsOK' /\ UsersKnown'
  <2>1. End(t) /\ \A s \in Session : owner'[s] # owner[s] => owner[s] = NoUser
    BY <1>6 DEF Issue, Issued, Rotate, Logout, RevokeUser, Apply, Reject, Abort, TypeOK, sessions
  <2> QED
    BY <2>1, <1>2
<1>7. ASSUME NEW t \in Thread,
             \/ WriteLogin(t) \/ Activate(t) \/ SetStatus(t) \/ DeleteRoles(t)
             \/ DeleteProfile(t) \/ Approve(t)
      PROVE  RequestsOK' /\ UsersKnown'
  <2>1. /\ pc[t] # "idle"
        /\ \E position \in {"entered", "activated", "sweeping", "removing", "admitting"} :
             Goto(t, position)
        /\ UNCHANGED <<job, owner>>
    BY <1>7 DEF WriteLogin, Activate, SetStatus, DeleteRoles, DeleteProfile, Approve, sessions
  <2> QED
    BY <2>1, <1>3 DEF Position
<1>8. ASSUME NEW t \in Thread, CheckProfile(t) \/ GrantRoles(t) \/ Admit(t) \/ Demote(t)
      PROVE  RequestsOK' /\ UsersKnown'
  <2>1. /\ pc[t] # "idle"
        /\ \/ End(t)
           \/ UNCHANGED job /\ \E position \in {"entered", "granted"} : Goto(t, position)
        /\ UNCHANGED owner
    BY <1>8 DEF CheckProfile, GrantRoles, Admit, Demote, ReplaceRoles, sessions
  <2> QED
    BY <2>1, <1>2, <1>3 DEF Position
<1>9. ASSUME NEW t \in Thread, pc[t] # "idle", NEW position \in Position, NEW ts \in SUBSET Tenant,
             Goto(t, position), job' = [job EXCEPT ![t].tenants = ts], UNCHANGED owner
      PROVE  RequestsOK' /\ UsersKnown'
  <2>1. job[t].user \in User /\ job[t] \in Job
    BY <1>9 DEF UsersKnown, TypeOK
  <2>2. pc' = [pc EXCEPT ![t] = position]
    BY <1>9 DEF Goto
  <2>3. [job[t] EXCEPT !.tenants = ts] \in Job
    BY <1>9, <2>1 DEF Job
  <2>4. job' = [job EXCEPT ![t] = [job[t] EXCEPT !.tenants = ts]]
    BY <1>9
  <2>5. /\ job'[t] = [job[t] EXCEPT !.tenants = ts]
        /\ \A r \in Thread \ {t} : pc'[r] = pc[r] /\ job'[r] = job[r]
    BY <2>2, <2>4 DEF TypeOK
  <2>6. job'[t].user = job[t].user /\ job'[t].session = job[t].session
    BY <2>1, <2>5 DEF Job
  <2>7. RequestsOK'
    BY <2>2, <2>3, <2>4, <2>5 DEF RequestsOK, TypeOK
  <2> QED
    BY <1>9, <2>1, <2>5, <2>6, <2>7 DEF UsersKnown
<1>10. CASE UNCHANGED <<pc, job, owner>>
  BY <1>10 DEF RequestsOK, TypeOK, UsersKnown
<1>11. ASSUME NEW s \in Session, AccessExpires(s) \/ SessionExpires(s)
       PROVE  UNCHANGED <<pc, job, owner>>
  BY <1>11 DEF AccessExpires, SessionExpires
<1>12. UNCHANGED vars => UNCHANGED <<pc, job, owner>>
  BY DEF vars, sessions
<1>13. ASSUME NEW t \in Thread, ReadRoles(t) \/ ReadKept(t)
       PROVE  RequestsOK' /\ UsersKnown'
  <2>1. /\ pc[t] # "idle" /\ UNCHANGED owner
        /\ roles[job[t].user] \in SUBSET Tenant /\ job[t].tenants \in SUBSET Tenant
    BY <1>13, JobOK DEF ReadRoles, ReadKept, UsersKnown, TypeOK, sessions
  <2>2. CASE End(t)
    BY <1>2, <2>1, <2>2
  <2>3. ASSUME NEW ts \in SUBSET Tenant, NEW position \in {"granting", "demoting"},
               Goto(t, position), job' = [job EXCEPT ![t].tenants = ts]
        PROVE  RequestsOK' /\ UsersKnown'
    BY <1>9, <2>1, <2>3 DEF Position
  <2>4. /\ roles[job[t].user] \cup job[t].tenants \in SUBSET Tenant
        /\ roles[job[t].user] \ job[t].tenants \in SUBSET Tenant
    BY <2>1
  <2> QED
    BY <1>13, <2>1, <2>2, <2>3, <2>4 DEF ReadRoles, ReadKept
<1> QED
  BY <1>4, <1>5, <1>6, <1>7, <1>8, <1>10, <1>11, <1>12, <1>13, Steps

\* Rows keep their types.
LEMMA WriteOK ==
  ASSUME TypeOK, NEW u \in User, NEW st \in Status, NEW ts \in SUBSET Tenant,
         WriteStatus(u, st, ts)
  PROVE  status' \in [User -> Status] /\ applied' \in [User -> SUBSET Tenant]
  BY DEF WriteStatus, TypeOK

LEMMA RowsStep ==
  ASSUME TypeOK, UsersKnown, [Next]_vars
  PROVE  RowsOK'
<1> SUFFICES ASSUME UNCHANGED onServer
             PROVE  RowsOK'
  <2>1. Next => UNCHANGED onServer
    BY Steps DEF VerifyLogin, ReadDelete, ReadUpdate, ReadApplication, ReadReview, Resolve, Issue,
       SendLogout, WriteLogin, CheckProfile, ReadRoles, Rotate, Logout, Activate, GrantRoles, SetStatus,
       DeleteRoles, DeleteProfile, RevokeUser, Apply, Approve, Admit, Demote,
     ReadKept, ListMembers, Reject, Abort, ReplaceRoles,
       AccessExpires, SessionExpires
  <2> QED
    BY <2>1 DEF vars
<1>1. ASSUME UNCHANGED <<status, roles, applied, vouched>>
      PROVE  RowsOK'
  BY <1>1 DEF RowsOK, TypeOK
<1>2. ASSUME UNCHANGED <<status, roles, applied>>, NEW u \in User, NEW ts \in SUBSET Tenant,
             vouched' = [vouched EXCEPT ![u] = @ \cup ts]
      PROVE  RowsOK'
  BY <1>2 DEF RowsOK, TypeOK
<1>3. ASSUME UNCHANGED <<status, applied, vouched>>, NEW u \in User, NEW ts \in SUBSET Tenant,
             roles' = [roles EXCEPT ![u] = ts]
      PROVE  RowsOK'
  BY <1>3 DEF RowsOK, TypeOK
<1>4. ASSUME UNCHANGED <<roles, vouched>>, NEW u \in User, NEW st \in Status, NEW ts \in SUBSET Tenant,
             WriteStatus(u, st, ts)
      PROVE  RowsOK'
  BY <1>4, WriteOK DEF RowsOK, TypeOK
<1>5. ASSUME NEW t \in Thread, pc[t] # "idle"
      PROVE  job[t].user \in User /\ job[t].tenants \in SUBSET Tenant /\ job[t].status \in Status
  BY <1>5, JobOK DEF UsersKnown
<1>6. ASSUME NEW t \in Thread, NEW u \in User,
             \/ VerifyLogin(t, u) \/ ReadDelete(t, u)
             \/ \E x \in Tenant : ReadApplication(t, u, x) \/ ListMembers(t, u, x)
      PROVE  RowsOK'
  BY <1>1, <1>6 DEF VerifyLogin, ReadDelete, ReadApplication, ListMembers, accounts
<1>7. ASSUME NEW t \in Thread, NEW u \in User, NEW ts \in (SUBSET Tenant) \ {{}},
             NEW st \in {"active", "inactive"}, ReadUpdate(t, u, ts, st)
      PROVE  RowsOK'
  BY <1>2, <1>7 DEF ReadUpdate
<1>8. ASSUME NEW t \in Thread, NEW u \in User, NEW ok \in BOOLEAN, ReadReview(t, u, ok)
      PROVE  RowsOK'
  <2>1. applied[u] \in SUBSET Tenant
    BY DEF TypeOK
  <2>2. CASE ok
    BY <1>2, <1>8, <2>1, <2>2 DEF ReadReview
  <2>3. CASE ~ok
    BY <1>1, <1>8, <2>3 DEF ReadReview
  <2> QED
    BY <2>2, <2>3
<1>9. ASSUME NEW t \in Thread, NEW s \in Session,
             (\E ts \in SUBSET Tenant : Resolve(t, s, ts)) \/ Issue(t, s) \/ SendLogout(t, s)
      PROVE  RowsOK'
  BY <1>1, <1>9 DEF Resolve, Issue, SendLogout, accounts
<1>10. ASSUME NEW t \in Thread,
              \/ CheckProfile(t) \/ ReadRoles(t) \/ ReadKept(t) \/ Rotate(t) \/ Logout(t)
              \/ RevokeUser(t) \/ Abort(t)
       PROVE  RowsOK'
  BY <1>1, <1>10 DEF CheckProfile, ReadRoles, ReadKept, Rotate, Logout, RevokeUser, Abort, accounts
<1>11. ASSUME NEW t \in Thread, WriteLogin(t) \/ SetStatus(t)
       PROVE  RowsOK'
  BY <1>4, <1>5, <1>11 DEF WriteLogin, SetStatus
<1>12. ASSUME NEW t \in Thread, Activate(t) \/ Approve(t) \/ Reject(t) \/ DeleteProfile(t)
       PROVE  RowsOK'
  <2>1. \E st \in Status : WriteStatus(job[t].user, st, {})
    BY <1>12 DEF Activate, Approve, Reject, DeleteProfile, Status
  <2> QED
    BY <1>4, <1>5, <1>12, <2>1 DEF Activate, Approve, Reject, DeleteProfile
<1>13. ASSUME NEW t \in Thread, Apply(t)
       PROVE  RowsOK'
  BY <1>4, <1>5, <1>13 DEF Apply, Status
<1>14. ASSUME NEW t \in Thread, GrantRoles(t) \/ Admit(t) \/ Demote(t)
       PROVE  RowsOK'
  BY <1>1, <1>3, <1>5, <1>14 DEF GrantRoles, Admit, Demote, ReplaceRoles
<1>15. ASSUME NEW t \in Thread, DeleteRoles(t)
       PROVE  RowsOK'
  <2>1. CASE onServer => status[job[t].user] = "active"
    <3>1. /\ roles' = [roles EXCEPT ![job[t].user] = {}]
          /\ UNCHANGED <<status, applied, vouched>>
      BY <1>15, <2>1 DEF DeleteRoles
    <3>2. job[t].user \in User /\ {} \in SUBSET Tenant
      BY <1>5, <1>15 DEF DeleteRoles
    <3> QED
      BY <3>1, <3>2, <1>3
  <2>2. CASE ~(onServer => status[job[t].user] = "active")
    BY <1>1, <1>15, <2>2 DEF DeleteRoles
  <2> QED
    BY <2>1, <2>2
<1>16. ASSUME NEW s \in Session, AccessExpires(s) \/ SessionExpires(s)
       PROVE  RowsOK'
  BY <1>1, <1>16 DEF AccessExpires, SessionExpires, accounts
<1>17. UNCHANGED vars => RowsOK'
  BY <1>1 DEF vars, accounts
<1> QED
  BY <1>6, <1>7, <1>8, <1>9, <1>10, <1>11, <1>12, <1>13, <1>14, <1>15, <1>16, <1>17, Steps

\* Sessions keep their types.  Four actions write them, besides time.
LEMMA SessionActions ==
  ASSUME [Next]_vars
  PROVE  \/ UNCHANGED sessions
         \/ \E t \in Thread, s \in Session : Issue(t, s)
         \/ \E t \in Thread : Rotate(t) \/ Logout(t) \/ RevokeUser(t)
         \/ \E s \in Session : AccessExpires(s) \/ SessionExpires(s)
<1>1. CASE UNCHANGED vars
  BY <1>1 DEF vars
<1>2. CASE Next
  BY <1>2, Steps DEF VerifyLogin, ReadDelete, ReadUpdate, ReadApplication, ReadReview, Resolve,
     SendLogout, WriteLogin, CheckProfile, ReadRoles, Activate, GrantRoles, SetStatus,
     DeleteRoles, DeleteProfile, Apply, Approve, Admit, Demote,
     ReadKept, ListMembers, Reject, Abort, ReplaceRoles
<1> QED
  BY <1>1, <1>2

LEMMA SessionsStep ==
  ASSUME TypeOK, UsersKnown, [Next]_vars
  PROVE  SessionsOK'
<1>1. CASE UNCHANGED sessions
  BY <1>1 DEF SessionsOK, TypeOK, sessions
<1>2. ASSUME NEW t \in Thread, NEW s \in Session, Issue(t, s)
      PROVE  SessionsOK'
  <2>1. job[t].user \in User /\ job[t].tenants \in SUBSET Tenant
    BY <1>2, JobOK DEF UsersKnown, Issue
  <2> QED
    BY <1>2, <2>1 DEF Issue, SessionsOK, TypeOK
<1>3. ASSUME NEW t \in Thread, Rotate(t)
      PROVE  SessionsOK'
  <2> DEFINE s == job[t].session
             g == job[t].generation
  <2>1. s \in Session /\ job[t].tenants \in SUBSET Tenant /\ g \in Generation
    BY <1>3, JobOK DEF Rotate
  <2>2. CASE ~Rotatable(s, g)
    BY <1>3, <2>2 DEF Rotate, SessionsOK, TypeOK
  <2>3. CASE Rotatable(s, g)
    <3>1. /\ generation[s] < MaxRotations
          /\ generation' = [generation EXCEPT ![s] = @ + 1]
          /\ tenants' = [tenants EXCEPT ![s] = job[t].tenants]
          /\ fresh' = fresh \cup {s}
          /\ exchanged' = [exchanged EXCEPT ![s][g] = @ + 1]
          /\ UNCHANGED <<owner, state>>
      BY <1>3, <2>3 DEF Rotate
    <3>2. generation[s] + 1 \in Generation
      BY <2>1, <3>1, ConstantsAssumption DEF TypeOK, Generation
    <3>3. generation' \in [Session -> Generation]
      BY <2>1, <3>1, <3>2 DEF TypeOK
    <3>4. exchanged' \in [Session -> [Generation -> Nat]]
      BY <2>1, <3>1 DEF TypeOK
    <3> QED
      BY <2>1, <3>1, <3>3, <3>4 DEF SessionsOK, TypeOK
  <2> QED
    BY <2>2, <2>3
<1>4. ASSUME NEW t \in Thread, Logout(t)
      PROVE  SessionsOK'
  BY <1>4 DEF Logout, SessionsOK, TypeOK
<1>5. ASSUME NEW t \in Thread, RevokeUser(t)
      PROVE  SessionsOK'
  BY <1>5 DEF RevokeUser, SessionsOK, TypeOK
<1>6. ASSUME NEW s \in Session, AccessExpires(s)
      PROVE  SessionsOK'
  BY <1>6 DEF AccessExpires, SessionsOK, TypeOK
<1>7. ASSUME NEW s \in Session, SessionExpires(s)
      PROVE  SessionsOK'
  BY <1>7 DEF SessionExpires, SessionsOK, TypeOK
<1> QED
  BY <1>1, <1>2, <1>3, <1>4, <1>5, <1>6, <1>7, SessionActions

LEMMA TypeInit == Init => TypeOK /\ UsersKnown
<1> SUFFICES ASSUME Init
             PROVE  TypeOK /\ UsersKnown
  OBVIOUS
<1>1. RowsOK
  BY DEF Init, RowsOK, Status
<1>2. SessionsOK
  BY ConstantsAssumption DEF Init, SessionsOK, Generation
<1>3. RequestsOK /\ UsersKnown
  BY DEF Init, RequestsOK, UsersKnown, Position
<1> QED
  BY <1>1, <1>2, <1>3, TypeParts

LEMMA TypeStep ==
  ASSUME TypeOK, UsersKnown, [Next]_vars
  PROVE  TypeOK' /\ UsersKnown'
<1>1. RowsOK' /\ SessionsOK' /\ RequestsOK' /\ UsersKnown'
  BY RowsStep, SessionsStep, RequestsStep
<1> QED
  BY <1>1 DEF TypeOK, RowsOK, SessionsOK, RequestsOK

\* Accounts, assignments, sessions and requests always have their types.
THEOREM TypeCorrect == Spec => []TypeOK
<1>1. Init => TypeOK /\ UsersKnown
  BY TypeInit
<1>2. (TypeOK /\ UsersKnown) /\ [Next]_vars => (TypeOK /\ UsersKnown)'
  BY TypeStep
<1> QED
  BY <1>1, <1>2, PTL DEF Spec
-----------------------------------------------------------------------------
\* An account waiting for its review has applied for a tenant.
Invited == \A u \in User : status[u] = "invited" => applied[u] # {}

\* What a request is about to write has been decided on.
Entitled == \A t \in Thread :
  /\ pc[t] \in {"granting", "updating", "activated", "granted", "approving", "admitting"} =>
       job[t].tenants # {} /\ job[t].tenants \subseteq vouched[job[t].user]
  /\ pc[t] \in {"listed", "demoting"} => job[t].tenants \subseteq vouched[job[t].user]
  /\ pc[t] \in {"updating", "activated", "granted"} => job[t].status \in {"active", "inactive"}
  /\ pc[t] = "applying" => job[t].tenants # {}
  /\ pc[t] = "verified" => job[t].status = "active" /\ vouched[job[t].user] # {}

\* The rows: NobodyEntersUnvouched without the sessions.
AccountsVouched == \A u \in User :
  /\ status[u] = "active" => vouched[u] # {}
  /\ roles[u] \subseteq vouched[u]

SessionsVouched == \A s \in Session :
  /\ Issued(s) => tenants[s] # {} /\ tenants[s] \subseteq vouched[owner[s]]
  /\ ~Issued(s) => state[s] = "live"

IInv ==
  /\ TypeOK /\ UsersKnown
  /\ TokensAreExchangedOnce
  /\ Invited /\ Entitled /\ AccountsVouched /\ SessionsVouched

\* What was decided stays decided; who decides is ReadUpdate and ReadReview.
LEMMA VouchedGrows ==
  ASSUME TypeOK, [Next]_vars
  PROVE  \A u \in User : vouched[u] \subseteq vouched'[u]
<1>1. ASSUME UNCHANGED vouched
      PROVE  \A u \in User : vouched[u] \subseteq vouched'[u]
  BY <1>1
<1>2. ASSUME NEW t \in Thread, NEW u \in User, NEW ts \in (SUBSET Tenant) \ {{}},
             NEW st \in {"active", "inactive"}, ReadUpdate(t, u, ts, st)
      PROVE  \A v \in User : vouched[v] \subseteq vouched'[v]
  BY <1>2 DEF ReadUpdate, TypeOK
<1>3. ASSUME NEW t \in Thread, NEW u \in User, NEW ok \in BOOLEAN, ReadReview(t, u, ok)
      PROVE  \A v \in User : vouched[v] \subseteq vouched'[v]
  <2>1. CASE ok
    BY <1>3, <2>1 DEF ReadReview, TypeOK
  <2> QED
    BY <1>1, <1>3, <2>1 DEF ReadReview
<1>4. CASE UNCHANGED vars
  BY <1>1, <1>4 DEF vars, accounts
<1> QED
  BY <1>1, <1>2, <1>3, <1>4, Steps DEF VerifyLogin, ReadDelete, ReadApplication, Resolve, Issue,
     SendLogout, WriteLogin, CheckProfile, ReadRoles, Rotate, Logout, Activate, GrantRoles, SetStatus,
     DeleteRoles, DeleteProfile, RevokeUser, Apply, Approve, Admit, Demote,
     ReadKept, ListMembers, Reject, Abort, ReplaceRoles,
     AccessExpires, SessionExpires, accounts

LEMMA TokensStep ==
  ASSUME TypeOK, UsersKnown, TokensAreExchangedOnce, [Next]_vars
  PROVE  TokensAreExchangedOnce'
<1>1. ASSUME UNCHANGED <<generation, exchanged>>
      PROVE  TokensAreExchangedOnce'
  BY <1>1 DEF TokensAreExchangedOnce
<1>2. ASSUME NEW t \in Thread, Rotate(t)
      PROVE  TokensAreExchangedOnce'
  <2> DEFINE s == job[t].session
             g == job[t].generation
  <2>1. s \in Session /\ g \in Generation
    BY <1>2, JobOK DEF Rotate
  <2>2. CASE ~Rotatable(s, g)
    BY <1>1, <1>2, <2>2 DEF Rotate
  <2>3. CASE Rotatable(s, g)
    <3>1. /\ generation[s] = g
          /\ generation' = [generation EXCEPT ![s] = @ + 1]
          /\ exchanged' = [exchanged EXCEPT ![s][g] = @ + 1]
      BY <1>2, <2>3 DEF Rotate, Rotatable
    <3>2. exchanged[s][g] = 0
      BY <2>1, <3>1, ConstantsAssumption DEF TokensAreExchangedOnce, Generation
    <3>3. \A r \in Session \ {s} : generation'[r] = generation[r] /\ exchanged'[r] = exchanged[r]
      BY <2>1, <3>1 DEF TypeOK
    <3>4. /\ generation'[s] = g + 1 /\ exchanged'[s][g] = 1
          /\ \A h \in Generation \ {g} : exchanged'[s][h] = exchanged[s][h]
      BY <2>1, <3>1, <3>2 DEF TypeOK
    <3>5. \A h \in Generation : exchanged'[s][h] = IF h < generation'[s] THEN 1 ELSE 0
      BY <2>1, <3>1, <3>4, ConstantsAssumption DEF TokensAreExchangedOnce, Generation
    <3> QED
      BY <3>3, <3>5 DEF TokensAreExchangedOnce
  <2> QED
    BY <2>2, <2>3
<1> QED
  BY <1>1, <1>2, SessionActions DEF Issue, Logout, RevokeUser, AccessExpires, SessionExpires, sessions

LEMMA InvitedStep ==
  ASSUME IInv, [Next]_vars
  PROVE  Invited'
<1>1. ASSUME UNCHANGED <<status, applied>>
      PROVE  Invited'
  BY <1>1 DEF IInv, Invited
<1>2. ASSUME NEW u \in User, NEW st \in Status, NEW ts \in SUBSET Tenant, WriteStatus(u, st, ts),
             st = "invited" => ts # {}
      PROVE  Invited'
  BY <1>2 DEF IInv, Invited, WriteStatus, TypeOK
<1>3. ASSUME NEW t \in Thread, pc[t] # "idle"
      PROVE  job[t].user \in User /\ job[t].tenants \in SUBSET Tenant
  BY <1>3, JobOK DEF IInv, UsersKnown
<1>4. ASSUME NEW t \in Thread, WriteLogin(t) \/ SetStatus(t)
      PROVE  Invited'
  <2>1. job[t].status \in {"active", "inactive"}
    BY <1>4 DEF WriteLogin, SetStatus, IInv, Entitled
  <2> QED
    BY <1>2, <1>3, <1>4, <2>1 DEF WriteLogin, SetStatus, Status
<1>5. ASSUME NEW t \in Thread, Activate(t) \/ Approve(t) \/ Reject(t) \/ DeleteProfile(t)
      PROVE  Invited'
  <2>1. \E st \in {"active", "inactive", "absent"} : WriteStatus(job[t].user, st, {})
    BY <1>5 DEF Activate, Approve, Reject, DeleteProfile
  <2> QED
    BY <1>2, <1>3, <1>5, <2>1 DEF Activate, Approve, Reject, DeleteProfile, Status
<1>6. ASSUME NEW t \in Thread, Apply(t)
      PROVE  Invited'
  <2>1. job[t].tenants # {}
    BY <1>6 DEF Apply, IInv, Entitled
  <2> QED
    BY <1>2, <1>3, <1>6, <2>1 DEF Apply, Status
<1>7. CASE UNCHANGED vars
  BY <1>1, <1>7 DEF vars, accounts
<1> QED
  BY <1>1, <1>4, <1>5, <1>6, <1>7, Steps DEF VerifyLogin, ReadDelete, ReadUpdate, ReadReview,
     ReadApplication, Resolve, Issue, SendLogout, CheckProfile, ReadRoles, Rotate, Logout, GrantRoles,
     DeleteRoles, RevokeUser, Admit, Demote,
     ReadKept, ListMembers, Abort, ReplaceRoles, AccessExpires, SessionExpires, accounts

LEMMA AccountsStep ==
  ASSUME IInv, [Next]_vars
  PROVE  AccountsVouched'
<1>1. \A u \in User : vouched[u] \subseteq vouched'[u]
  BY VouchedGrows DEF IInv
<1>2. ASSUME UNCHANGED <<status, roles>>
      PROVE  AccountsVouched'
  BY <1>1, <1>2 DEF IInv, AccountsVouched
<1>3. ASSUME NEW u \in User, NEW st \in Status, NEW ts \in SUBSET Tenant, WriteStatus(u, st, ts),
             UNCHANGED roles, st = "active" => vouched[u] # {}
      PROVE  AccountsVouched'
  BY <1>1, <1>3 DEF IInv, AccountsVouched, WriteStatus, TypeOK
<1>4. ASSUME NEW u \in User, NEW ts \in SUBSET Tenant, roles' = [roles EXCEPT ![u] = ts],
             UNCHANGED status, ts \subseteq vouched[u]
      PROVE  AccountsVouched'
  BY <1>1, <1>4 DEF IInv, AccountsVouched, TypeOK
<1>5. ASSUME NEW t \in Thread, pc[t] # "idle"
      PROVE  job[t].user \in User /\ job[t].tenants \in SUBSET Tenant /\ job[t].status \in Status
  BY <1>5, JobOK DEF IInv, UsersKnown
<1>6. ASSUME NEW t \in Thread, WriteLogin(t) \/ SetStatus(t)
      PROVE  AccountsVouched'
  <2>1. vouched[job[t].user] # {}
    BY <1>6 DEF WriteLogin, SetStatus, IInv, Entitled
  <2> QED
    BY <1>3, <1>5, <1>6, <2>1 DEF WriteLogin, SetStatus
<1>7. ASSUME NEW t \in Thread, Activate(t) \/ Approve(t)
      PROVE  AccountsVouched'
  <2>1. vouched[job[t].user] # {}
    BY <1>7 DEF Activate, Approve, IInv, Entitled
  <2> QED
    BY <1>3, <1>5, <1>7, <2>1 DEF Activate, Approve, Status
<1>8. ASSUME NEW t \in Thread, Reject(t) \/ DeleteProfile(t)
      PROVE  AccountsVouched'
  <2>1. \E st \in {"inactive", "absent"} : WriteStatus(job[t].user, st, {})
    BY <1>8 DEF Reject, DeleteProfile
  <2> QED
    BY <1>3, <1>5, <1>8, <2>1 DEF Reject, DeleteProfile, Status
<1>9. ASSUME NEW t \in Thread, Apply(t)
      PROVE  AccountsVouched'
  BY <1>3, <1>5, <1>9 DEF Apply, Status
<1>10. ASSUME NEW t \in Thread, GrantRoles(t) \/ Admit(t) \/ Demote(t)
       PROVE  AccountsVouched'
  <2>1. job[t].tenants \subseteq vouched[job[t].user]
    BY <1>10 DEF GrantRoles, Admit, Demote, ReplaceRoles, IInv, Entitled
  <2> QED
    BY <1>2, <1>4, <1>5, <1>10, <2>1 DEF GrantRoles, Admit, Demote, ReplaceRoles
<1>11. ASSUME NEW t \in Thread, DeleteRoles(t)
       PROVE  AccountsVouched'
  <2>1. CASE onServer => status[job[t].user] = "active"
    <3>1. roles' = [roles EXCEPT ![job[t].user] = {}] /\ UNCHANGED status
      BY <1>11, <2>1 DEF DeleteRoles
    <3>2. job[t].user \in User /\ {} \in SUBSET Tenant /\ {} \subseteq vouched[job[t].user]
      BY <1>5, <1>11 DEF DeleteRoles
    <3> QED
      BY <3>1, <3>2, <1>4
  <2>2. CASE ~(onServer => status[job[t].user] = "active")
    BY <1>2, <1>11, <2>2 DEF DeleteRoles
  <2> QED
    BY <2>1, <2>2
<1>12. CASE UNCHANGED vars
  BY <1>2, <1>12 DEF vars, accounts
<1> QED
  BY <1>2, <1>6, <1>7, <1>8, <1>9, <1>10, <1>11, <1>12, Steps DEF VerifyLogin, ReadDelete, ReadUpdate,
     ReadReview, ReadApplication, Resolve, Issue, SendLogout, CheckProfile, ReadRoles, Rotate, Logout,
     RevokeUser, ReadKept, ListMembers, Abort, AccessExpires, SessionExpires, accounts

LEMMA SessionsVouchedStep ==
  ASSUME IInv, [Next]_vars
  PROVE  SessionsVouched'
<1>1. \A u \in User : vouched[u] \subseteq vouched'[u]
  BY VouchedGrows DEF IInv
<1>2. \A s \in Session : Issued(s) => owner[s] \in User
  BY DEF IInv, TypeOK, Issued
<1>3. ASSUME UNCHANGED <<owner, tenants, state>>
      PROVE  SessionsVouched'
  BY <1>1, <1>2, <1>3 DEF IInv, SessionsVouched, Issued
<1>4. ASSUME NEW t \in Thread, pc[t] = "granting"
      PROVE  /\ job[t].user \in User
             /\ job[t].tenants # {} /\ job[t].tenants \subseteq vouched[job[t].user]
             /\ job[t].session \in Session => owner[job[t].session] = job[t].user
  BY <1>4 DEF IInv, Entitled, UsersKnown
<1>5. ASSUME NEW t \in Thread, NEW s \in Session, Issue(t, s)
      PROVE  SessionsVouched'
  <2>1. CASE onServer => status[job[t].user] = "active"
    <3>1. /\ owner' = [owner EXCEPT ![s] = job[t].user]
          /\ tenants' = [tenants EXCEPT ![s] = job[t].tenants]
          /\ UNCHANGED <<state, vouched>>
      BY <1>5, <2>1 DEF Issue, accounts
    <3>2. job[t].user # NoUser
      BY <1>4, <1>5, ConstantsAssumption DEF Issue
    <3> QED
      BY <3>1, <3>2, <1>4, <1>5 DEF IInv, SessionsVouched, Issued, TypeOK, Issue
  <2>2. CASE ~(onServer => status[job[t].user] = "active")
    BY <1>3, <1>5, <2>2 DEF Issue
  <2> QED
    BY <2>1, <2>2
<1>6. ASSUME NEW t \in Thread, Rotate(t)
      PROVE  SessionsVouched'
  <2> DEFINE s == job[t].session
             g == job[t].generation
  <2>1. s \in Session
    BY <1>6, JobOK DEF Rotate, IInv
  <2>2. CASE ~Rotatable(s, g)
    BY <1>3, <1>6, <2>2 DEF Rotate
  <2>3. CASE Rotatable(s, g)
    <3>1. /\ tenants' = [tenants EXCEPT ![s] = job[t].tenants]
          /\ UNCHANGED <<owner, state, vouched>>
      BY <1>6, <2>3 DEF Rotate, accounts
    <3>2. /\ job[t].tenants # {} /\ job[t].tenants \subseteq vouched[owner[s]]
      BY <1>4, <1>6, <2>1 DEF Rotate
    <3> QED
      BY <2>1, <3>1, <3>2 DEF IInv, SessionsVouched, Issued, TypeOK
  <2> QED
    BY <2>2, <2>3
<1>7. ASSUME NEW t \in Thread, Logout(t) \/ RevokeUser(t)
      PROVE  SessionsVouched'
  <2>1. UNCHANGED <<owner, tenants, vouched>>
    BY <1>7 DEF Logout, RevokeUser, accounts
  <2>2. job[t].user \in User
    BY <1>7 DEF IInv, UsersKnown, Logout, RevokeUser
  <2>3. job[t].session \in Session => Issued(job[t].session)
    BY <1>7, <2>2, ConstantsAssumption DEF IInv, UsersKnown, Issued, Logout, RevokeUser
  <2>4. \A s \in Session : ~Issued(s) => state'[s] = state[s]
    BY <1>7, <2>2, <2>3, ConstantsAssumption DEF Logout, RevokeUser, Issued, IInv, TypeOK
  <2> QED
    BY <2>1, <2>4 DEF IInv, SessionsVouched, Issued
<1>8. ASSUME NEW s \in Session, AccessExpires(s) \/ SessionExpires(s)
      PROVE  SessionsVouched'
  BY <1>3, <1>8 DEF AccessExpires, SessionExpires, IInv, SessionsVouched, Issued, TypeOK, accounts
<1> QED
  BY <1>3, <1>5, <1>6, <1>7, <1>8, SessionActions DEF sessions

\* One request moves, and what it carries is what has been decided.
LEMMA EntitledStep ==
  ASSUME IInv, [Next]_vars
  PROVE  Entitled'
<1> DEFINE Carries(t) ==
      /\ pc[t] \in {"granting", "updating", "activated", "granted", "approving", "admitting"} =>
           job[t].tenants # {} /\ job[t].tenants \subseteq vouched[job[t].user]
      /\ pc[t] \in {"listed", "demoting"} => job[t].tenants \subseteq vouched[job[t].user]
      /\ pc[t] \in {"updating", "activated", "granted"} => job[t].status \in {"active", "inactive"}
      /\ pc[t] = "applying" => job[t].tenants # {}
      /\ pc[t] = "verified" => job[t].status = "active" /\ vouched[job[t].user] # {}
<1>1. TypeOK /\ UsersKnown /\ Entitled /\ AccountsVouched /\ Invited
  BY DEF IInv
<1>2. \A u \in User : vouched[u] \subseteq vouched'[u]
  BY <1>1, VouchedGrows
<1>3. ASSUME NEW r \in Thread, pc'[r] = pc[r], job'[r] = job[r]
      PROVE  Carries(r)'
  <2>1. CASE pc[r] = "idle"
    BY <1>3, <2>1
  <2>2. CASE pc[r] # "idle"
    <3>1. job[r].user \in User
      BY <1>1, <2>2 DEF UsersKnown
    <3> QED
      BY <1>1, <1>2, <1>3, <3>1 DEF Entitled
  <2> QED
    BY <2>1, <2>2
<1>4. ASSUME NEW t \in Thread, Carries(t)',
             \A r \in Thread \ {t} : pc'[r] = pc[r] /\ job'[r] = job[r]
      PROVE  Entitled'
  <2>1. \A r \in Thread : Carries(r)'
    BY <1>3, <1>4
  <2> QED
    BY <2>1 DEF Entitled
<1>5. ASSUME UNCHANGED <<pc, job>>
      PROVE  Entitled'
  <2>1. \A r \in Thread : Carries(r)'
    BY <1>3, <1>5
  <2> QED
    BY <2>1 DEF Entitled
<1>6. ASSUME NEW t \in Thread, End(t)
      PROVE  Entitled'
  <2>1. pc'[t] = "idle" /\ \A r \in Thread \ {t} : pc'[r] = pc[r] /\ job'[r] = job[r]
    BY <1>1, <1>6, EndOK
  <2> QED
    BY <2>1, <1>4
<1>7. ASSUME NEW t \in Thread, NEW position \in Position, pc[t] # "idle", Goto(t, position), UNCHANGED job,
             \/ position \in {"entered", "sweeping", "removing"}
             \/ /\ position \in {"activated", "granted"}
                /\ pc[t] \in {"updating", "activated"}
             \/ position = "admitting" /\ pc[t] = "approving"
      PROVE  Entitled'
  <2>1. /\ pc'[t] = position /\ job' = job
        /\ \A r \in Thread \ {t} : pc'[r] = pc[r]
    BY <1>1, <1>7, GotoOK
  <2>2. job[t].user \in User
    BY <1>1, <1>7 DEF UsersKnown
  <2>3. CASE position \in {"entered", "sweeping", "removing"}
    BY <1>4, <2>1, <2>3
  <2>4. CASE position \in {"activated", "granted"} /\ pc[t] \in {"updating", "activated"}
    <3>1. job[t].tenants # {} /\ job[t].tenants \subseteq vouched'[job[t].user]
          /\ job[t].status \in {"active", "inactive"}
      BY <1>1, <1>2, <2>2, <2>4 DEF Entitled
    <3>2. Carries(t)'
      BY <2>1, <2>4, <3>1
    <3> QED
      BY <1>4, <2>1, <3>2
  <2>5. CASE position = "admitting" /\ pc[t] = "approving"
    <3>1. job[t].tenants # {} /\ job[t].tenants \subseteq vouched'[job[t].user]
      BY <1>1, <1>2, <2>2, <2>5 DEF Entitled
    <3>2. Carries(t)'
      BY <2>1, <2>5, <3>1
    <3> QED
      BY <1>4, <2>1, <3>2
  <2> QED
    BY <1>7, <2>3, <2>4, <2>5
<1>8. ASSUME NEW t \in Thread, NEW position \in Position, NEW u \in User, NEW ts \in SUBSET Tenant,
             NEW st \in Status, NEW s \in Session \cup {NoSession},
             Begin(t, position, u, ts, st, s),
             position \in {"updating", "approving"} => ts # {} /\ ts \subseteq vouched'[u],
             position = "listed" => ts \subseteq vouched'[u],
             position = "updating" => st \in {"active", "inactive"},
             position = "applying" => ts # {},
             position = "verified" => st = "active" /\ vouched'[u] # {},
             position \notin {"granting", "activated", "granted", "admitting", "demoting"}
      PROVE  Entitled'
  <2>1. /\ job'[t].user = u /\ job'[t].tenants = ts /\ job'[t].status = st
        /\ pc'[t] = position
        /\ \A r \in Thread \ {t} : pc'[r] = pc[r] /\ job'[r] = job[r]
    BY <1>1, <1>8, BeginOK
  <2>2. Carries(t)'
    BY <1>8, <2>1
  <2> QED
    BY <1>4, <2>1, <2>2
<1> HIDE DEF Carries
<1>9. ASSUME NEW t \in Thread, NEW u \in User, VerifyLogin(t, u)
      PROVE  Entitled'
  <2>1. vouched'[u] # {}
    BY <1>1, <1>9 DEF VerifyLogin, AccountsVouched, accounts
  <2>2. Begin(t, "verified", u, {}, "active", NoSession)
    BY <1>9 DEF VerifyLogin
  <2> QED
    BY <1>8, <2>1, <2>2 DEF Position, Status
<1>10. ASSUME NEW t \in Thread, NEW u \in User, ReadDelete(t, u)
       PROVE  Entitled'
  BY <1>8, <1>10 DEF ReadDelete, Position, Status
<1>11. ASSUME NEW t \in Thread, NEW u \in User, NEW ts \in (SUBSET Tenant) \ {{}},
              NEW st \in {"active", "inactive"}, ReadUpdate(t, u, ts, st)
       PROVE  Entitled'
  <2>1. roles[u] \cup ts \in SUBSET Tenant /\ roles[u] \cup ts # {} /\ st \in Status
        /\ "updating" \in Position /\ NoSession \in Session \cup {NoSession}
    BY <1>1 DEF TypeOK, Status, Position
  <2>2. roles[u] \cup ts \subseteq vouched'[u]
    BY <1>1, <1>11 DEF ReadUpdate, TypeOK, AccountsVouched
  <2>3. Begin(t, "updating", u, roles[u] \cup ts, st, NoSession)
    BY <1>11 DEF ReadUpdate
  <2> HIDE <1>11
  <2> QED
    BY <1>8, <2>1, <2>2, <2>3
<1>12. ASSUME NEW t \in Thread, NEW u \in User, NEW x \in Tenant, ReadApplication(t, u, x)
       PROVE  Entitled'
  <2>1. {x} \in SUBSET Tenant /\ {x} # {} /\ "invited" \in Status /\ "applying" \in Position
        /\ Begin(t, "applying", u, {x}, "invited", NoSession)
    BY <1>12 DEF Status, Position, ReadApplication
  <2> QED
    BY <1>8, <2>1
<1>13. ASSUME NEW t \in Thread, NEW u \in User, NEW ok \in BOOLEAN, ReadReview(t, u, ok)
       PROVE  Entitled'
  <2>1. /\ applied[u] \in SUBSET Tenant /\ applied[u] # {} /\ "invited" \in Status
        /\ "approving" \in Position /\ "rejecting" \in Position
        /\ NoSession \in Session \cup {NoSession}
    BY <1>1, <1>13 DEF TypeOK, Invited, ReadReview, Status, Position
  <2>2. CASE ok
    <3>1. Begin(t, "approving", u, applied[u], "invited", NoSession)
      BY <1>13, <2>2 DEF ReadReview
    <3>2. applied[u] \subseteq vouched'[u]
      BY <1>1, <1>13, <2>2 DEF ReadReview, TypeOK
    <3> QED
      BY <1>8, <2>1, <3>1, <3>2
  <2>3. CASE ~ok
    <3>1. Begin(t, "rejecting", u, applied[u], "invited", NoSession)
      BY <1>13, <2>3 DEF ReadReview
    <3> QED
      BY <1>8, <2>1, <3>1
  <2> QED
    BY <2>2, <2>3
<1>14. ASSUME NEW t \in Thread, NEW s \in Session,
              (\E ts \in SUBSET Tenant : Resolve(t, s, ts)) \/ SendLogout(t, s)
       PROVE  Entitled'
  <2>1. owner[s] \in User /\ "active" \in Status /\ {} \in SUBSET Tenant
        /\ "resolved" \in Position /\ "leaving" \in Position
    BY <1>1, <1>14 DEF Resolve, SendLogout, Issued, TypeOK, Status, Position
  <2>2. ASSUME NEW ts \in SUBSET Tenant, Resolve(t, s, ts)
        PROVE  Entitled'
    BY <1>8, <2>1, <2>2 DEF Resolve
  <2>3. CASE SendLogout(t, s)
    BY <1>8, <2>1, <2>3 DEF SendLogout
  <2> QED
    BY <1>14, <2>2, <2>3
<1>15. ASSUME NEW t \in Thread,
              \/ \E s \in Session : Issue(t, s)
              \/ Rotate(t) \/ Logout(t) \/ RevokeUser(t)
              \/ Apply(t) \/ Reject(t) \/ Abort(t)
       PROVE  Entitled'
  BY <1>6, <1>15 DEF Issue, Rotate, Logout, RevokeUser, Apply, Reject, Abort
<1>16. ASSUME NEW t \in Thread, WriteLogin(t) \/ SetStatus(t) \/ DeleteRoles(t) \/ DeleteProfile(t)
       PROVE  Entitled'
  <2>1. /\ pc[t] # "idle" /\ UNCHANGED job
        /\ Goto(t, "entered") \/ Goto(t, "sweeping") \/ Goto(t, "removing")
    BY <1>16 DEF WriteLogin, SetStatus, DeleteRoles, DeleteProfile
  <2> QED
    BY <1>7, <2>1 DEF Position
<1>17. ASSUME NEW t \in Thread, Activate(t) \/ Approve(t)
       PROVE  Entitled'
  BY <1>7, <1>17 DEF Activate, Approve, Position
<1>18. ASSUME NEW t \in Thread, CheckProfile(t)
       PROVE  Entitled'
  BY <1>6, <1>7, <1>18 DEF CheckProfile, Position
<1>19. ASSUME NEW t \in Thread, GrantRoles(t) \/ Admit(t) \/ Demote(t)
       PROVE  Entitled'
  <2>1. /\ pc[t] # "idle"
        /\ End(t) \/ (pc[t] = "activated" /\ Goto(t, "granted") /\ UNCHANGED job)
    BY <1>19 DEF GrantRoles, Admit, Demote, ReplaceRoles
  <2> QED
    BY <1>6, <1>7, <2>1 DEF Position
<1>20. ASSUME NEW t \in Thread, ReadRoles(t)
       PROVE  Entitled'
  <2> DEFINE u == job[t].user
  <2>1. u \in User /\ job[t] \in Job /\ roles[u] \in SUBSET Tenant
    BY <1>1, <1>20 DEF ReadRoles, UsersKnown, TypeOK
  <2>2. CASE ~(roles[u] # {} /\ job[t].tenants \subseteq roles[u])
    BY <1>6, <1>20, <2>2 DEF ReadRoles
  <2>3. CASE roles[u] # {} /\ job[t].tenants \subseteq roles[u]
    <3>1. /\ pc' = [pc EXCEPT ![t] = "granting"]
          /\ job' = [job EXCEPT ![t] = [job[t] EXCEPT !.tenants = roles[u]]]
          /\ vouched' = vouched
      BY <1>20, <2>3 DEF ReadRoles, Goto, accounts
    <3>2. /\ pc'[t] = "granting" /\ job'[t] = [job[t] EXCEPT !.tenants = roles[u]]
          /\ \A r \in Thread \ {t} : pc'[r] = pc[r] /\ job'[r] = job[r]
      BY <1>1, <3>1 DEF TypeOK
    <3>3. job'[t].user = u /\ job'[t].tenants = roles[u]
      BY <2>1, <3>2 DEF Job
    <3>4. roles[u] # {} /\ roles[u] \subseteq vouched'[u]
      BY <1>1, <2>1, <2>3, <3>1 DEF AccountsVouched
    <3>5. Carries(t)'
      BY <3>2, <3>3, <3>4 DEF Carries
    <3> QED
      BY <1>4, <3>2, <3>5
  <2> QED
    BY <2>2, <2>3
<1>21. ASSUME NEW s \in Session, AccessExpires(s) \/ SessionExpires(s)
       PROVE  Entitled'
  BY <1>5, <1>21 DEF AccessExpires, SessionExpires
<1>22. CASE UNCHANGED vars
  BY <1>5, <1>22 DEF vars
<1>23. ASSUME NEW t \in Thread, NEW u \in User, NEW x \in Tenant, ListMembers(t, u, x)
       PROVE  Entitled'
  <2>1. {x} \in SUBSET Tenant /\ "active" \in Status /\ "listed" \in Position
        /\ Begin(t, "listed", u, {x}, "active", NoSession)
    BY <1>23 DEF Status, Position, ListMembers
  <2>2. {x} \subseteq vouched'[u]
    BY <1>1, <1>23 DEF ListMembers, AccountsVouched, accounts
  <2> QED
    BY <1>8, <2>1, <2>2
<1>24. ASSUME NEW t \in Thread, ReadKept(t)
       PROVE  Entitled'
  <2> DEFINE u == job[t].user
  <2>1. u \in User /\ job[t] \in Job /\ roles[u] \in SUBSET Tenant
    BY <1>1, <1>24 DEF ReadKept, UsersKnown, TypeOK
  <2>2. PICK kept \in {roles[u] \cup job[t].tenants, roles[u] \ job[t].tenants} :
          job' = [job EXCEPT ![t] = [job[t] EXCEPT !.tenants = kept]]
    BY <1>24 DEF ReadKept
  <2>3. pc[t] = "listed" /\ pc' = [pc EXCEPT ![t] = "demoting"] /\ vouched' = vouched
    BY <1>24 DEF ReadKept, Goto, accounts
  <2>4. /\ pc'[t] = "demoting" /\ job'[t] = [job[t] EXCEPT !.tenants = kept]
        /\ \A r \in Thread \ {t} : pc'[r] = pc[r] /\ job'[r] = job[r]
    BY <1>1, <2>2, <2>3 DEF TypeOK
  <2>5. job'[t].user = u /\ job'[t].tenants = kept
    BY <2>1, <2>4 DEF Job
  <2>6. kept \subseteq vouched'[u]
    BY <1>1, <2>1, <2>3 DEF Entitled, AccountsVouched
  <2>7. Carries(t)'
    BY <2>4, <2>5, <2>6 DEF Carries
  <2> QED
    BY <1>4, <2>4, <2>7
<1> QED
  BY <1>9, <1>10, <1>11, <1>12, <1>13, <1>14, <1>15, <1>16, <1>17, <1>18, <1>19, <1>20, <1>21, <1>22,
     <1>23, <1>24, Steps

LEMMA Inductive == IInv /\ [Next]_vars => IInv'
<1> SUFFICES ASSUME IInv, [Next]_vars
             PROVE  IInv'
  OBVIOUS
<1>1. TypeOK' /\ UsersKnown'
  BY TypeStep DEF IInv
<1>2. TokensAreExchangedOnce'
  BY TokensStep DEF IInv
<1>3. Invited' /\ Entitled' /\ AccountsVouched' /\ SessionsVouched'
  BY InvitedStep, EntitledStep, AccountsStep, SessionsVouchedStep
<1> QED
  BY <1>1, <1>2, <1>3 DEF IInv

LEMMA Initially == Init => IInv
<1> SUFFICES ASSUME Init
             PROVE  IInv
  OBVIOUS
<1>1. TypeOK /\ UsersKnown
  BY TypeInit
<1>2. TokensAreExchangedOnce
  BY ConstantsAssumption DEF Init, TokensAreExchangedOnce, Generation
<1>3. Invited /\ Entitled /\ SessionsVouched
  BY DEF Init, Invited, Entitled, SessionsVouched, Issued
<1>4. AccountsVouched
  BY DEF Init, AccountsVouched
<1> QED
  BY <1>1, <1>2, <1>3, <1>4 DEF IInv

\* Of any number of refreshes and tenant switches that race with one refresh
\* token, one succeeds.
THEOREM ExchangedOnce == Spec => []TokensAreExchangedOnce
<1>1. IInv => TokensAreExchangedOnce
  BY DEF IInv
<1> QED
  BY <1>1, Initially, Inductive, PTL DEF Spec

\* However handlers of any number of threads cross, die or fail, accounts,
\* roles and sessions stay within what an administrator has decided.
THEOREM Vouched == Spec => []NobodyEntersUnvouched
<1>1. IInv => NobodyEntersUnvouched
  BY DEF IInv, NobodyEntersUnvouched, AccountsVouched, SessionsVouched
<1> QED
  BY <1>1, Initially, Inductive, PTL DEF Spec

\* No refresh renews a session that was revoked or has run out, though it
\* found it live when it began.
THEOREM EndedStayEnded == Spec => EndedSessionsStayEnded
<1> DEFINE Stays == \A s \in Session : state[s] # "live" =>
              /\ state'[s] # "live"
              /\ generation'[s] = generation[s]
              /\ tenants'[s] = tenants[s]
<1>1. ASSUME IInv, [Next]_vars
      PROVE  Stays
  <2>1. TypeOK /\ SessionsVouched
    BY <1>1 DEF IInv
  <2>2. CASE UNCHANGED sessions
    BY <2>2 DEF sessions
  <2>3. ASSUME NEW t \in Thread, NEW s \in Session, Issue(t, s)
        PROVE  Stays
    <3>1. state[s] = "live"
      BY <2>1, <2>3 DEF Issue, SessionsVouched
    <3> QED
      BY <2>1, <2>3, <3>1 DEF Issue, TypeOK
  <2>4. ASSUME NEW t \in Thread, Rotate(t)
        PROVE  Stays
    <3>1. CASE Rotatable(job[t].session, job[t].generation)
      BY <2>1, <2>4, <3>1 DEF Rotate, Rotatable, TypeOK
    <3>2. CASE ~Rotatable(job[t].session, job[t].generation)
      BY <2>4, <3>2 DEF Rotate
    <3> QED
      BY <3>1, <3>2
  <2>5. ASSUME NEW t \in Thread, Logout(t) \/ RevokeUser(t)
        PROVE  Stays
    BY <2>1, <2>5 DEF Logout, RevokeUser, TypeOK
  <2>6. ASSUME NEW s \in Session, AccessExpires(s) \/ SessionExpires(s)
        PROVE  Stays
    BY <2>1, <2>6 DEF AccessExpires, SessionExpires, TypeOK
  <2> QED
    BY <1>1, <2>2, <2>3, <2>4, <2>5, <2>6, SessionActions
<1>2. IInv /\ [Next]_vars => [Stays]_vars
  BY <1>1
<1> QED
  BY <1>2, Initially, Inductive, PTL DEF Spec, EndedSessionsStayEnded

-----------------------------------------------------------------------------
(* Where sessions do end with the account. *)

\* No two handlers are at work for one user.
Apart ==
  \A t, v \in Thread :
    pc[t] # "idle" /\ pc[v] # "idle" /\ job[t].user = job[v].user => t = v

\* What a handler found of its user's account still holds.
Current == \A t \in Thread :
  /\ pc[t] \in {"verified", "entered", "granting"} => status[job[t].user] = "active"
  /\ pc[t] = "verified" => job[t].status = "active"
  /\ pc[t] = "applying" => status[job[t].user] \in {"absent", "inactive"}
  /\ pc[t] \in {"approving", "rejecting"} => status[job[t].user] = "invited"

\* A live session is one of an active account, or somebody is about to revoke it.
Covered == \A s \in Session :
  Issued(s) /\ state[s] = "live" =>
    \/ status[owner[s]] = "active"
    \/ \E t \in Thread : pc[t] = "sweeping" /\ job[t].user = owner[s]

\* Handlers that are kept apart, none of which ends early, keep both on SQLite.
LEMMA CoveredStep ==
  ASSUME ~Faulty, IInv, Apart, ~onServer, Current, Covered, [Next]_vars
  PROVE  Current' /\ Covered'
<1> DEFINE Knows(t) ==
      /\ pc[t] \in {"verified", "entered", "granting"} => status[job[t].user] = "active"
      /\ pc[t] = "verified" => job[t].status = "active"
      /\ pc[t] = "applying" => status[job[t].user] \in {"absent", "inactive"}
      /\ pc[t] \in {"approving", "rejecting"} => status[job[t].user] = "invited"
<1>t. TypeOK /\ UsersKnown
  BY DEF IInv
<1>u. ASSUME NEW t \in Thread, pc[t] # "idle" PROVE job[t].user \in User
  BY <1>t, <1>u DEF UsersKnown
\* A thread moves and nobody's status changes; no session becomes live.
<1>1. ASSUME NEW t \in Thread, pc[t] # "sweeping", Knows(t)', UNCHANGED <<status, owner>>,
             \A r \in Thread \ {t} : pc'[r] = pc[r] /\ job'[r] = job[r],
             \A s \in Session : state'[s] = "live" => state[s] = "live"
      PROVE  Current' /\ Covered'
  <2>1. \A r \in Thread : Knows(r)'
    <3> SUFFICES ASSUME NEW r \in Thread, r # t PROVE Knows(r)'
      BY <1>1
    <3> QED
      BY <1>1 DEF Current
  <2>2. Covered'
    BY <1>1 DEF Covered, Issued
  <2> QED
    BY <2>1, <2>2 DEF Current
\* A thread writes the status of its user.
<1>2. ASSUME NEW t \in Thread, pc[t] \notin {"idle", "sweeping"}, Knows(t)',
             NEW st \in Status, status' = [status EXCEPT ![job[t].user] = st],
             UNCHANGED <<owner, state>>,
             \A r \in Thread \ {t} : pc'[r] = pc[r] /\ job'[r] = job[r],
             \/ st = "active"
             \/ pc'[t] = "sweeping" /\ job'[t].user = job[t].user
             \/ status[job[t].user] # "active"
      PROVE  Current' /\ Covered'
  <2>0. job[t].user \in User /\ status \in [User -> Status]
    BY <1>t, <1>u, <1>2 DEF TypeOK
  <2>1. \A r \in Thread : Knows(r)'
    <3> SUFFICES ASSUME NEW r \in Thread, r # t, pc[r] # "idle" PROVE Knows(r)'
      BY <1>2
    <3>1. job[r].user \in User /\ job[r].user # job[t].user
      BY <1>u, <1>2 DEF Apart
    <3>2. status'[job[r].user] = status[job[r].user]
      BY <1>2, <2>0, <3>1
    <3> QED
      BY <1>2, <3>2 DEF Current
  <2>2. ASSUME NEW s \in Session, Issued(s), state[s] = "live"
        PROVE  \/ status'[owner[s]] = "active"
               \/ \E r \in Thread : pc'[r] = "sweeping" /\ job'[r].user = owner[s]
    <3>1. owner[s] \in User
      BY <1>t, <2>2 DEF TypeOK, Issued
    <3>2. CASE owner[s] # job[t].user
      <4>1. status'[owner[s]] = status[owner[s]]
        BY <1>2, <2>0, <3>1, <3>2
      <4> QED
        BY <1>2, <2>2, <4>1 DEF Covered
    <3>3. CASE owner[s] = job[t].user
      <4>1. status'[owner[s]] = st
        BY <1>2, <2>0, <3>3
      <4>2. CASE status[job[t].user] # "active"
        <5>1. PICK r \in Thread : pc[r] = "sweeping" /\ job[r].user = owner[s]
          BY <2>2, <3>3, <4>2 DEF Covered
        <5>2. r = t
          BY <1>2, <3>3, <5>1 DEF Apart
        <5> QED
          BY <1>2, <5>1, <5>2
      <4> QED
        BY <1>2, <3>3, <4>1, <4>2
    <3> QED
      BY <3>2, <3>3
  <2>3. Covered'
    BY <1>2, <2>2 DEF Covered, Issued
  <2> QED
    BY <2>1, <2>3 DEF Current
\* Handlers begin.
<1>3. ASSUME NEW t \in Thread, NEW u \in User, NEW position \in Position, NEW ts \in SUBSET Tenant,
             NEW st \in Status, NEW s \in Session \cup {NoSession},
             Begin(t, position, u, ts, st, s), UNCHANGED <<status, owner, state>>,
             position = "verified" => status[u] = "active" /\ st = "active",
             position \notin {"entered", "granting"},
             position = "applying" => status[u] \in {"absent", "inactive"},
             position \in {"approving", "rejecting"} => status[u] = "invited"
      PROVE  Current' /\ Covered'
  <2>1. /\ pc'[t] = position
        /\ job'[t].user = u /\ job'[t].status = st
        /\ \A r \in Thread \ {t} : pc'[r] = pc[r] /\ job'[r] = job[r]
    BY <1>t, <1>3, BeginOK
  <2>2. pc[t] = "idle"
    BY <1>3 DEF Begin
  <2>3. Knows(t)'
    BY <1>3, <2>1
  <2> QED
    BY <1>1, <1>3, <2>1, <2>2, <2>3
<1>4. ASSUME NEW t \in Thread, NEW u \in User,
             \/ VerifyLogin(t, u) \/ ReadDelete(t, u)
             \/ \E x \in Tenant : ReadApplication(t, u, x) \/ ListMembers(t, u, x)
      PROVE  Current' /\ Covered'
  <2> NoSession \in Session \cup {NoSession} /\ {} \in SUBSET Tenant
    OBVIOUS
  <2>1. UNCHANGED <<status, owner, state>>
    BY <1>4 DEF VerifyLogin, ReadDelete, ReadApplication, ListMembers, accounts, sessions
  <2>2. CASE VerifyLogin(t, u)
    BY <1>3, <2>1, <2>2 DEF VerifyLogin, Position, Status
  <2>3. CASE ReadDelete(t, u)
    BY <1>3, <2>1, <2>3 DEF ReadDelete, Position, Status
  <2>4. ASSUME NEW x \in Tenant, ReadApplication(t, u, x) PROVE Current' /\ Covered'
    <3>1. Begin(t, "applying", u, {x}, "invited", NoSession) /\ {x} \in SUBSET Tenant
          /\ status[u] \in {"absent", "inactive"}
      BY <2>4 DEF ReadApplication
    <3> QED
      BY <1>3, <2>1, <3>1 DEF Position, Status
  <2>5. ASSUME NEW x \in Tenant, ListMembers(t, u, x) PROVE Current' /\ Covered'
    <3>1. Begin(t, "listed", u, {x}, "active", NoSession) /\ {x} \in SUBSET Tenant
      BY <2>5 DEF ListMembers
    <3> QED
      BY <1>3, <2>1, <3>1 DEF Position, Status
  <2> QED
    BY <1>4, <2>2, <2>3, <2>4, <2>5
<1>5. ASSUME NEW t \in Thread, NEW u \in User, NEW ts \in (SUBSET Tenant) \ {{}},
             NEW st \in {"active", "inactive"}, ReadUpdate(t, u, ts, st)
      PROVE  Current' /\ Covered'
  <2>1. Begin(t, "updating", u, roles[u] \cup ts, st, NoSession) /\ UNCHANGED <<status, owner, state>>
    BY <1>5 DEF ReadUpdate, sessions
  <2>2. roles[u] \cup ts \in SUBSET Tenant
    BY <1>t DEF TypeOK
  <2> QED
    BY <1>3, <2>1, <2>2 DEF Position, Status
<1>6. ASSUME NEW t \in Thread, NEW u \in User, NEW ok \in BOOLEAN, ReadReview(t, u, ok)
      PROVE  Current' /\ Covered'
  <2> DEFINE position == IF ok THEN "approving" ELSE "rejecting"
  <2>1. /\ Begin(t, position, u, applied[u], "invited", NoSession)
        /\ status[u] = "invited" /\ UNCHANGED <<status, owner, state>>
    BY <1>6 DEF ReadReview, sessions
  <2>2. applied[u] \in SUBSET Tenant
    BY <1>t DEF TypeOK
  <2>3. position \in {"approving", "rejecting"} /\ position \in Position
    BY DEF Position
  <2> HIDE DEF position
  <2> QED
    BY <1>3, <2>1, <2>2, <2>3 DEF Status
<1>7. ASSUME NEW t \in Thread, NEW s \in Session,
             (\E ts \in SUBSET Tenant : Resolve(t, s, ts)) \/ SendLogout(t, s)
      PROVE  Current' /\ Covered'
  <2>1. Issued(s) /\ UNCHANGED <<status, owner, state>>
    BY <1>7 DEF Resolve, SendLogout, accounts, sessions
  <2>2. owner[s] \in User
    BY <1>t, <2>1 DEF TypeOK, Issued
  <2>3. PICK position \in {"resolved", "leaving"}, ts \in SUBSET Tenant :
          Begin(t, position, owner[s], ts, "active", s)
    BY <1>7 DEF Resolve, SendLogout
  <2> QED
    BY <1>3, <2>1, <2>2, <2>3 DEF Position, Status
\* Handlers end or go on without writing a status.
<1>8. ASSUME NEW t \in Thread, End(t), pc[t] # "sweeping", UNCHANGED <<status, owner>>,
             \A s \in Session : state'[s] = "live" => state[s] = "live"
      PROVE  Current' /\ Covered'
  <2>1. pc'[t] = "idle" /\ \A r \in Thread \ {t} : pc'[r] = pc[r] /\ job'[r] = job[r]
    BY <1>t, <1>8, EndOK
  <2> QED
    BY <1>1, <1>8, <2>1
<1>9. ASSUME NEW t \in Thread, CheckProfile(t)
      PROVE  Current' /\ Covered'
  <2>1. pc[t] = "resolved" /\ UNCHANGED <<status, owner, state>>
    BY <1>9 DEF CheckProfile, accounts, sessions
  <2>2. CASE End(t)
    BY <1>8, <2>1, <2>2
  <2>3. CASE status[job[t].user] = "active" /\ Goto(t, "entered") /\ UNCHANGED job
    <3>1. pc'[t] = "entered" /\ \A r \in Thread \ {t} : pc'[r] = pc[r]
      BY <1>t, <2>1, <2>3, GotoOK DEF Position
    <3> QED
      BY <1>1, <2>1, <2>3, <3>1
  <2> QED
    BY <1>9, <2>2, <2>3 DEF CheckProfile
<1>10. ASSUME NEW t \in Thread, ReadRoles(t)
       PROVE  Current' /\ Covered'
  <2>1. pc[t] = "entered" /\ UNCHANGED <<status, owner, state>> /\ status[job[t].user] = "active"
    BY <1>10 DEF ReadRoles, accounts, sessions, Current
  <2>2. CASE End(t)
    BY <1>8, <2>1, <2>2
  <2>3. CASE Goto(t, "granting") /\ job' = [job EXCEPT ![t].tenants = roles[job[t].user]]
    <3>1. pc'[t] = "granting" /\ job'[t].user = job[t].user
          /\ \A r \in Thread \ {t} : pc'[r] = pc[r] /\ job'[r] = job[r]
      BY <1>t, <2>1, <2>3 DEF Goto, TypeOK, Job
    <3> QED
      BY <1>1, <2>1, <3>1
  <2> QED
    BY <1>10, <2>2, <2>3 DEF ReadRoles
<1>11. ASSUME NEW t \in Thread, Rotate(t) \/ Logout(t)
       PROVE  Current' /\ Covered'
  <2>1. pc[t] \in {"granting", "leaving"} /\ End(t) /\ UNCHANGED <<status, owner>>
    BY <1>11 DEF Rotate, Logout, accounts
  <2>2. \A s \in Session : state'[s] = "live" => state[s] = "live"
    BY <1>t, <1>11 DEF Rotate, Logout, TypeOK
  <2> QED
    BY <1>8, <2>1, <2>2
<1>12. ASSUME NEW t \in Thread, GrantRoles(t) \/ Admit(t) \/ Demote(t) \/ DeleteRoles(t)
       PROVE  Current' /\ Covered'
  <2>1. pc[t] \in {"activated", "admitting", "demoting", "deleting"} /\ UNCHANGED <<status, owner, state>>
    BY <1>12 DEF GrantRoles, Admit, Demote, DeleteRoles, ReplaceRoles, sessions
  <2>2. CASE End(t)
    BY <1>8, <2>1, <2>2
  <2>3. ASSUME NEW position \in {"granted", "removing"}, Goto(t, position), UNCHANGED job
        PROVE  Current' /\ Covered'
    <3>1. pc'[t] = position /\ \A r \in Thread \ {t} : pc'[r] = pc[r]
      BY <1>t, <2>1, <2>3, GotoOK DEF Position
    <3> QED
      BY <1>1, <2>1, <2>3, <3>1
  <2> QED
    BY <1>12, <2>2, <2>3 DEF GrantRoles, Admit, Demote, DeleteRoles, ReplaceRoles
\* Statuses are written.
<1>13. ASSUME NEW t \in Thread, pc[t] \notin {"idle", "sweeping"}, NEW st \in Status, NEW ts,
              WriteStatus(job[t].user, st, ts), Goto(t, "entered") \/ Goto(t, "activated")
                \/ Goto(t, "admitting") \/ Goto(t, "sweeping"), UNCHANGED <<job, owner, state>>,
              st # "active" => pc'[t] = "sweeping"
       PROVE  Current' /\ Covered'
  <2>1. PICK position \in {"entered", "activated", "admitting", "sweeping"} : Goto(t, position)
    BY <1>13
  <2>2. pc'[t] = position /\ \A r \in Thread \ {t} : pc'[r] = pc[r]
    BY <1>t, <1>13, <2>1, GotoOK DEF Position
  <2>3. status' = [status EXCEPT ![job[t].user] = st] /\ job[t].user \in User
    BY <1>u, <1>13 DEF WriteStatus
  <2>4. Knows(t)'
    BY <1>t, <1>13, <2>2, <2>3 DEF TypeOK
  <2> QED
    BY <1>2, <1>13, <2>2, <2>3, <2>4
<1>14. ASSUME NEW t \in Thread, WriteLogin(t) \/ Activate(t) \/ Approve(t)
       PROVE  Current' /\ Covered'
  <2>1. pc[t] \in {"verified", "updating", "approving"} /\ UNCHANGED <<job, owner, state>>
    BY <1>14 DEF WriteLogin, Activate, Approve, sessions
  <2>2. WriteStatus(job[t].user, "active", {})
    BY <1>14 DEF WriteLogin, Activate, Approve, Current
  <2>3. Goto(t, "entered") \/ Goto(t, "activated") \/ Goto(t, "admitting")
    BY <1>14 DEF WriteLogin, Activate, Approve
  <2> QED
    BY <1>13, <2>1, <2>2, <2>3 DEF Status
<1>15. ASSUME NEW t \in Thread, SetStatus(t) \/ DeleteProfile(t)
       PROVE  Current' /\ Covered'
  <2>1. pc[t] \in {"granted", "removing"} /\ UNCHANGED <<job, owner, state>> /\ Goto(t, "sweeping")
    BY <1>15 DEF SetStatus, DeleteProfile, sessions
  <2>2. PICK st \in Status : WriteStatus(job[t].user, st, {})
    <3>1. job[t].status \in Status
      BY <1>t, <2>1, JobOK
    <3> QED
      BY <1>15, <3>1 DEF SetStatus, DeleteProfile, Status
  <2>3. pc'[t] = "sweeping"
    BY <1>t, <2>1, GotoOK DEF Position
  <2> QED
    BY <1>13, <2>1, <2>2, <2>3
<1>16. ASSUME NEW t \in Thread, Apply(t) \/ Reject(t)
       PROVE  Current' /\ Covered'
  <2>1. pc[t] \in {"applying", "rejecting"} /\ End(t) /\ UNCHANGED <<owner, state>>
    BY <1>16 DEF Apply, Reject, sessions
  <2>2. PICK st \in Status : status' = [status EXCEPT ![job[t].user] = st]
    BY <1>16 DEF Apply, Reject, WriteStatus, Status
  <2>3. pc'[t] = "idle" /\ \A r \in Thread \ {t} : pc'[r] = pc[r] /\ job'[r] = job[r]
    BY <1>t, <2>1, EndOK
  <2>4. status[job[t].user] # "active"
    BY <2>1 DEF Current
  <2> QED
    BY <1>2, <2>1, <2>2, <2>3, <2>4
\* Sessions are issued, revoked and run out.
<1>17. ASSUME NEW t \in Thread, NEW s \in Session, Issue(t, s)
       PROVE  Current' /\ Covered'
  <2>1. /\ pc[t] = "granting" /\ End(t) /\ UNCHANGED <<status, state>>
        /\ owner' = [owner EXCEPT ![s] = job[t].user]
        /\ status[job[t].user] = "active"
    BY <1>17 DEF Issue, accounts, Current
  <2>2. pc'[t] = "idle" /\ \A r \in Thread \ {t} : pc'[r] = pc[r] /\ job'[r] = job[r]
    BY <1>t, <2>1, EndOK
  <2>3. \A r \in Thread : Knows(r)'
    <3> SUFFICES ASSUME NEW r \in Thread, r # t PROVE Knows(r)'
      BY <2>2
    <3> QED
      BY <2>1, <2>2 DEF Current
  <2>4. ASSUME NEW x \in Session, x # s, owner[x] # NoUser, state[x] = "live"
        PROVE  \/ status[owner[x]] = "active"
               \/ \E r \in Thread : pc'[r] = "sweeping" /\ job'[r].user = owner[x]
    BY <2>1, <2>2, <2>4 DEF Covered, Issued
  <2>5. Covered'
    BY <1>t, <2>1, <2>4 DEF Covered, Issued, TypeOK
  <2> QED
    BY <2>3, <2>5 DEF Current
<1>18. ASSUME NEW t \in Thread, RevokeUser(t)
       PROVE  Current' /\ Covered'
  <2>1. /\ pc[t] = "sweeping" /\ End(t) /\ UNCHANGED <<status, owner>>
        /\ state' = [s \in Session |-> IF owner[s] = job[t].user THEN "revoked" ELSE state[s]]
    BY <1>18 DEF RevokeUser, accounts
  <2>2. pc'[t] = "idle" /\ \A r \in Thread \ {t} : pc'[r] = pc[r] /\ job'[r] = job[r]
    BY <1>t, <2>1, EndOK
  <2>3. \A r \in Thread : Knows(r)'
    <3> SUFFICES ASSUME NEW r \in Thread, r # t PROVE Knows(r)'
      BY <2>2
    <3> QED
      BY <2>1, <2>2 DEF Current
  <2>4. ASSUME NEW s \in Session, Issued(s), state'[s] = "live"
        PROVE  \/ status[owner[s]] = "active"
               \/ \E r \in Thread : pc'[r] = "sweeping" /\ job'[r].user = owner[s]
    <3>1. owner[s] # job[t].user /\ state[s] = "live"
      BY <2>1, <2>4
    <3> QED
      BY <2>2, <2>4, <3>1 DEF Covered
  <2> QED
    BY <2>1, <2>3, <2>4 DEF Current, Covered, Issued
<1>19. ASSUME NEW s \in Session, AccessExpires(s) \/ SessionExpires(s)
       PROVE  Current' /\ Covered'
  <2>1. UNCHANGED <<status, owner, pc, job>>
    BY <1>19 DEF AccessExpires, SessionExpires, accounts
  <2>2. \A x \in Session : state'[x] = "live" => state[x] = "live"
    BY <1>t, <1>19 DEF AccessExpires, SessionExpires, TypeOK
  <2> QED
    BY <2>1, <2>2 DEF Current, Covered, Issued
<1>20. CASE UNCHANGED vars
  BY <1>20 DEF vars, accounts, sessions, Current, Covered, Issued
<1>21. ASSUME NEW t \in Thread PROVE ~Abort(t)
  BY DEF Abort
<1>22. ASSUME NEW t \in Thread, ReadKept(t)
       PROVE  Current' /\ Covered'
  <2>1. pc[t] = "listed" /\ UNCHANGED <<status, owner, state>>
    BY <1>22 DEF ReadKept, accounts, sessions
  <2>2. pc'[t] = "demoting" /\ \A r \in Thread \ {t} : pc'[r] = pc[r] /\ job'[r] = job[r]
    BY <1>t, <1>22 DEF ReadKept, Goto, TypeOK
  <2> QED
    BY <1>1, <2>1, <2>2
<1> QED
  BY <1>4, <1>5, <1>6, <1>7, <1>9, <1>10, <1>11, <1>12, <1>14, <1>15, <1>16, <1>17, <1>18,
     <1>19, <1>20, <1>21, <1>22, Steps

\* A deployment keeps its stores.
LEMMA StoresStay == [Next]_vars => UNCHANGED onServer
BY Steps DEF VerifyLogin, ReadDelete, ReadUpdate, ReadApplication, ReadReview, Resolve, Issue,
   SendLogout, WriteLogin, CheckProfile, ReadRoles, Rotate, Logout, Activate, GrantRoles, SetStatus,
   DeleteRoles, DeleteProfile, RevokeUser, Apply, Approve, Admit, Demote,
     ReadKept, ListMembers, Reject, Abort, ReplaceRoles,
   AccessExpires, SessionExpires, vars

\* On SQLite sessions end with the account, for any number of users, sessions
\* and threads, as long as the handlers of one user do not overlap and none ends
\* early.  On a server they do not even then: revoke_user comes too late.
THEOREM SessionsEndOnSQLite ==
  ASSUME ~Faulty
  PROVE  Spec /\ []Apart => [](~onServer => SessionsEndWithTheAccount)
<1> DEFINE Kept == ~onServer => Current /\ Covered
<1>1. Init => Kept
  BY DEF Init, Current, Covered, Issued
<1>2. IInv /\ Apart /\ Kept /\ [Next]_vars => Kept'
  BY CoveredStep, StoresStay
<1>3. IInv /\ Kept => (~onServer => SessionsEndWithTheAccount)
  <2> SUFFICES ASSUME IInv, Covered, NEW s \in Session, Accepted(s), Quiet(owner[s])
               PROVE  status[owner[s]] = "active"
    BY DEF SessionsEndWithTheAccount
  <2> QED
    BY DEF Covered, Accepted, Quiet
<1> QED
  BY <1>1, <1>2, <1>3, Initially, Inductive, PTL DEF Spec
=============================================================================
