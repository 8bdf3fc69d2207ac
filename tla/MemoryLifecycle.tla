-------------------------- MODULE MemoryLifecycle --------------------------
(***************************************************************************)
(* The memory records of one tenant: written as candidates, or active when *)
(* forced by a reviewed finding of the weekly learning, merged with the    *)
(* open records of their kind, and reviewed until they end.                *)
(*                                                                         *)
(* A review reads its record in one statement and updates it in others.    *)
(* On a server the SELECT locks the record, and a write locks the open     *)
(* records of its kind before it looks at them, which makes it one step;   *)
(* the SQLite twin locks nothing between the two statements of a review    *)
(* and its UPDATE names no status (its write is taken as one step too).    *)
(***************************************************************************)
EXTENDS Users, Integers, FiniteSets

CONSTANTS
  Record,       \* memory_id
  Kind,         \* type, subject and topic of a record, taken as one
  Fusible,      \* those of FUSIBLE_MEMORY_TYPES
  Evidential,   \* those of a type that is not approved without evidence
  NoKind, NoRecord,
  MaxWork       \* bound: records and reviews there are when a review begins

ASSUME MemoryAssumption ==
  /\ Fusible \subseteq Kind
  /\ NoKind \notin Kind
  /\ NoRecord \notin Record

VARIABLES
  locking,   \* the store is a server's
  memory,    \* platform_memory_records
  reviews    \* reviews that have read their record and not yet updated it

memoryVars == <<locking, memory, reviews>>

\* "ended" is rejected, superseded or expired, which no later step tells apart;
\* "end" is the decision for any of them.
Open == {"candidate", "review", "active"}
Decision == {"approve", "request_change", "end"}

MemoryRow == [status : Open \cup {"ended", "absent"}, kind : Kind \cup {NoKind},
              creator : User \cup {NoUser}, forced : BOOLEAN, evidence : BOOLEAN,
              approver : User \cup {NoUser}, supersedes : Record \cup {NoRecord}]

MemoryTypeOK ==
  /\ locking \in BOOLEAN
  /\ memory \in [Record -> MemoryRow]
  /\ reviews \subseteq [record : Record, user : User, decision : Decision]

MemoryInit ==
  /\ locking \in BOOLEAN
  /\ memory = [r \in Record |->
       [status |-> "absent", kind |-> NoKind, creator |-> NoUser, forced |-> FALSE,
        evidence |-> FALSE, approver |-> NoUser, supersedes |-> NoRecord]]
  /\ reviews = {}

Written == {r \in Record : memory[r].status # "absent"}

Locked(r) == locking /\ \E v \in reviews : v.record = r

\* The open records a new one of kind k is merged with.
SameKind(k) ==
  IF k \in Fusible THEN {r \in Record : memory[r].kind = k /\ memory[r].status \in Open} ELSE {}

\* write: u's record takes the place of the candidates of its kind, and of the
\* active record too if it is active itself.  It keeps the name of the record it
\* supersedes: one the caller gave, or else the one of its kind updated last.
\* A record too like an open one, or with too little confidence, is not written.
Write(r, u, k, force, evidence) ==
  LET replaced == {q \in SameKind(k) : force \/ memory[q].status # "active"} IN
  \E before \in Written \cup {NoRecord} :
    /\ memory[r].status = "absent"
    /\ \A q \in SameKind(k) : ~Locked(q)
    /\ memory' = [q \in Record |->
         IF q = r
         THEN [status |-> IF force THEN "active" ELSE "candidate", kind |-> k, creator |-> u,
               forced |-> force, evidence |-> evidence, approver |-> NoUser,
               supersedes |-> before]
         ELSE IF q \in replaced THEN [memory[q] EXCEPT !.status = "ended"]
         ELSE memory[q]]
    /\ UNCHANGED <<locking, reviews>>

\* As MayReview, for a record in any status.
MayReviewAnything(r, u, d) ==
  /\ r \in Written
  /\ d = "approve" =>
       /\ memory[r].creator # u
       /\ memory[r].kind \in Evidential => memory[r].evidence

\* As MayReview, without the four eyes.
MayReviewOwn(r, u, d) ==
  /\ memory[r].status \in Open
  /\ d = "approve" => (memory[r].kind \in Evidential => memory[r].evidence)

MayReview(r, u, d) ==
  /\ memory[r].status \in Open
  /\ d = "approve" =>
       /\ memory[r].creator # u
       /\ memory[r].kind \in Evidential => memory[r].evidence

\* review, its SELECT and what it asks of the record.
ReadForReview(r, u, d) ==
  /\ MayReview(r, u, d)
  /\ ~Locked(r)
  /\ Cardinality(Written) + Cardinality(reviews) < MaxWork
  /\ reviews' = reviews \cup {[record |-> r, user |-> u, decision |-> d]}
  /\ UNCHANGED <<locking, memory>>

After == [approve |-> "active", request_change |-> "review", end |-> "ended"]

\* review, its UPDATEs: the record takes the decision's status, and the record
\* it supersedes ends with its approval, whatever status that one has.
UpdateReviewed(v) ==
  LET r == v.record
      before == memory[r].supersedes
      gone == IF v.decision = "approve" THEN {before} ELSE {}
  IN
  /\ v \in reviews
  /\ \A q \in gone : locking => \A w \in reviews : w.record # q
  /\ reviews' = reviews \ {v}
  /\ memory' = [q \in Record |->
       IF q \in gone THEN [memory[q] EXCEPT !.status = "ended"]
       ELSE IF q = r
       THEN [memory[q] EXCEPT !.status = After[v.decision],
                              !.approver = IF v.decision = "approve" THEN v.user ELSE @]
       ELSE memory[q]]
  /\ UNCHANGED locking

\* The process of a review dies, and its transaction with it.
DropReview(v) ==
  /\ v \in reviews
  /\ reviews' = reviews \ {v}
  /\ UNCHANGED <<locking, memory>>

MemoryNext ==
  \/ \E r \in Record, u \in User :
       \/ \E k \in Kind, evidence \in BOOLEAN : Write(r, u, k, FALSE, evidence)
       \/ \E d \in Decision : ReadForReview(r, u, d)
  \/ \E v \in reviews : UpdateReviewed(v) \/ DropReview(v)

MemorySpec == MemoryInit /\ [][MemoryNext]_memoryVars

-----------------------------------------------------------------------------
\* On a server a record that was rejected, superseded or expired stays out of
\* circulation: neither a review that read it before its end nor the approval
\* of another record brings it back (review in memory/postgresql_store.py).
EndedMemoriesStayOut ==
  [][locking => \A r \in Record :
       memory[r].status = "ended" => memory'[r].status = "ended"]_memoryVars

\* What planning may recall was approved by somebody other than its creator,
\* on evidence where its type asks for it, or comes from a reviewed finding of
\* the weekly learning.
RecallIsVouchedFor ==
  \A r \in Record :
    LET m == memory[r] IN
    m.status = "active" => m.forced \/ /\ m.approver \in User \ {m.creator}
                                       /\ m.kind \in Evidential => m.evidence
=============================================================================
