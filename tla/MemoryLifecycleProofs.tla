----------------------- MODULE MemoryLifecycleProofs -----------------------
(***************************************************************************)
(* What MemoryLifecycle promises for any records, kinds and users: a       *)
(* record under review keeps what the review has asked of it, so nothing   *)
(* unapproved is recalled and, on a server, nothing that has ended returns.*)
(***************************************************************************)
EXTENDS MemoryLifecycle, TLAPS

\* What a review has read still holds of its record ...
ReadsHold ==
  \A v \in reviews :
    LET m == memory[v.record] IN
    /\ m.status # "absent"
    /\ v.decision = "approve" =>
         /\ m.creator # v.user
         /\ m.kind \in Evidential => m.evidence

\* ... and on a server it is the only one of its record, which has not ended.
LocksHold ==
  locking => \A v \in reviews :
    /\ memory[v.record].status \in Open
    /\ \A w \in reviews : w.record = v.record => w = v

MemoryInv == MemoryTypeOK /\ ReadsHold /\ LocksHold /\ RecallIsVouchedFor

\* A decision leads to a status.
LEMMA AfterType ==
  ASSUME NEW d \in Decision
  PROVE  /\ After[d] \in Open \cup {"ended"}
         /\ After[d] = "active" <=> d = "approve"
BY DEF After, Decision, Open

LEMMA MemoryInitInv == MemoryInit => MemoryInv
BY MemoryAssumption
DEF MemoryAssumption, MemoryInit, MemoryInv, MemoryTypeOK, MemoryRow, ReadsHold, LocksHold,
    RecallIsVouchedFor, Open

\* Any write, forced or not, by a reviewed finding or a user.
LEMMA WriteInv ==
  ASSUME MemoryInv, NEW r \in Record, NEW u \in User, NEW k \in Kind,
         NEW force \in BOOLEAN, NEW evidence \in BOOLEAN, Write(r, u, k, force, evidence)
  PROVE  /\ MemoryInv'
         /\ locking => \A q \in Record : memory[q].status = "ended" => memory'[q].status = "ended"
<1> DEFINE replaced == {q \in SameKind(k) : force \/ memory[q].status # "active"}
<1>1. PICK before \in Written \cup {NoRecord} :
        memory' = [q \in Record |->
         IF q = r
         THEN [status |-> IF force THEN "active" ELSE "candidate", kind |-> k, creator |-> u,
               forced |-> force, evidence |-> evidence, approver |-> NoUser,
               supersedes |-> before]
         ELSE IF q \in replaced THEN [memory[q] EXCEPT !.status = "ended"]
         ELSE memory[q]]
  BY DEF Write
<1>2. /\ memory[r].status = "absent"
      /\ \A q \in SameKind(k) : ~Locked(q)
      /\ UNCHANGED <<locking, reviews>>
  BY DEF Write
<1>3. before \in Record \cup {NoRecord}
  BY DEF Written
<1>4. \A q \in replaced : q \in Record /\ memory[q].status \in Open
  BY DEF SameKind
<1>5. \A q \in Record : memory[q] \in MemoryRow
  BY DEF MemoryInv, MemoryTypeOK
<1> HIDE DEF replaced
<1>6. MemoryTypeOK'
  <2>1. ASSUME NEW q \in Record PROVE memory'[q] \in MemoryRow
    BY <1>1, <1>3, <1>5 DEF MemoryRow, Open
  <2> QED BY <1>1, <1>2, <2>1 DEF MemoryInv, MemoryTypeOK
<1>7. ASSUME NEW q \in Record, q # r
      PROVE  /\ memory'[q].kind = memory[q].kind
             /\ memory'[q].creator = memory[q].creator
             /\ memory'[q].evidence = memory[q].evidence
             /\ memory'[q].forced = memory[q].forced
             /\ memory'[q].approver = memory[q].approver
             /\ memory'[q].status = IF q \in replaced THEN "ended" ELSE memory[q].status
  BY <1>1, <1>5, <1>7 DEF MemoryRow
<1>8. \A v \in reviews : v.record \in Record /\ v.record # r
  BY <1>2 DEF MemoryInv, MemoryTypeOK, ReadsHold
<1>9. ReadsHold'
  BY <1>2, <1>7, <1>8 DEF MemoryInv, ReadsHold
<1>10. LocksHold'
  <2>1. locking => \A v \in reviews : v.record \notin replaced
    BY <1>2 DEF Locked, replaced
  <2> QED BY <1>2, <1>7, <1>8, <2>1 DEF MemoryInv, LocksHold
<1>11. RecallIsVouchedFor'
  <2>1. memory'[r].status = "active" => memory'[r].forced
    BY <1>1
  <2> QED BY <1>7, <2>1 DEF MemoryInv, RecallIsVouchedFor
<1>12. \A q \in Record : memory[q].status = "ended" => memory'[q].status = "ended"
  BY <1>2, <1>7
<1> QED BY <1>6, <1>9, <1>10, <1>11, <1>12 DEF MemoryInv

LEMMA ReadForReviewInv ==
  ASSUME MemoryInv, NEW r \in Record, NEW u \in User, NEW d \in Decision, ReadForReview(r, u, d)
  PROVE  MemoryInv'
<1>1. UNCHANGED <<locking, memory>>
  BY DEF ReadForReview
<1>2. reviews' = reviews \cup {[record |-> r, user |-> u, decision |-> d]}
  BY DEF ReadForReview
<1>3. MayReview(r, u, d) /\ ~Locked(r)
  BY DEF ReadForReview
<1>4. MemoryTypeOK' /\ RecallIsVouchedFor'
  BY <1>1, <1>2 DEF MemoryInv, MemoryTypeOK, RecallIsVouchedFor
<1>5. ReadsHold'
  BY <1>1, <1>2, <1>3 DEF MemoryInv, ReadsHold, MayReview, Open
<1>6. LocksHold'
  BY <1>1, <1>2, <1>3 DEF MemoryInv, LocksHold, MayReview, Locked
<1> QED BY <1>4, <1>5, <1>6 DEF MemoryInv

LEMMA UpdateReviewedInv ==
  ASSUME MemoryInv, NEW v \in reviews, UpdateReviewed(v)
  PROVE  /\ MemoryInv'
         /\ locking => \A q \in Record : memory[q].status = "ended" => memory'[q].status = "ended"
<1> DEFINE r == v.record
           gone == IF v.decision = "approve" THEN {memory[r].supersedes} ELSE {}
<1>1. /\ r \in Record
      /\ v.user \in User
      /\ v.decision \in Decision
  BY DEF MemoryInv, MemoryTypeOK
<1>2. /\ \A q \in gone : locking => \A w \in reviews : w.record # q
      /\ reviews' = reviews \ {v}
      /\ locking' = locking
  BY DEF UpdateReviewed
<1>3. memory' = [q \in Record |->
       IF q \in gone THEN [memory[q] EXCEPT !.status = "ended"]
       ELSE IF q = r
       THEN [memory[q] EXCEPT !.status = After[v.decision],
                              !.approver = IF v.decision = "approve" THEN v.user ELSE @]
       ELSE memory[q]]
  BY DEF UpdateReviewed
<1>4. \A q \in Record : memory[q] \in MemoryRow
  BY DEF MemoryInv, MemoryTypeOK
<1> HIDE DEF gone, r
<1>5. /\ After[v.decision] \in Open \cup {"ended"}
      /\ After[v.decision] = "active" <=> v.decision = "approve"
  BY <1>1, AfterType
<1>6. MemoryTypeOK'
  <2>1. ASSUME NEW q \in Record PROVE memory'[q] \in MemoryRow
    BY <1>1, <1>3, <1>4, <1>5 DEF MemoryRow
  <2> QED BY <1>2, <1>3, <2>1 DEF MemoryInv, MemoryTypeOK
<1>7. ASSUME NEW q \in Record
      PROVE  /\ memory'[q].kind = memory[q].kind
             /\ memory'[q].creator = memory[q].creator
             /\ memory'[q].evidence = memory[q].evidence
             /\ memory'[q].forced = memory[q].forced
             /\ memory'[q].status = IF q \in gone THEN "ended"
                                    ELSE IF q = r THEN After[v.decision] ELSE memory[q].status
             /\ memory'[q].approver = IF q \notin gone /\ q = r /\ v.decision = "approve"
                                      THEN v.user ELSE memory[q].approver
  BY <1>3, <1>4 DEF MemoryRow
<1>8. ReadsHold'
  <2>1. ASSUME NEW w \in reviews PROVE memory'[w.record].status # "absent"
    BY <1>5, <1>7 DEF MemoryInv, MemoryTypeOK, ReadsHold, Open
  <2> QED BY <1>2, <1>7, <2>1 DEF MemoryInv, MemoryTypeOK, ReadsHold
<1>9. LocksHold'
  BY <1>2, <1>7 DEF MemoryInv, MemoryTypeOK, LocksHold, r
<1>10. RecallIsVouchedFor'
  <2>1. v.decision = "approve" =>
          /\ memory[r].creator # v.user
          /\ memory[r].kind \in Evidential => memory[r].evidence
    BY DEF MemoryInv, ReadsHold, r
  <2> QED BY <1>1, <1>5, <1>7, <2>1 DEF MemoryInv, RecallIsVouchedFor
<1>11. locking => memory[r].status # "ended"
  BY DEF MemoryInv, LocksHold, Open, r
<1> QED BY <1>6, <1>7, <1>8, <1>9, <1>10, <1>11 DEF MemoryInv

LEMMA DropReviewInv ==
  ASSUME MemoryInv, NEW v \in reviews, DropReview(v)
  PROVE  MemoryInv'
BY DEF DropReview, MemoryInv, MemoryTypeOK, ReadsHold, LocksHold, RecallIsVouchedFor

LEMMA MemoryNextInv == MemoryInv /\ [MemoryNext]_memoryVars => MemoryInv'
<1> SUFFICES ASSUME MemoryInv, [MemoryNext]_memoryVars PROVE MemoryInv'
  OBVIOUS
<1>1. CASE UNCHANGED memoryVars
  BY <1>1 DEF memoryVars, MemoryInv, MemoryTypeOK, ReadsHold, LocksHold, RecallIsVouchedFor
<1>2. ASSUME NEW r \in Record, NEW u \in User, NEW k \in Kind, NEW evidence \in BOOLEAN,
             Write(r, u, k, FALSE, evidence)
      PROVE  MemoryInv'
  BY <1>2, WriteInv
<1>3. ASSUME NEW r \in Record, NEW u \in User, NEW d \in Decision, ReadForReview(r, u, d)
      PROVE  MemoryInv'
  BY <1>3, ReadForReviewInv
<1>4. ASSUME NEW v \in reviews, UpdateReviewed(v) PROVE MemoryInv'
  BY <1>4, UpdateReviewedInv
<1>5. ASSUME NEW v \in reviews, DropReview(v) PROVE MemoryInv'
  BY <1>5, DropReviewInv
<1> QED BY <1>1, <1>2, <1>3, <1>4, <1>5 DEF MemoryNext

\* In every behaviour of the memory reviews keep what they have read and locked.
THEOREM MemoryInvariance == MemorySpec => []MemoryInv
<1>1. MemoryInit => MemoryInv
  BY MemoryInitInv
<1>2. MemoryInv /\ [MemoryNext]_memoryVars => MemoryInv'
  BY MemoryNextInv
<1> QED BY <1>1, <1>2, PTL DEF MemorySpec

\* Nothing is recalled that nobody else has approved, or without the evidence
\* its type asks for (review in memory/postgresql_store.py and memory/store.py).
THEOREM RecallVouched == MemorySpec => []RecallIsVouchedFor
<1>1. MemoryInv => RecallIsVouchedFor
  BY DEF MemoryInv
<1> QED BY <1>1, MemoryInvariance, PTL

\* On a server what has ended stays ended.
EndedStays ==
  locking => \A r \in Record : memory[r].status = "ended" => memory'[r].status = "ended"

\* Every step keeps the invariant and what has ended.
LEMMA MemoryStep == MemoryInv /\ [MemoryNext]_memoryVars => MemoryInv' /\ EndedStays
<1> SUFFICES ASSUME MemoryInv, [MemoryNext]_memoryVars PROVE EndedStays
  BY MemoryNextInv
<1>1. ASSUME NEW r \in Record, NEW u \in User, NEW k \in Kind, NEW evidence \in BOOLEAN,
             Write(r, u, k, FALSE, evidence)
      PROVE  EndedStays
  BY <1>1, WriteInv DEF EndedStays
<1>2. ASSUME NEW r \in Record, NEW u \in User, NEW d \in Decision, ReadForReview(r, u, d)
      PROVE  EndedStays
  BY <1>2 DEF ReadForReview, EndedStays
<1>3. ASSUME NEW v \in reviews, UpdateReviewed(v) PROVE EndedStays
  BY <1>3, UpdateReviewedInv DEF EndedStays
<1>4. ASSUME NEW v \in reviews, DropReview(v) PROVE EndedStays
  BY <1>4 DEF DropReview, EndedStays
<1>5. CASE UNCHANGED memoryVars
  BY <1>5 DEF memoryVars, EndedStays
<1> QED BY <1>1, <1>2, <1>3, <1>4, <1>5 DEF MemoryNext

\* On a server no rejected, superseded or expired record returns.
THEOREM EndedStayOut == MemorySpec => EndedMemoriesStayOut
<1>1. MemoryInv /\ [MemoryNext]_memoryVars => [EndedStays]_memoryVars
  BY MemoryStep
<1> QED BY <1>1, MemoryInvariance, PTL DEF MemorySpec, EndedMemoriesStayOut, EndedStays
=============================================================================
