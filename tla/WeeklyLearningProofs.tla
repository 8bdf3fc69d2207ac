------------------------ MODULE WeeklyLearningProofs ------------------------
(***************************************************************************)
(* What WeeklyLearning promises beside the stores it writes to, whose own  *)
(* requests go on at any moment between its transactions: a candidate is   *)
(* learned once, and neither the assets nor the memory lose an invariant   *)
(* to what it writes there.                                                *)
(***************************************************************************)
EXTENDS WeeklyLearning, AssetLifecycleProofs, MemoryLifecycleProofs

allVars == <<assetVars, memoryVars, learningVars>>

\* The weekly learning, the assets and the memory, each at its own pace.
SharedInit == AssetInit /\ MemoryInit /\ LearningInit
SharedNext ==
  \/ LearningNext
  \/ AssetNext /\ UNCHANGED <<memoryVars, learningVars>>
  \/ MemoryNext /\ UNCHANGED <<assetVars, learningVars>>
SharedSpec == SharedInit /\ [][SharedNext]_allVars

\* What a request may rely on at each step: the candidate it has locked is still
\* pending, the one it has approved is not written yet, the one it has written
\* is not marked.
Justified(h) ==
  LET j == at[h]
      c == candidates[j.candidate]
      n == written[j.candidate]
  IN
  /\ j.step = "select" => c.status = "pending" /\ c.author # j.user
  /\ j.step = "apply" => c.status = "approved" /\ n = 0
  /\ j.step = "mark" => c.status = "approved" /\ n = 1

\* What a candidate's status says about who has decided and what was written.
Recorded(c) ==
  LET found == candidates[c] IN
  /\ found.status \in {"absent", "pending", "rejected"} => written[c] = 0
  /\ found.status \in {"approved", "applied"} => found.reviewer \in User \ {found.author}
  /\ found.status = "applied" => written[c] = 1
  /\ written[c] <= 1

\* On a server a candidate has one request at most between its lock and its mark.
OneRequest ==
  \A g, h \in Handler :
    at[g] # NoReview /\ at[h] # NoReview /\ at[g].candidate = at[h].candidate => g = h

LearningInv ==
  /\ LearningTypeOK
  /\ OnServer => /\ \A h \in Handler : at[h] # NoReview => Justified(h)
                 /\ \A c \in Candidate : Recorded(c)
                 /\ OneRequest

SharedInv == AssetInv /\ MemoryInv /\ LearningInv

LEMMA LearningInitInv == LearningInit => LearningInv
BY DEF LearningInit, LearningInv, LearningTypeOK, CandidateRow, Recorded, OneRequest

LEMMA ExtractInv ==
  ASSUME LearningInv, NEW c \in Candidate, NEW u \in User, NEW target \in Experience \cup Kind,
         Extract(c, u, target)
  PROVE  LearningInv'
<1>1. /\ candidates[c].status = "absent"
      /\ candidates' = [candidates EXCEPT ![c] =
           [status |-> "pending", target |-> target, author |-> u, reviewer |-> NoUser]]
      /\ UNCHANGED <<store, at, written>>
  BY DEF Extract, assetVars
<1>2. LearningTypeOK'
  BY <1>1 DEF LearningInv, LearningTypeOK, CandidateRow
<1>3. \A b \in Candidate : b # c => candidates'[b] = candidates[b]
  BY <1>1 DEF LearningInv, LearningTypeOK
<1>4. candidates'[c].status = "pending"
  BY <1>1 DEF LearningInv, LearningTypeOK
<1>5. ASSUME OnServer, NEW h \in Handler, at[h] # NoReview
      PROVE  Justified(h)'
  <2>1. Justified(h) /\ at[h] \in Judgement
    BY <1>5 DEF LearningInv, LearningTypeOK
  <2>2. at[h].candidate # c /\ at[h].candidate \in Candidate
    BY <1>1, <2>1 DEF Justified, Judgement
  <2> QED BY <1>1, <1>3, <2>1, <2>2 DEF Justified
<1>6. ASSUME OnServer, NEW b \in Candidate
      PROVE  Recorded(b)'
  <2>1. Recorded(b)
    BY <1>6 DEF LearningInv
  <2> QED BY <1>1, <1>3, <1>4, <2>1 DEF Recorded
<1> QED BY <1>1, <1>2, <1>5, <1>6 DEF LearningInv, OnServer, OneRequest

LEMMA SelectInv ==
  ASSUME LearningInv, NEW h \in Handler, NEW c \in Candidate, NEW u \in User, NEW d \in BOOLEAN,
         SelectCandidate(h, c, u, d)
  PROVE  LearningInv'
<1> DEFINE j == [candidate |-> c, user |-> u, approve |-> d, step |-> "select"]
<1>1. /\ at[h] = NoReview /\ candidates[c].status = "pending" /\ candidates[c].author # u
      /\ OnServer => \A g \in Handler : Doing(g, "select") => at[g].candidate # c
      /\ at' = [at EXCEPT ![h] = j]
      /\ UNCHANGED <<store, candidates, written>>
  BY DEF SelectCandidate, assetVars
<1>2. j \in Judgement /\ j.candidate = c /\ j.user = u /\ j.step = "select"
  BY DEF Judgement
<1> HIDE DEF j
<1>3. LearningTypeOK'
  BY <1>1, <1>2 DEF LearningInv, LearningTypeOK
<1>4. at'[h] = j /\ \A g \in Handler : g # h => at'[g] = at[g]
  BY <1>1 DEF LearningInv, LearningTypeOK
<1>5. ASSUME OnServer, NEW g \in Handler, at'[g] # NoReview
      PROVE  Justified(g)'
  <2>1. CASE g = h
    BY <1>1, <1>2, <1>4, <2>1 DEF Justified
  <2>2. CASE g # h
    <3>1. Justified(g)
      BY <1>4, <1>5, <2>2 DEF LearningInv
    <3> QED BY <1>1, <1>4, <2>2, <3>1 DEF Justified
  <2> QED BY <2>1, <2>2
<1>6. OnServer => \A b \in Candidate : Recorded(b)'
  BY <1>1 DEF LearningInv, Recorded
<1>7. ASSUME OnServer, NEW g \in Handler, g # h, at[g] # NoReview
      PROVE  at[g].candidate # c
  <2>1. Justified(g) /\ at[g] \in Judgement
    BY <1>7 DEF LearningInv, LearningTypeOK
  <2>2. at[g].step \in {"select", "apply", "mark"}
    BY <2>1 DEF Judgement
  <2> QED BY <1>1, <1>7, <2>1, <2>2 DEF Justified, Doing
<1>8. OnServer => OneRequest'
  BY <1>2, <1>4, <1>7 DEF LearningInv, OneRequest
<1> QED BY <1>1, <1>3, <1>5, <1>6, <1>8 DEF LearningInv, OnServer

\* The candidates once one of them has a status and a reviewer.
Ruled(c, status, reviewer) ==
  [candidates EXCEPT ![c].status = status, ![c].reviewer = reviewer]

\* A step of the request of h to what it does next, j, on its candidate, for
\* which it leaves the row and the count that are given.
LEMMA RequestInv ==
  ASSUME LearningInv, NEW h \in Handler, at[h] # NoReview,
         NEW c, c = at[h].candidate,
         NEW j \in Judgement \cup {NoReview}, j # NoReview => j.candidate = c,
         NEW status \in {"absent", "pending", "approved", "rejected", "applied"},
         NEW reviewer \in User \cup {NoUser}, NEW n \in Nat,
         at' = [at EXCEPT ![h] = j],
         candidates' = Ruled(c, status, reviewer),
         written' = [written EXCEPT ![c] = n],
         UNCHANGED store,
         OnServer /\ j # NoReview => Justified(h)',
         OnServer => Recorded(c)'
  PROVE  LearningInv'
<1>1. c \in Candidate /\ candidates[c] \in CandidateRow
  BY DEF LearningInv, LearningTypeOK, Judgement
<1>2. [candidates[c] EXCEPT !.status = status, !.reviewer = reviewer] \in CandidateRow
  BY <1>1 DEF CandidateRow
<1>3. LearningTypeOK'
  BY <1>1, <1>2 DEF Ruled, LearningInv, LearningTypeOK
<1>4. /\ at'[h] = j
      /\ \A g \in Handler : g # h => at'[g] = at[g]
      /\ \A b \in Candidate : b # c => candidates'[b] = candidates[b] /\ written'[b] = written[b]
  BY <1>1 DEF Ruled, LearningInv, LearningTypeOK
<1>5. ASSUME OnServer, NEW g \in Handler, g # h, at[g] # NoReview
      PROVE  Justified(g)'
  <2>1. Justified(g) /\ at[g].candidate \in Candidate /\ at[g].candidate # c
    BY <1>5 DEF LearningInv, LearningTypeOK, OneRequest, Judgement
  <2> QED BY <1>4, <1>5, <2>1 DEF Justified
<1>6. ASSUME OnServer, NEW g \in Handler, at'[g] # NoReview
      PROVE  Justified(g)'
  BY <1>4, <1>5, <1>6
<1>7. ASSUME OnServer, NEW b \in Candidate
      PROVE  Recorded(b)'
  BY <1>4, <1>7 DEF LearningInv, Recorded
<1>8. OnServer => OneRequest'
  BY <1>4 DEF LearningInv, OneRequest
<1> QED BY <1>3, <1>6, <1>7, <1>8 DEF LearningInv, OnServer

\* What is not changed is as if it were set to what it is.
LEMMA Unset ==
  ASSUME LearningTypeOK, NEW c \in Candidate
  PROVE  /\ candidates = Ruled(c, candidates[c].status, candidates[c].reviewer)
         /\ written = [written EXCEPT ![c] = written[c]]
         /\ candidates[c] \in CandidateRow /\ written[c] \in Nat
BY DEF Ruled, LearningTypeOK, CandidateRow

LEMMA JudgeInv ==
  ASSUME LearningInv, NEW h \in Handler, Judge(h)
  PROVE  LearningInv'
<1>1. at[h] # NoReview /\ at[h].step = "select" /\ at[h] \in Judgement
  BY DEF Judge, Doing, LearningInv, LearningTypeOK
<1>2. PICK c \in Candidate : c = at[h].candidate
  BY <1>1 DEF Judgement
<1>3. PICK u \in User, approve \in BOOLEAN : u = at[h].user /\ approve = at[h].approve
  BY <1>1 DEF Judgement
<1> DEFINE status == IF approve THEN "approved" ELSE "rejected"
           j == IF approve THEN [at[h] EXCEPT !.step = "apply"] ELSE NoReview
<1>4. /\ candidates' = Ruled(c, status, u)
      /\ at' = [at EXCEPT ![h] = j]
      /\ UNCHANGED <<store, written>>
  BY <1>1, <1>2, <1>3 DEF Judge, Ruled, assetVars, LearningInv, LearningTypeOK
<1>5. OnServer => candidates[c].status = "pending" /\ candidates[c].author # u /\ written[c] = 0
  BY <1>1, <1>2, <1>3 DEF LearningInv, Justified, Recorded
<1>6. /\ written' = [written EXCEPT ![c] = written[c]]
      /\ candidates[c] \in CandidateRow /\ written[c] \in Nat
  BY <1>4, Unset DEF LearningInv
<1>7. /\ j \in Judgement \cup {NoReview}
      /\ j # NoReview => j.candidate = c /\ j.step = "apply" /\ approve
  BY <1>1, <1>2 DEF Judgement
<1>8. status \in {"absent", "pending", "approved", "rejected", "applied"} /\ u \in User \cup {NoUser}
  OBVIOUS
<1> HIDE DEF j
<1>9. /\ candidates'[c].status = status /\ candidates'[c].reviewer = u
      /\ candidates'[c].author = candidates[c].author
      /\ at'[h] = j
  BY <1>4, <1>6 DEF Ruled, LearningInv, LearningTypeOK, CandidateRow
<1>10. OnServer /\ j # NoReview => Justified(h)'
  BY <1>4, <1>5, <1>7, <1>9 DEF Justified
<1>11. OnServer => Recorded(c)'
  BY <1>4, <1>5, <1>9 DEF Recorded
<1> HIDE DEF status
<1> QED BY <1>1, <1>2, <1>4, <1>6, <1>7, <1>8, <1>10, <1>11, RequestInv

\* The write to the other store, whichever it is.
LEMMA ApplyInv ==
  ASSUME LearningInv, NEW h \in Handler, Apply(h)
  PROVE  LearningInv'
<1>1. at[h] # NoReview /\ at[h].step = "apply" /\ at[h] \in Judgement
  BY DEF Apply, Doing, LearningInv, LearningTypeOK
<1>2. PICK c \in Candidate : c = at[h].candidate
  BY <1>1 DEF Judgement
<1> DEFINE j == [at[h] EXCEPT !.step = "mark"]
<1>3. /\ written' = [written EXCEPT ![c] = written[c] + 1]
      /\ at' = [at EXCEPT ![h] = j]
      /\ UNCHANGED <<store, candidates>>
  BY <1>1, <1>2 DEF Apply, Upsert, assetVars, LearningInv, LearningTypeOK
<1>4. OnServer => candidates[c].status = "approved" /\ written[c] = 0 /\ Recorded(c)
  BY <1>1, <1>2 DEF LearningInv, Justified
<1>5. /\ candidates' = Ruled(c, candidates[c].status, candidates[c].reviewer)
      /\ candidates[c] \in CandidateRow /\ written[c] + 1 \in Nat
  BY <1>3, Unset DEF LearningInv
<1>6. j \in Judgement /\ j.candidate = c /\ j.step = "mark"
  BY <1>1, <1>2 DEF Judgement
<1>7. /\ candidates[c].status \in {"absent", "pending", "approved", "rejected", "applied"}
      /\ candidates[c].reviewer \in User \cup {NoUser}
  BY <1>5 DEF CandidateRow
<1> HIDE DEF j
<1>8. written'[c] = written[c] + 1 /\ at'[h] = j
  BY <1>3 DEF LearningInv, LearningTypeOK
<1>9. OnServer => Justified(h)' /\ Recorded(c)'
  BY <1>3, <1>4, <1>6, <1>8 DEF Justified, Recorded
<1> QED BY <1>1, <1>2, <1>3, <1>5, <1>6, <1>7, <1>9, RequestInv

\* The same, where the request ends and writes nothing.
LEMMA RequestEndsInv ==
  ASSUME LearningInv, NEW h \in Handler, at[h] # NoReview,
         NEW c, c = at[h].candidate,
         NEW status \in {"absent", "pending", "approved", "rejected", "applied"},
         NEW reviewer \in User \cup {NoUser},
         at' = [at EXCEPT ![h] = NoReview],
         candidates' = Ruled(c, status, reviewer),
         UNCHANGED <<store, written>>,
         OnServer => Recorded(c)'
  PROVE  LearningInv'
<1>1. c \in Candidate
  BY DEF LearningInv, LearningTypeOK, Judgement
<1>2. written[c] \in Nat /\ written' = [written EXCEPT ![c] = written[c]]
  BY <1>1, Unset DEF LearningInv
<1>3. /\ NoReview \in Judgement \cup {NoReview}
      /\ NoReview # NoReview => NoReview.candidate = c
      /\ OnServer /\ NoReview # NoReview => Justified(h)'
  OBVIOUS
<1> QED BY <1>1, <1>2, <1>3, RequestInv

LEMMA MarkAppliedInv ==
  ASSUME LearningInv, NEW h \in Handler, MarkApplied(h)
  PROVE  LearningInv'
<1>1. at[h] # NoReview /\ at[h].step = "mark" /\ at[h] \in Judgement
  BY DEF MarkApplied, Doing, LearningInv, LearningTypeOK
<1>2. PICK c \in Candidate : c = at[h].candidate
  BY <1>1 DEF Judgement
<1>3. candidates[c] \in CandidateRow
  BY Unset DEF LearningInv
<1>4. PICK status \in {"absent", "pending", "approved", "rejected", "applied"} :
        status = IF candidates[c].status = "approved" THEN "applied" ELSE candidates[c].status
  BY <1>3 DEF CandidateRow
<1>5. /\ candidates' = Ruled(c, status, candidates[c].reviewer)
      /\ at' = [at EXCEPT ![h] = NoReview]
      /\ UNCHANGED <<store, written>>
  BY <1>2, <1>3, <1>4 DEF MarkApplied, Ruled, assetVars, LearningInv, LearningTypeOK, CandidateRow
<1>6. /\ candidates'[c].status = status
      /\ candidates'[c].reviewer = candidates[c].reviewer
      /\ candidates'[c].author = candidates[c].author
      /\ candidates[c].reviewer \in User \cup {NoUser}
  BY <1>3, <1>5 DEF Ruled, LearningInv, LearningTypeOK, CandidateRow
<1>7. OnServer => candidates[c].status = "approved" /\ written[c] = 1 /\ Recorded(c)
  BY <1>1, <1>2 DEF LearningInv, Justified
<1>8. OnServer => Recorded(c)'
  BY <1>4, <1>5, <1>6, <1>7 DEF Recorded
<1> QED BY <1>1, <1>2, <1>3, <1>5, <1>6, <1>8, RequestEndsInv

LEMMA AbandonInv ==
  ASSUME LearningInv, NEW h \in Handler, Abandon(h)
  PROVE  LearningInv'
<1>1. at[h] # NoReview /\ at[h] \in Judgement
  BY DEF Abandon, LearningInv, LearningTypeOK
<1>2. PICK c \in Candidate : c = at[h].candidate
  BY <1>1 DEF Judgement
<1>3. /\ candidates' = Ruled(c, candidates[c].status, candidates[c].reviewer)
      /\ at' = [at EXCEPT ![h] = NoReview]
      /\ candidates[c] \in CandidateRow /\ written[c] \in Nat
      /\ UNCHANGED <<store, candidates, written>>
  BY Unset DEF Abandon, assetVars, LearningInv
<1>4. /\ candidates[c].status \in {"absent", "pending", "approved", "rejected", "applied"}
      /\ candidates[c].reviewer \in User \cup {NoUser}
  BY <1>3 DEF CandidateRow
<1>5. OnServer => Recorded(c)'
  BY <1>3 DEF LearningInv, Recorded
<1> QED BY <1>1, <1>2, <1>3, <1>4, <1>5, RequestEndsInv

-----------------------------------------------------------------------------
\* An operation on the assets stays with its store.
LEMMA StoreStays ==
  ASSUME [AssetNext]_assetVars
  PROVE  UNCHANGED store
<1>1. ASSUME NEW i \in Asset, NEW u \in User, Save(i, u) \/ Seed(i, u)
      PROVE  UNCHANGED store
  BY <1>1 DEF Save, Seed, Upsert
<1>2. ASSUME NEW i \in Asset, NEW u \in User, NEW d \in BOOLEAN,
             Consider(i, u) \/ BeginReview(i, u, d)
      PROVE  UNCHANGED store
  BY <1>2 DEF Consider, BeginReview
<1>3. ASSUME NEW p \in pending, Propose(p) \/ Review(p)
      PROVE  UNCHANGED store
  BY <1>3 DEF Propose, Upsert, Review
<1>4. ASSUME NEW i \in Asset, Retire(i) \/ Remove(i)
      PROVE  UNCHANGED store
  BY <1>4 DEF Retire, Remove
<1> QED BY <1>1, <1>2, <1>3, <1>4 DEF AssetNext, assetVars

LEMMA LearningStep ==
  ASSUME SharedInv, LearningNext
  PROVE  SharedInv' /\ Progress /\ Forward /\ EndedStays
<1>1. AssetInv /\ MemoryInv /\ LearningInv
  BY DEF SharedInv
<1>2. ASSUME UNCHANGED assetVars
      PROVE  AssetInv' /\ Progress /\ Forward
  BY <1>1, <1>2, AssetStep
<1>3. ASSUME UNCHANGED memoryVars
      PROVE  MemoryInv' /\ EndedStays
  BY <1>1, <1>3, MemoryStep
<1>4. ASSUME NEW c \in Candidate, NEW u \in User, NEW target \in Experience \cup Kind,
             Extract(c, u, target)
      PROVE  SharedInv' /\ Progress /\ Forward /\ EndedStays
  <2>1. UNCHANGED assetVars /\ UNCHANGED memoryVars
    BY <1>4 DEF Extract
  <2> QED BY <1>1, <1>2, <1>3, <1>4, <2>1, ExtractInv DEF SharedInv
<1>5. ASSUME NEW c \in Candidate, NEW u \in User, NEW h \in Handler, NEW d \in BOOLEAN,
             SelectCandidate(h, c, u, d)
      PROVE  SharedInv' /\ Progress /\ Forward /\ EndedStays
  <2>1. UNCHANGED assetVars /\ UNCHANGED memoryVars
    BY <1>5 DEF SelectCandidate
  <2> QED BY <1>1, <1>2, <1>3, <1>5, <2>1, SelectInv DEF SharedInv
<1>6. ASSUME NEW h \in Handler, Judge(h) \/ MarkApplied(h) \/ Abandon(h)
      PROVE  SharedInv' /\ Progress /\ Forward /\ EndedStays
  <2>1. UNCHANGED assetVars /\ UNCHANGED memoryVars
    BY <1>6 DEF Judge, MarkApplied, Abandon
  <2>2. LearningInv'
    BY <1>1, <1>6, JudgeInv, MarkAppliedInv, AbandonInv
  <2> QED BY <1>2, <1>3, <2>1, <2>2 DEF SharedInv
<1>7. ASSUME NEW h \in Handler, Apply(h)
      PROVE  SharedInv' /\ Progress /\ Forward /\ EndedStays
  <2>1. LearningInv'
    BY <1>1, <1>7, ApplyInv
  <2>2. PICK u \in User : u = at[h].user
    BY <1>1, <1>7 DEF Apply, Doing, LearningInv, LearningTypeOK, Judgement
  <2>3. PICK target : target = candidates[at[h].candidate].target
    OBVIOUS
  <2>4. CASE /\ target \in Experience
             /\ \E i \in {target} \cup Duplicates(target) : \E dups \in SUBSET Duplicates(i) :
                  Upsert(i, u, "active", NoCode, dups)
             /\ UNCHANGED <<pending, memoryVars>>
    <3>1. PICK i \in {target} \cup Duplicates(target) : \E dups \in SUBSET Duplicates(i) :
            Upsert(i, u, "active", NoCode, dups)
      BY <2>4
    <3>2. PICK dups \in SUBSET Duplicates(i) : Upsert(i, u, "active", NoCode, dups)
      BY <3>1
    <3>3. /\ i \in Experience /\ i \in Asset
          /\ i \notin Topic
      BY <2>4, AssetAssumption DEF AssetAssumption, Duplicates, Asset
    <3>4. dups \in SUBSET (Experience \ {i}) /\ \A j \in dups : Listed(j)
      BY DEF Duplicates
    <3>5. pending' \subseteq pending /\ UNCHANGED memoryVars
      BY <2>4
    <3>6. AssetInv' /\ Progress /\ Forward
      BY <1>1, <3>2, <3>3, <3>4, <3>5, UpsertInv
    <3> QED BY <1>3, <2>1, <3>5, <3>6 DEF SharedInv
  <2>5. CASE /\ target \in Kind
             /\ \E r \in Record : Write(r, u, target, TRUE, TRUE)
             /\ UNCHANGED assetVars
    <3>1. MemoryInv' /\ EndedStays
      BY <1>1, <2>5, WriteInv DEF EndedStays
    <3> QED BY <1>2, <2>1, <2>5, <3>1 DEF SharedInv
  <2> QED BY <1>7, <2>2, <2>3, <2>4, <2>5 DEF Apply
<1> QED BY <1>4, <1>5, <1>6, <1>7 DEF LearningNext

LEMMA SharedStep ==
  ASSUME SharedInv, [SharedNext]_allVars
  PROVE  SharedInv' /\ Progress /\ Forward /\ EndedStays
<1>1. AssetInv /\ MemoryInv /\ LearningInv
  BY DEF SharedInv
<1>2. ASSUME UNCHANGED learningVars, UNCHANGED store
      PROVE  LearningInv'
  BY <1>1, <1>2
  DEF LearningInv, LearningTypeOK, learningVars, OnServer, Justified, Recorded, OneRequest
<1>3. CASE [AssetNext]_assetVars /\ UNCHANGED memoryVars /\ UNCHANGED learningVars
  BY <1>1, <1>2, <1>3, AssetStep, MemoryStep, StoreStays DEF SharedInv
<1>4. CASE MemoryNext /\ UNCHANGED assetVars /\ UNCHANGED learningVars
  BY <1>1, <1>2, <1>4, AssetStep, MemoryStep, StoreStays DEF SharedInv
<1> QED BY <1>3, <1>4, LearningStep DEF SharedNext, allVars

\* Learning, assets and memory keep their invariants while all of them are at
\* work: what a request of the weekly learning writes to another's tables, at
\* the moment it writes it, is as good there as that one's own writes.
THEOREM SharedInvariance == SharedSpec => []SharedInv
<1>1. SharedInit => SharedInv
  BY AssetInitInv, MemoryInitInv, LearningInitInv DEF SharedInit, SharedInv
<1>2. SharedInv /\ [SharedNext]_allVars => SharedInv'
  BY SharedStep
<1> QED BY <1>1, <1>2, PTL DEF SharedSpec

\* On a server a candidate is written at most once, on an approval by another
\* than its author that still stands, whatever the two stores do meanwhile
\* (handle_weekly_report_learning_review in api/routes/reports.py).
THEOREM LearnedAtMostOnce == SharedSpec => []LearnedOnce
<1>1. SharedInv => LearnedOnce
  <2>1. ASSUME SharedInv, OnServer, NEW c \in Candidate
        PROVE  /\ written[c] <= 1
               /\ candidates[c].status = "applied" => written[c] = 1
               /\ written[c] = 1 =>
                    /\ candidates[c].status \in {"approved", "applied"}
                    /\ candidates[c].reviewer \in User \ {candidates[c].author}
    <3>1. Recorded(c) /\ candidates[c] \in CandidateRow
      BY <2>1 DEF SharedInv, LearningInv, LearningTypeOK
    <3> QED BY <3>1 DEF Recorded, CandidateRow
  <2> QED BY <2>1 DEF LearnedOnce
<1> QED BY <1>1, SharedInvariance, PTL

\* Decisions about asset versions stand while the weekly learning publishes too.
THEOREM LearningKeepsDecisions == SharedSpec => DecisionsStand
<1>1. SharedInv /\ [SharedNext]_allVars => [DecisionsStay]_assetVars
  BY SharedStep, ProgressStays DEF SharedInv
<1> QED BY <1>1, SharedInvariance, PTL DEF SharedSpec, DecisionsStand, DecisionsStay

\* Nor does what it publishes put an earlier version back, where a review
\* chooses its version under the lock.
THEOREM LearningMovesForward == SharedSpec => VersionsMoveForward
<1>1. SharedInv /\ [SharedNext]_allVars =>
        [store # "postgresql" =>
           \A i \in Asset : \A j \in Actives(i), k \in Actives(i)' : j <= k]_assetVars
  BY SharedStep DEF Forward
<1> QED BY <1>1, SharedInvariance, PTL DEF SharedSpec, VersionsMoveForward

\* Nor does what it writes to the memory bring an ended record back.
THEOREM LearningKeepsEnds == SharedSpec => EndedMemoriesStayOut
<1>1. SharedInv /\ [SharedNext]_allVars => [EndedStays]_memoryVars
  BY SharedStep
<1> QED BY <1>1, SharedInvariance, PTL DEF SharedSpec, EndedMemoriesStayOut, EndedStays
=============================================================================
