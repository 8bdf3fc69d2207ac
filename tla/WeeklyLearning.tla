--------------------------- MODULE WeeklyLearning ---------------------------
(***************************************************************************)
(* What the weekly reports teach: candidates extracted from the versions   *)
(* of a report, judged by another user, and applied at once by the request *)
(* that approved them, a method as an analysis experience and a fact or a  *)
(* habit as a memory record.  The request is three transactions: the       *)
(* review (a SELECT and an UPDATE), the write to the other store, and the  *)
(* mark that it was applied.  On a server the SELECT locks the candidate;  *)
(* the SQLite twin reads it outside the transaction that updates it.       *)
(***************************************************************************)
EXTENDS AssetLifecycle, MemoryLifecycle

CONSTANTS
  Candidate,   \* learning_candidate_id
  Handler,     \* requests at work on a review
  NoTarget, NoReview

ASSUME LearningAssumption ==
  /\ Experience \cap Kind = {}
  /\ NoTarget \notin Experience \cup Kind

VARIABLES
  candidates,  \* platform_report_learning_candidates
  at,          \* what each request does, and for whom
  written      \* how often each candidate was written to the other store

learningVars == <<candidates, at, written>>

\* A method names the experience it becomes, a fact the kind of its record.
CandidateRow == [status : {"absent", "pending", "approved", "rejected", "applied"},
                 target : Experience \cup Kind \cup {NoTarget},
                 author : User \cup {NoUser}, reviewer : User \cup {NoUser}]

Judgement == [candidate : Candidate, user : User, approve : BOOLEAN,
              step : {"select", "apply", "mark"}]

LearningTypeOK ==
  /\ candidates \in [Candidate -> CandidateRow]
  /\ at \in [Handler -> Judgement \cup {NoReview}]
  /\ written \in [Candidate -> Nat]

LearningInit ==
  /\ candidates = [c \in Candidate |->
       [status |-> "absent", target |-> NoTarget, author |-> NoUser, reviewer |-> NoUser]]
  /\ at = [h \in Handler |-> NoReview]
  /\ written = [c \in Candidate |-> 0]

Doing(h, step) == at[h] # NoReview /\ at[h].step = step

\* create_learning_candidate: one row per version, type and content.
Extract(c, u, target) ==
  /\ candidates[c].status = "absent"
  /\ candidates' = [candidates EXCEPT ![c] =
       [status |-> "pending", target |-> target, author |-> u, reviewer |-> NoUser]]
  /\ UNCHANGED <<assetVars, memoryVars, at, written>>

\* As SelectCandidate, without FOR UPDATE.
SelectUnlocked(h, c, u, d) ==
  /\ at[h] = NoReview
  /\ candidates[c].status = "pending"
  /\ candidates[c].author # u
  /\ at' = [at EXCEPT ![h] = [candidate |-> c, user |-> u, approve |-> d, step |-> "select"]]
  /\ UNCHANGED <<assetVars, memoryVars, candidates, written>>

\* review_learning_candidate, its SELECT: pending, and not u's own.
SelectCandidate(h, c, u, d) ==
  /\ at[h] = NoReview
  /\ candidates[c].status = "pending"
  /\ candidates[c].author # u
  /\ OnServer => \A g \in Handler : Doing(g, "select") => at[g].candidate # c
  /\ at' = [at EXCEPT ![h] = [candidate |-> c, user |-> u, approve |-> d, step |-> "select"]]
  /\ UNCHANGED <<assetVars, memoryVars, candidates, written>>

\* review_learning_candidate, its UPDATE; a rejection ends the request.
Judge(h) ==
  /\ Doing(h, "select")
  /\ candidates' = [candidates EXCEPT
       ![at[h].candidate].status = IF at[h].approve THEN "approved" ELSE "rejected",
       ![at[h].candidate].reviewer = at[h].user]
  /\ at' = [at EXCEPT ![h] = IF @.approve THEN [@ EXCEPT !.step = "apply"] ELSE NoReview]
  /\ UNCHANGED <<assetVars, memoryVars, written>>

\* _apply_learning_candidate: an active experience, be it the one it is merged
\* into, or a forced memory record, in the name of the reviewer.
Apply(h) ==
  LET target == candidates[at[h].candidate].target IN
  /\ Doing(h, "apply")
  /\ \/ /\ target \in Experience
        /\ \E i \in {target} \cup Duplicates(target) : \E dups \in SUBSET Duplicates(i) :
             Upsert(i, at[h].user, "active", NoCode, dups)
        /\ UNCHANGED <<pending, memoryVars>>
     \/ /\ target \in Kind
        /\ \E r \in Record : Write(r, at[h].user, target, TRUE, TRUE)
        /\ UNCHANGED assetVars
  /\ at' = [at EXCEPT ![h].step = "mark"]
  /\ written' = [written EXCEPT ![at[h].candidate] = @ + 1]
  /\ UNCHANGED candidates

\* mark_learning_candidate_applied, which raises unless the row is approved.
MarkApplied(h) ==
  /\ Doing(h, "mark")
  /\ candidates' = [candidates EXCEPT
       ![at[h].candidate].status = IF @ = "approved" THEN "applied" ELSE @]
  /\ at' = [at EXCEPT ![h] = NoReview]
  /\ UNCHANGED <<assetVars, memoryVars, written>>

\* The request raises or dies: the memory is a duplicate, the evidence may not
\* be published, the process stops.  What was committed stays.
Abandon(h) ==
  /\ at[h] # NoReview
  /\ at' = [at EXCEPT ![h] = NoReview]
  /\ UNCHANGED <<assetVars, memoryVars, candidates, written>>

LearningNext ==
  \/ \E c \in Candidate, u \in User :
       \/ \E target \in Experience \cup Kind : Extract(c, u, target)
       \/ \E h \in Handler, d \in BOOLEAN : SelectCandidate(h, c, u, d)
  \/ \E h \in Handler : Judge(h) \/ Apply(h) \/ MarkApplied(h) \/ Abandon(h)

-----------------------------------------------------------------------------
\* On a server a candidate is learned once: however many requests review it
\* and wherever one of them stops, it is written at most once, on the approval
\* of somebody other than its author that still stands, and "applied" says that
\* it was (handle_weekly_report_learning_review in api/routes/reports.py).
LearnedOnce ==
  OnServer => \A c \in Candidate :
    /\ written[c] <= 1
    /\ candidates[c].status = "applied" => written[c] = 1
    /\ written[c] = 1 =>
         /\ candidates[c].status \in {"approved", "applied"}
         /\ candidates[c].reviewer \in User \ {candidates[c].author}
=============================================================================
