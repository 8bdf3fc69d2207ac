----------------------------- MODULE MCReviews -----------------------------
(***************************************************************************)
(* Five kinds of thing that one party submits and a user decides about, in *)
(* one deployment: tickets for risky calls, data assets, memory records,   *)
(* what the weekly reports teach, and devices that want to act for him.    *)
(* They share no rows, so a behaviour is of one kind, and one of the       *)
(* assets is of one class of items; the learning writes to the assets and  *)
(* the memory.                                                             *)
(***************************************************************************)
EXTENDS CapabilityApproval, WeeklyLearning, Bridge, TLC

VARIABLES part, class

OneStore == onServer = OnServer /\ locking = OnServer /\ identifying = OnServer

MCInit ==
  /\ Init /\ AssetInit /\ MemoryInit /\ LearningInit /\ BridgeInit
  /\ part \in {"approvals", "assets", "memory", "learning", "bridge"}
  /\ class \in {Skill, Topic, Experience}
  /\ OneStore
  /\ part # "assets" => class = Experience /\ store # "mysql"

InClass ==
  /\ \A i \in Asset \ class : versions'[i] = <<>>
  /\ \A p \in pending' : p.asset \in class

MCNext ==
  /\ \/ /\ part = "approvals"
        /\ Next
        /\ UNCHANGED <<assetVars, memoryVars, learningVars, bridgeVars>>
     \/ /\ part = "assets"
        /\ AssetNext
        /\ InClass
        /\ UNCHANGED <<vars, memoryVars, learningVars, bridgeVars>>
     \/ /\ part = "memory"
        /\ MemoryNext
        /\ UNCHANGED <<vars, assetVars, learningVars, bridgeVars>>
     \/ /\ part = "learning"
        /\ LearningNext
        /\ UNCHANGED <<vars, bridgeVars>>
     \/ /\ part = "bridge"
        /\ BridgeNext
        /\ UNCHANGED <<vars, assetVars, memoryVars, learningVars>>
  /\ UNCHANGED <<part, class>>

MCSpec ==
  MCInit /\ [][MCNext]_<<vars, assetVars, memoryVars, learningVars, bridgeVars, part, class>>

\* The types of all five.
ReviewTypes == TypeOK /\ AssetTypeOK /\ MemoryTypeOK /\ LearningTypeOK /\ BridgeTypeOK

\* Things of a sort are alike.  Parts that never move together share the names
\* of theirs in the configuration, which keeps the permutations few.
Alike == Permutations(Thread) \cup Permutations(User) \cup Permutations(Ticket)
=============================================================================
