------------------------------- MODULE MCChanges -------------------------------
(* The multi-step changes that share no state, checked in one run: a behaviour is  *)
(* one of StashRemoval, HistoryEdit, BranchCleanup, RepoRemoval or Updates, which  *)
(* `part' names, and leaves the variables of the others alone.                   *)
EXTENDS StashRemoval, Updates, HistoryEdit, BranchCleanup, RepoRemoval, TLC

CONSTANTS a, b

VARIABLE part

(* Two values of Hashes, Requests, Finished and Linked alike are interchangeable. *)
Swap == Permutations({a, b})

MCSelected == <<{1}, {2}>>

ChangesInit ==
  /\ part \in {"stash", "history", "branches", "repository", "update"}
  /\ StashInit /\ HistoryEditInit /\ CleanupInit /\ RemovalInit /\ UpdatesInit
  /\ part # "history" => current = CHOOSE x \in Branches : TRUE
  /\ part # "branches" => \A x \in Finished : evidence[x] = "pr"
  /\ part # "update" =>
       platform = "linux" /\ selection = CHOOSE t \in Tracks : TRUE

ChangesNext ==
  /\ UNCHANGED part
  /\ \/ /\ part = "stash" /\ StashNext
        /\ UNCHANGED <<editVars, cleanupVars, removalVars, updatesVars>>
     \/ /\ part = "history" /\ HistoryEditNext
        /\ UNCHANGED <<stashVars, cleanupVars, removalVars, updatesVars>>
     \/ /\ part = "branches" /\ CleanupNext
        /\ UNCHANGED <<stashVars, editVars, removalVars, updatesVars>>
     \/ /\ part = "repository" /\ RemovalNext
        /\ UNCHANGED <<stashVars, editVars, cleanupVars, updatesVars>>
     \/ /\ part = "update" /\ UpdatesNext
        /\ UNCHANGED <<stashVars, editVars, cleanupVars, removalVars>>

changesVars == <<part, stashVars, editVars, cleanupVars, removalVars, updatesVars>>

ChangesSpec == ChangesInit /\ [][ChangesNext]_changesVars
=============================================================================
