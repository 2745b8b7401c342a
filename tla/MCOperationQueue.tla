-------------------------- MODULE MCOperationQueue --------------------------
(* A repository and its worktrees.  Asks is what handlers do (repository ->       *)
(* worktree) and what the queue's tests try (reentry, inversion).                 *)
EXTENDS OperationQueue

MCAsks == [k \in Keys |-> RepoKeys \cup (WorktreeKeys \cap IF k \in RepoKeys THEN Keys ELSE {k})]
=============================================================================
