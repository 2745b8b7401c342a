----------------------------- MODULE MCBulkSync -----------------------------
(* A repository with a worktree that may be pulled and one with nothing to pull,   *)
(* and one with a single worktree, for two workers.                               *)
EXTENDS BulkSync

CONSTANTS t1, t2, t3

MCTwoRepos == [t \in {t2, t3} |-> IF t = t3 THEN 2 ELSE 1]
MCOneRepo == [t \in {t1, t2} |-> 1]
=============================================================================
