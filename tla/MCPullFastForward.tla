-------------------------- MODULE MCPullFastForward --------------------------
(* Work of each kind that a rollback treats differently: a change of a file that   *)
(* the upstream changes, a new file where it adds one, a new file elsewhere.      *)
EXTENDS PullFastForward

CONSTANTS changed, added, elsewhere, sibling, main, other
=============================================================================
