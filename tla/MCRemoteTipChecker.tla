------------------------- MODULE MCRemoteTipChecker -------------------------
(* One repository with two worktrees: everything that races here is within one.    *)
EXTENDS RemoteTipChecker, TLC

CONSTANTS r1, i1, i2

MCRepositoryOf == [id \in {i1, i2} |-> r1]
MCMaxSwitches == [id \in {i1, i2} |-> IF id = i1 THEN 1 ELSE 0]
MCNoSwitches == [id \in {i1, i2} |-> 0]
MCSlots == [l \in {"background", "direct"} |-> 2]

=============================================================================
