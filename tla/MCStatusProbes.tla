--------------------------- MODULE MCStatusProbes ---------------------------
(* Two removals asked for overlapping worktrees in opposite orders. *)
EXTENDS StatusProbes, TLC

CONSTANTS w1, w2, m1, m2

MCBatch == [r \in {m1, m2} |-> IF r = m1 THEN <<w1, w2>> ELSE <<w2, w1>>]

MCSymmetry == Permutations(Callers) \cup Permutations(Probes)
=============================================================================
