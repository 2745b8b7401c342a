CONSTANTS
  w1 = w1
  w2 = w2
  m1 = m1
  m2 = m2
  Worktrees = {w1, w2}
  Callers = {c1, c2}
  Probes = {p1, p2}
  Removals = {m1, m2}
  Lockable = {}
  Batch <- MCBatch
  MaxVersion = 1
  None = None
SYMMETRY MCSymmetry
SPECIFICATION Spec
INVARIANTS NoProbeInRemoval
PROPERTIES RefreshIsFresh
CHECK_DEADLOCK FALSE
