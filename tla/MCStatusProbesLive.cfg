CONSTANTS
  w1 = w1
  w2 = w2
  m1 = m1
  m2 = m2
  Worktrees = {w1, w2}
  Callers = {c1}
  Probes = {p1, p2}
  Removals = {m1, m2}
  Lockable = {w2}
  Batch <- MCBatch
  MaxVersion = 0
  None = None
SPECIFICATION Spec
PROPERTIES NobodyWaitsForEver
CHECK_DEADLOCK FALSE
