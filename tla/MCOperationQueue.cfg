CONSTANTS
  RepoKeys = {r1}
  WorktreeKeys = {w1}
  Calls = {a1, a2, a3, a4}
  None = None
  Asks <- MCAsks
SPECIFICATION Spec
INVARIANTS MutualExclusion NoWaitCycle TailsAreLive
PROPERTIES RefusedOnlyByRunning FifoOrder
CHECK_DEADLOCK FALSE
