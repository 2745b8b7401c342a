CONSTANTS
  r1 = r1
  i1 = i1
  i2 = i2
  Repos = {r1}
  Ids = {i1, i2}
  RepositoryOf <- MCRepositoryOf
  Slots <- MCSlots
  MaxEntries = 2
  MaxGeneration = 1
  MaxPulls = 1
  MaxSwitches <- MCMaxSwitches
SPECIFICATION Spec
INVARIANTS OneCheckPerRepository NothingStaleReused OnlySupersededForCause
PROPERTIES AnsweredForTheBranch EveryRequestSettles
CHECK_DEADLOCK FALSE
