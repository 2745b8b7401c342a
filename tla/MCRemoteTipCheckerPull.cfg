CONSTANTS
  r1 = r1
  i1 = i1
  i2 = i2
  Repos = {r1}
  Ids = {i1, i2}
  RepositoryOf <- MCRepositoryOf
  Slots <- MCSlots
  MaxEntries = 1
  MaxGeneration = 1
  MaxPulls = 1
  MaxSwitches <- MCMaxSwitches
SPECIFICATION Spec
PROPERTIES OperationsSupersede
CHECK_DEADLOCK FALSE
