SPECIFICATION Spec
CONSTANTS
  Platforms <- MCPlatforms
  DeadlineTicks = 20
  FlushTicks = 4
  ExitTicks = 6
  ResumeTicks = 1
INVARIANTS NoOrphan NeverForced
PROPERTIES FlushedFirst YieldsToUpdater QuitEnds
\* The process ends.
CHECK_DEADLOCK FALSE
