SPECIFICATION FairSpec
CONSTANTS
  w1 = w1
  w2 = w2
  Conns = {c1, c2}
  Base = base
  Workers = {w1, w2}
  Pools <- MCPools
  None = none
  MaxGeneration = 3
INVARIANTS
  OneHolder
  OneIdleTimer
  NotUsedAfterDestruction
PROPERTIES
  StopCompletes
CHECK_DEADLOCK FALSE
