CONSTANTS
  Workers = {1, 2}
  Controllers = {c1, c2, c3}
  None = None
  MaxCalls = 5
  Base = c1
  Shared = {1}
SPECIFICATION FairSpec
INVARIANTS
  LoopPointersLive
  PoolAllOrNothing
PROPERTIES
  CallsReturn
  CallsKeepPromise
CHECK_DEADLOCK FALSE
