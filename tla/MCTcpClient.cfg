SPECIFICATION FairSpec
CONSTANTS
  Setups <- MCSetups
  MaxAddrs = 2
  InitDelay = 2
  MaxDelay = 3
  MaxCalls = 3
  MaxFailures = 3
  MaxCloses = 2
  None = none
INVARIANTS
  ResourcesOwned
  NeverStranded
PROPERTIES
  StopIsFinal
  AttemptsEnd
CHECK_DEADLOCK FALSE
