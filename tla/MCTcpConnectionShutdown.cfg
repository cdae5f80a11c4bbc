SPECIFICATION Spec
CONSTANTS
  ReadWaiters = {}
  WriteWaiters = {}
  CloseWaiters = {}
  None = None
  Setups <- ShutdownSetups
  Size = 1
  MinBytes = 1
INVARIANT ReportedOnce
CHECK_DEADLOCK FALSE
