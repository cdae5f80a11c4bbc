CONSTANTS
  Threads = {t1, t2}
  Functors = {f1, f2, f3}
  None = None
  CapturesPost = FALSE
SPECIFICATION FairSpec
INVARIANTS
  NoLostWakeup
  HandleTouchesLiveLoop
  AcceptedWorkDrained
PROPERTIES
  ImplementsTaskExecutor
  RequestsServed
CHECK_DEADLOCK FALSE
