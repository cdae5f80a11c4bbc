CONSTANTS
  Threads = {t1}
  Functors = {f1, f2}
  None = None
  CapturesPost = TRUE
SPECIFICATION Spec
INVARIANT NoLostWakeup
CHECK_DEADLOCK FALSE
