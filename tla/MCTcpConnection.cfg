SPECIFICATION Spec
CONSTANTS
  ReadWaiters = {r1, r2}
  WriteWaiters = {w1}
  CloseWaiters = {c1}
  None = None
  Setups <- MCSetups
  Size = 2
  MinBytes = 2
SYMMETRY Symmetry
INVARIANTS
  OutputInOrder
  InterestFollowsOutput
  ReportedOnce
  WaitersCompleteOnTime
PROPERTIES
  CompletionIsFinal
CHECK_DEADLOCK FALSE
