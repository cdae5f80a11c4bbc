CONSTANTS
  N = 2
  Whens = {0, 3}
  Intervals = {1}
  TicksPerMs = 2
  DefaultTimeout = 1
  IntMax = 2
  Horizon = 4
SPECIFICATION FairSpec
INVARIANTS
  ContainersAgree
PROPERTIES
  TimersFire
  FiringsAreDue
  PollMeetsDeadline
CHECK_DEADLOCK FALSE
