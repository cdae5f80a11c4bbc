SPECIFICATION FairSpec
CONSTANTS
  A = A
  B = B
  Main = Main
  Loops = {A, B}
  Others = {Main}
  None = None
  N = 3
  Scenarios <- MCScenarios
INVARIANTS
  FramesSafe
  TreeSerialized
  VerdictHonest
  SleepSettled
PROPERTIES
  ImplementsCombinator
  FramesReleased
CHECK_DEADLOCK FALSE
