SPECIFICATION Spec
CONSTANTS
  kCheapPrepend = 1
  kInitialSize = 3
  ExtraSize = 5
  Base = 6
  W16 = 1
  W32 = 1
  expectedMagic_ = 1
  maxPayload_ = 2
  Peers <- MCPeers
  Lengths = {0, 2, 3}
  MaxFrames = 3
  MaxWire = 6
  Batches <- MCBatches
INVARIANTS
  StreamIntact
  NoFrameLeftBehind
  InputBounded
CHECK_DEADLOCK FALSE
