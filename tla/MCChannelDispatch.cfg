CONSTANTS
  Channels = {c1, c2, c3}
  Fds = {d1, d2}
  Null = Null
  ReadySets = {{"error", "read"}, {"write", "close"}}
SYMMETRY Symmetry
SPECIFICATION Spec
INVARIANTS
  NoDanglingDispatch
  BackendConsistent
