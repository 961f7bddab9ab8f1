SPECIFICATION Spec
CONSTANTS
  WindowSize = 1
  SequenceSize = 4
  PortLimit = 8
  SockCapacity = 1
  c1 = c1
  c2 = c2
  s1 = s1
  s2 = s2
  App = {c1, c2, s1}
  Node = {1, 2}
  NodeOf <- NodeOfPair
  Ask <- AskPair
  MaxChunks = 2
  MaxChannel = 4
  Lossy = FALSE
  Pace = "quiet"
  MayClose = {c1, c2}
CHECK_DEADLOCK FALSE
INVARIANTS
  OneStream
