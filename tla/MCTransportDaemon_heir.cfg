SPECIFICATION Spec
CONSTANTS
  WindowSize = 1
  SequenceSize = 2
  PortLimit = 8
  SockCapacity = 1
  c1 = c1
  c2 = c2
  s1 = s1
  s2 = s2
  App = {c1, c2, s1, s2}
  Node = {1, 2}
  NodeOf <- NodeOfHeir
  Ask <- AskHeir
  MaxChunks = 2
  MaxChannel = 1
  Lossy = TRUE
  Pace = "quiet"
  MayClose = {s1}
CHECK_DEADLOCK FALSE
INVARIANTS
  TypeOK
  DataFromPeerOnly
  PortsDistinct
