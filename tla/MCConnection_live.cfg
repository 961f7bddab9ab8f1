SPECIFICATION FairSpec
CONSTANTS
  WindowSize = 2
  SequenceSize = 3
  PortLimit = 8
  SockCapacity = 1
  MaxChunks = 4
  MaxChannel = 6
  Lossy = FALSE
  MaxLosses = 1
  Pace = "alternate"
  UpperHalf = {0}
  MayClose = {"client", "server"}
CHECK_DEADLOCK FALSE
INVARIANTS
  ToldAfterServer
PROPERTIES
  NoSpuriousFailure
  PeerLossDetected
  Delivery
