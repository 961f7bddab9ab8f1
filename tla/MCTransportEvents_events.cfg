SPECIFICATION FairSpec
CONSTANTS
  WindowSize = 1
  SequenceSize = 2
  PortLimit = 8
  SockCapacity = 1
  c1 = c1
  c2 = c2
  App = {c1, c2}
  Ask <- AskTwo
  MayClose = {c1}
  Input <- Answers
  LastFd = 7
  MaxBatch = 3
  SockPackets = 1
  MaxInbox = 2
  MaxQueue = 2
CHECK_DEADLOCK FALSE
INVARIANTS
  TypeOK
  TimeoutIsOwn
PROPERTIES
  Answered
  Drained
  FramesLeave
