SPECIFICATION Spec
CONSTANTS
  WindowSize = 2
  SequenceSize = 3
  PortLimit = 8
  SockCapacity = 1
  MaxChunks = 3
  MaxChannel = 3
  Lossy = TRUE
  MaxLosses = 0
  Pace = "any"
  UpperHalf <- Garbage
  MayClose = {}
CHECK_DEADLOCK FALSE
INVARIANTS
  TypeOK
  StreamIntact
  AckNeverAhead
  StreamNumbers
PROPERTIES
  AnsweredOnce
  ImplementsStream
