SPECIFICATION Spec
CONSTANTS
  FRAME_MAX_SIZE = 38
  LastNode = 3
  AddressOf <- Ends
  Slots = {1}
  Origins = {1, 3}
  Chunks <- ShortAndLong
  SequenceNumbers = {43605}
  SourcePorts = {10923}
  DestPorts = {5461}
  Tables <- OddAndEven
  Junk <- OldMemory
  MaxFrames = 2
CHECK_DEADLOCK FALSE
INVARIANTS
  TypeOK
  HopsCounted
PROPERTIES
  ImplementsChannel
