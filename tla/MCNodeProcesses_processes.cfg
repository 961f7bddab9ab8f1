SPECIFICATION FairSpec
CONSTANTS
  SockItems = 1
  Answers = {2}
  MaxQueue = 1
  MaySignal = {"transport", "MIP", "routing"}
CHECK_DEADLOCK FALSE
INVARIANTS
  TypeOK
  NeverBothWait
PROPERTIES
  NodeGoesDown
  EndsTogether
