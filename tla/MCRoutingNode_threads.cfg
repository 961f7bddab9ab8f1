SPECIFICATION FairSpec
CONSTANTS
  l = l
  x = x
  y = y
  MIPAddress <- Addresses
  Local <- OwnAddress
  HeardAdverts <- HeardAdvertsOfTwo
  INF_COST = 3
  MaxEvents = 3
  MaxLookups = 2
CHECK_DEADLOCK FALSE
INVARIANTS
  TypeOK
  LocalRoutes
  NeighboursTold
PROPERTIES
  RaisedByVia
  Advertises
  Answers
  Terminates
