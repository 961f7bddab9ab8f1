SPECIFICATION FairSpec
CONSTANTS
  A = A
  B = B
  C = C
  a1 = a1
  a2 = a2
  b1 = b1
  b2 = b2
  c1 = c1
  c2 = c2
  Node <- Three
  MIPAddress <- LineEnds
  Links <- LineLinks
  NodeOf <- LineNode
  INF_COST = 4
  TTL = 3
  Down <- LineBreak
  MaxFailures = 1
  MaxRepairs = 1
  Overlap = 2
  Sends <- Exchange
  Pace = "packets"
CHECK_DEADLOCK FALSE
INVARIANTS
  TypeOK
  ShortestPaths
  WaysShort
  LookupsPaired
  DeliveredRightly
  NeighboursAgree
  WaysExist
PROPERTIES
  ComesToRest
