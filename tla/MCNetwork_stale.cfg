SPECIFICATION Spec
CONSTANTS
  A = A
  B = B
  C = C
  a1 = a1
  a2 = a2
  b1 = b1
  b2 = b2
  c1 = c1
  c2 = c2
  Node <- Pair
  MIPAddress <- PairEnds
  Links <- PairLinks
  NodeOf <- PairNode
  INF_COST = 3
  TTL = 3
  Down <- PairLinks
  MaxFailures = 1
  MaxRepairs = 0
  Overlap = 0
  Sends <- NoSends
  Pace = "prompt"
CHECK_DEADLOCK FALSE
INVARIANTS
  OfflineDetected
