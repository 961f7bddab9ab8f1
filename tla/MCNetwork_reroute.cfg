SPECIFICATION Spec
CONSTANTS
  A = A
  B = B
  C = C
  a1 = a1
  a2 = a2
  b1 = b1
  b2 = b2
  c1 = c1
  c2 = c2
  Node <- Three
  MIPAddress <- RingEnds
  Links <- RingLinks
  NodeOf <- RingNode
  INF_COST = 4
  TTL = 3
  Down <- RingBreak
  MaxFailures = 1
  MaxRepairs = 0
  Overlap = 0
  Sends <- NoSends
  Pace = "serial"
CHECK_DEADLOCK FALSE
INVARIANTS
  EveryNodeReachable
