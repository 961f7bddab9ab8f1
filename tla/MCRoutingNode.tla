--------------------------- MODULE MCRoutingNode ---------------------------
(* A node with one address, and two others, each a neighbour or farther away. *)
EXTENDS RoutingNode

CONSTANTS l, x, y

Addresses == {l, x, y}
OwnAddress == {l}

\* Neighbours may tell a way to the one and to this node, or that there is none.
HeardAdvertsOfTwo ==
  {[to \in {y, l} |-> IF to = y THEN 0 ELSE 1], [to \in {y} |-> INF_COST]}
=============================================================================
