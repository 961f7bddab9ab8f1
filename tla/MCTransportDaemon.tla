------------------------- MODULE MCTransportDaemon -------------------------
(***************************************************************************)
(* Instances of TransportDaemon for TLC: node 1 connects, node 2 listens.  *)
(***************************************************************************)
EXTENDS TransportDaemon, TLC

CONSTANTS c1, c2, s1, s2

Connect(node, port) == [kind |-> "client", address |-> node, port |-> port]
Listen(port) == [kind |-> "server", address |-> 0, port |-> port]

\* Two applications of node 1, one after the other or side by side, connect to
\* one listening application, or to one and the one that takes its place.
NodeOfPair == c1 :> 1 @@ c2 :> 1 @@ s1 :> 2
AskPair == c1 :> Connect(2, 1) @@ c2 :> Connect(2, 1) @@ s1 :> Listen(1)

NodeOfHeir == NodeOfPair @@ s2 :> 2
AskHeir == AskPair @@ s2 :> Listen(1)
=============================================================================
