------------------------- MODULE MCTransportEvents -------------------------
(***************************************************************************)
(* An instance of TransportEvents for TLC: two applications that connect   *)
(* and descriptors for one of them at a time.                              *)
(***************************************************************************)
EXTENDS TransportEvents, TLC

CONSTANTS c1, c2

Connect == [kind |-> "client", address |-> 2, port |-> 1]

AskTwo == c1 :> Connect @@ c2 :> Connect

FromPeer(type, dest) ==
  [from |-> 2, frame |-> [type |-> type, dest |-> dest, source |-> 1, seq |-> 0, msg |-> <<>>]]

\* An answer to the port that is given out, and a probe of the connection.
Answers == {FromPeer("reply", 1), FromPeer("request", 1)}
=============================================================================
