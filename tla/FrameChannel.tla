---------------------------- MODULE FrameChannel ----------------------------
(***************************************************************************)
(* What frames and their buffers promise: channels that hand over what was *)
(* put into them, unchanged and in order.  Nothing is lost here; losses    *)
(* are the matter of Connection and Network.                               *)
(***************************************************************************)
EXTENDS Sequences

CONSTANTS
  Channel,
  Content     \* Content[c]: what may be put into channel c

VARIABLES
  queue,      \* what is under way in each channel
  arrived     \* what was handed over last, and where from

Init ==
  /\ queue = [c \in Channel |-> <<>>]
  /\ arrived = <<>>

Put(c) ==
  \E v \in Content[c] : queue' = [queue EXCEPT ![c] = Append(@, v)]

HandOver(c) ==
  /\ queue[c] # <<>>
  /\ arrived' = <<c, Head(queue[c])>>
  /\ queue' = [queue EXCEPT ![c] = Tail(@)]

Next == \E c \in Channel : (Put(c) /\ UNCHANGED arrived) \/ HandOver(c)

Spec == Init /\ [][Next]_<<queue, arrived>>
=============================================================================
