--------------------------- MODULE ReliableStream ---------------------------
(***************************************************************************)
(* What one connection promises, without windows, sequence numbers, frames *)
(* or timers: a stream that is taken over by the far end in the order it   *)
(* was written, of which the sender forgets no more than was taken over    *)
(* and the reader gets no more than was taken over.  Chunk k of the stream *)
(* is the number k.  The stream may stop anywhere: a connection that is    *)
(* given up takes no further step.                                         *)
(***************************************************************************)
EXTENDS Naturals

VARIABLES
  written,    \* chunks the sending application wrote
  accepted,   \* sequence of the chunks the far end took over
  forgotten,  \* chunks the sender no longer keeps
  delivered   \* how many of accepted the reading application was given

vars == <<written, accepted, forgotten, delivered>>

Prefix(n) == [i \in 1..n |-> i]

Init == written = 0 /\ accepted = <<>> /\ forgotten = 0 /\ delivered = 0

Write ==
  /\ written' = written + 1
  /\ UNCHANGED <<accepted, forgotten, delivered>>

\* The far end takes the next chunk.
Accept ==
  \E n \in 1..written :
    /\ accepted = Prefix(n - 1) /\ accepted' = Prefix(n)
    /\ UNCHANGED <<written, forgotten, delivered>>

Forget ==
  \E n \in 1..written :
    /\ accepted = Prefix(n)
    /\ forgotten' \in (forgotten + 1)..n
    /\ UNCHANGED <<written, accepted, delivered>>

Deliver ==
  \E n \in 1..written :
    /\ accepted = Prefix(n)
    /\ delivered' \in (delivered + 1)..n
    /\ UNCHANGED <<written, accepted, forgotten>>

Next == Write \/ Accept \/ Forget \/ Deliver

Spec == Init /\ [][Next]_vars
=============================================================================
