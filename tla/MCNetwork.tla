----------------------------- MODULE MCNetwork -----------------------------
(* Two, three nodes in a line, and three in a ring. *)
EXTENDS Network

CONSTANTS A, B, C, a1, a2, b1, b2, c1, c2

Pair      == {A, B}
PairEnds  == {a1, b1}
PairLinks == {{a1, b1}}
PairNode  == [x \in PairEnds |-> CASE x = a1 -> A [] x = b1 -> B]

Three     == {A, B, C}
LineEnds  == {a1, b1, b2, c1}
LineLinks == {{a1, b1}, {b2, c1}}
LineNode  == [x \in LineEnds |-> CASE x = a1 -> A [] x \in {b1, b2} -> B [] x = c1 -> C]

RingEnds  == LineEnds \cup {a2, c2}
RingLinks == LineLinks \cup {{c2, a2}}
RingNode  == [x \in RingEnds |->
                CASE x \in {a1, a2} -> A [] x \in {b1, b2} -> B [] x \in {c1, c2} -> C]

NoSends == {}

\* A sends to C through B and to itself, while B, which forwards, sends to A.
Exchange == {[node |-> A, dest |-> c1, msg |-> <<1>>], [node |-> A, dest |-> a1, msg |-> <<2>>],
             [node |-> B, dest |-> a1, msg |-> <<3>>]}

LineBreak == {{b2, c1}}
RingBreak == {{c2, a2}}
=============================================================================
