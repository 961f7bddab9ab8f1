---------------------------- MODULE MCFramePath ----------------------------
(* Three nodes; addresses, ports and numbers that use every bit of a field. *)
EXTENDS FramePath

B == INSTANCE ByteVector
Fill(byte, size) == [i \in 1..size |-> B!ByteOf(byte)]

Ends == [e \in {<<1, 2>>, <<2, 1>>, <<2, 3>>, <<3, 2>>} |->
           CASE e = <<1, 2>> -> 85 [] e = <<2, 1>> -> 170
             [] e = <<2, 3>> -> 129 [] e = <<3, 2>> -> 254]

\* With the acknowledgements, which have no message, every padding there is.
ShortAndLong == {Fill(255, 1), Fill(36, 3), Fill(90, 14)}
OldMemory    == {Fill(195, 18)}
OddAndEven   == {<<[to |-> 85, cost |-> 255]>>,
                 <<[to |-> 254, cost |-> 1], [to |-> 170, cost |-> 255]>>}
=============================================================================
