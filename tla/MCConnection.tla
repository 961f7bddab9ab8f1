---------------------------- MODULE MCConnection ----------------------------
(***************************************************************************)
(* Instances of Connection for TLC.                                        *)
(***************************************************************************)
EXTENDS ConnectionInvariant

\* The upper half of a sequence number: clean, and garbage of either sign.
Garbage == {0, 1, -1}
=============================================================================
