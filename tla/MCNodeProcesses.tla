-------------------------- MODULE MCNodeProcesses --------------------------
(***************************************************************************)
(* An instance of NodeProcesses for TLC.                                   *)
(***************************************************************************)
EXTENDS NodeProcesses
=============================================================================
