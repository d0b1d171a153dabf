----------------------------- MODULE MCOrderFlow -----------------------------
(***************************************************************************)
(* Instances of OrderFlow for TLC.                                         *)
(***************************************************************************)
EXTENDS OrderFlow
=============================================================================
