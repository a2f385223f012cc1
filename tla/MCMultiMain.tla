---------------------------- MODULE MCMultiMain ----------------------------
(* Instances of MultiMain for TLC. *)
EXTENDS MultiMain
=============================================================================
