------------------------ MODULE MCRegularExecutions ------------------------
(* Instances of RegularExecutions for TLC. *)
EXTENDS RegularExecutions
=============================================================================
