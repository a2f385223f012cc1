--------------------------- MODULE MCTaskBroker ---------------------------
(* Instances of TaskBroker. *)
EXTENDS TaskBroker, TLC

Symmetry == Permutations(Requests) \cup Permutations(Processes) \cup Permutations(Ids)
===========================================================================
