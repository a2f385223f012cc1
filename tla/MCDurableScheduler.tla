------------------------- MODULE MCDurableScheduler -------------------------
(***************************************************************************)
(* Instances of DurableScheduler for TLC.                                  *)
(***************************************************************************)
EXTENDS DurableScheduler, TLC

CONSTANTS h1, h2

Mains == {h1, h2}

\* Hosts are interchangeable: no action or property names one.
Symmetry == Permutations(Mains)
=============================================================================
