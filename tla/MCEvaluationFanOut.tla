------------------------- MODULE MCEvaluationFanOut -------------------------
(***************************************************************************)
(* Instances of EvaluationFanOut for TLC.                                  *)
(***************************************************************************)
EXTENDS EvaluationFanOut
=============================================================================
