--------------------------- MODULE MCMaterializer ---------------------------
EXTENDS Materializer
(* A burst of three fires a day, the next one beyond the horizon of a run, and
   a one-off; an instant is a minute. *)
MCFires ==
    [s \in Schedules |-> IF s = "once" THEN {2} ELSE {1, 2, 3, Never - 1}]
=============================================================================
