----------------------------- MODULE MCWorkflow -----------------------------
(* A sensor, a protected device next to it, and an attacker beyond. *)
EXTENDS Workflow

Line == {<<1, 2>>, <<2, 3>>}

(* All three send in the first window, only the sensor in the second. *)
Fading == <<{1, 2, 3}, {1}>>
=============================================================================
