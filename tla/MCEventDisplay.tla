-------------------------- MODULE MCEventDisplay ---------------------------
(* Model-checking instance of EventDisplay. *)
EXTENDS EventDisplay
=============================================================================
