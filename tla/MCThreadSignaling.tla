-------------------------- MODULE MCThreadSignaling --------------------------
(* Instances of ThreadSignaling for TLC: the constants are small numbers. *)
EXTENDS ThreadSignaling
=============================================================================
