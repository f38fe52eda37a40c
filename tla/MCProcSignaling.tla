--------------------------- MODULE MCProcSignaling ---------------------------
(* Instances of ProcSignaling for TLC: the constants are small numbers. *)
EXTENDS ProcSignaling
=============================================================================
