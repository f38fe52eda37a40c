---------------------------- MODULE MCEchoServer ----------------------------
(* Instances of EchoServer for TLC. *)
EXTENDS EchoServer, TLC

CONSTANTS w1, w2

\* How many lines the clients send before the terminating character.
NoLines == [c \in Clients |-> 0]
OneLine == [c \in Clients |-> 1]
FirstSendsOne == [c \in Clients |-> IF c = 1 THEN 1 ELSE 0]

Symmetry == Permutations(Workers)
=============================================================================
