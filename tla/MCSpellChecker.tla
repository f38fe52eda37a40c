--------------------------- MODULE MCSpellChecker ---------------------------
(* An instance of SpellChecker for TLC. *)
EXTENDS SpellChecker

CONSTANTS w1, w2

\* The first client sends up to two words, the other only its goodbye.
TwoWordsThenNone == [c \in Clients |-> IF c = 1 THEN 2 ELSE 0]

\* Lines with and without carriage returns, in a file shorter than the array of
\* two entries and in one that is longer.
Words == << <<"a", "b", "lf">>, <<"b", "cr", "lf">>, <<"d", "e", "lf">> >>
ShortAndLong == {SubSeq(Words, 1, n) : n \in {1, 3}}
FirstWord == {Words[1]}
=============================================================================
