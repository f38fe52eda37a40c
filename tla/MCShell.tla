------------------------------- MODULE MCShell -------------------------------
(* Instances of Shell for TLC: lines that meet one another in every way. *)
EXTENDS Shell

Background == <<"prog", "&">>
Foreground == <<"prog">>
Unknown == <<"nosuch">>
Piped == <<"producer", "|", "filter">>
PipedOneReads == <<"producer", "|", "prog">>
LeftFails == <<"cd", "a", "b", "|", "filter">>
RightFails == <<"producer", "|", "cd", "a", "b">>
TwoBuiltins == <<"echo", "a", "|", "dir">>
BothFiles == <<"prog", "<", "in", ">", "out">>
FromFile == <<"pause", "<", "in">>
ToFile == <<"echo", "a", ">>", "out">>

MCScripts ==
  { <<Background, Foreground, <<"cd">>, Foreground>>,
    <<Background, Piped, <<"dir", "d">> >>,
    <<PipedOneReads, BothFiles, <<"echo", "a", "&">> >>,
    <<PipedOneReads, BothFiles, Piped>>,
    <<LeftFails, Foreground, <<"quit">> >>,
    <<RightFails, <<"pause">> >>,
    <<TwoBuiltins, <<"prog", "|">>, <<"prog", "|", "quit">> >>,
    <<Unknown, <<"pause">>, FromFile>>,
    <<ToFile, <<"prog", "extra", "<">>, <<"pause", "|", "prog">>, <<"clr">> >> }
=============================================================================
