------------------------------- MODULE MCTools -------------------------------
(***************************************************************************)
(* The tools for TLC.                                                      *)
(***************************************************************************)
EXTENDS Tools

\* Four processes, of which the first has a one-digit number, and a user with a
\* program with a space in its name, one with many arguments, one with a long
\* argument and in many groups, and one that runs with the rights of another.
Mine == [ids |-> <<1000, 1000, 1000, 1000>>, words |-> 1, args |-> 1, long |-> {}]
Spaced == [Mine EXCEPT !.words = 2]
Many == [Mine EXCEPT !.args = 3]
Long == [Mine EXCEPT !.long = {"cmdline", "status"}]
Theirs == [Mine EXCEPT !.ids = <<1000, 0, 0, 0>>]

MCPids == 1 .. 4
MCOneDigit == {1}
MCNumberOf == [w \in {"12", "13"} |-> IF w = "12" THEN 2 ELSE 3]
MCStatusLines ==
  { <<>>, <<"-v">>, <<"-s", "-U", "-S", "-c">>, <<"-sp", "12">>, <<"-p">>,
    <<"-p", "12", "-s">>, <<"-p", "12", "-c", "-v">>, <<"-p", "13", "-p", "12">>,
    <<"-p", "-p">>, <<"-p", "long">>, <<"--", "-p", "12">>, <<"-v", "--", "-p", "12">> }
MCKinds == {Mine, Theirs}
MCPopulations == {<<Mine, Mine, Theirs, Mine>>, <<Mine, Mine, Spaced, Many>>, <<Mine, Mine, Long, Mine>>}
MCMaxArgs == [m \in {"one", "all"} |-> IF m = "one" THEN 4 ELSE 3]

\* Files x and yy here and in the directories a and a/b, some of them there; and
\* in these a name for a copy of the directory a.
MCCopyDirectories == {"a", "a/b"}
MCNames == {"x", "yy", "a"}
At(dir, name) == [dir |-> dir, name |-> name]
MCFileOf ==
  [w \in {"x", "yy", "a/x"} |->
     CASE w = "x" -> At(".", "x") [] w = "yy" -> At(".", "yy") [] OTHER -> At("a", "x")]
MCPathFrom ==
  [at \in {<<".", w>> : w \in DOMAIN MCFileOf} \cup (MCCopyDirectories \X MCNames) |->
     IF at[1] = "." THEN MCFileOf[at[2]] ELSE At(at[1], at[2])]
MCDirectoryOf ==
  [w \in {".", "a", "a/", "a/b"} |->
     CASE w = "." -> "." [] w = "a/b" -> "a/b" [] OTHER -> "a"]
CopyWords == DOMAIN MCFileOf \cup DOMAIN MCDirectoryOf
MCLengthOf ==
  [w \in CopyWords |-> CASE w \in {"x", ".", "a"} -> 1 [] w \in {"yy", "a/"} -> 2 [] OTHER -> 3]
MCSlashesOf == [w \in CopyWords |-> IF w \in {"a/x", "a/", "a/b"} THEN {2} ELSE {}]
MCShortOf == [w \in DOMAIN MCDirectoryOf |-> IF w \in {"a/", "a/b"} THEN "a" ELSE "nowhere"]
MCCopyLines ==
  { <<"x">>, <<"x", "yy">>, <<"x", "x">>, <<"yy", "a">>, <<"x", "a/">>, <<"a/x", "x">>, <<"a/x", "a/b">>,
    <<"a", "x">>, <<"x", "yy", "x">>, <<"x", "x", "a">>, <<"x", "yy", "a/b">>, <<"yy", "x", "a/b">>,
    <<"x", "a/x", ".">>, <<"a", "x", "a/">>, <<"x", "yy", "a/">> }
Disk(content) ==
  [f \in [dir : MCCopyDirectories \cup {"."}, name : MCNames] |->
     IF f \in DOMAIN content THEN content[f] ELSE <<"none">>]
MCDisks ==
  { Disk([f \in {At(".", "x")} |-> <<"one", "EOF", "two">>]),
    Disk([f \in {At(".", "x"), At(".", "yy"), At("a", "x")} |->
            IF f.name = "yy" THEN <<"three">> ELSE IF f.dir = "a" THEN <<"four", "five">> ELSE <<"one", "two">>]) }

\* A directory a with a file and a directory b in it, and directories c, c/e and
\* c/e/f, of which the last is too deep for one listing and too long for another.
MCTree == { <<"x">>, <<"a">>, <<"a", "x">>, <<"a", "b">>, <<"a", "b", "x">>, <<"a", "b", "y">>,
            <<"c">>, <<"c", "e">>, <<"c", "e", "f">> }
MCTreeDirectories == { <<"a">>, <<"a", "b">>, <<"c">>, <<"c", "e">>, <<"c", "e", "f">> }
MCListLines == { <<>>, <<".">>, <<"a">>, <<"a/">>, <<"a/b">>, <<"c">>, <<"c/e">>, <<"x">>, <<"a", "c">> }
MCMeanings ==
  [w \in {".", "a", "a/", "a/b", "c", "c/e", "x"} |->
     CASE w = "." -> { <<>> } [] w = "a" -> { <<"a">> } [] w = "a/" -> { <<"a">>, <<"nowhere">> }
       [] w = "a/b" -> { <<"a", "b">> } [] w = "c" -> { <<"c">> } [] w = "c/e" -> { <<"c", "e">> }
       [] OTHER -> { <<"x">> }]
MCLocked == { {}, { <<"a", "b">> }, { <<>> } }
MCTooLong == { <<"c", "e", "f">> }
=============================================================================
