--------------------------------- MODULE Tuls ---------------------------------
(***************************************************************************)
(* The directory lister of Project 0: the entries of the current directory,*)
(* then, if one directory is named, everything below it, depth first.  A   *)
(* path is the sequence of the names that lead to it from the current      *)
(* directory.  The recursion of listAllFiles is a stack of directories.    *)
(***************************************************************************)
EXTENDS Naturals, Sequences, FiniteSets

CONSTANTS
  Tree,           \* the paths there are, but for the current directory
  Directories,    \* those that are directories
  CommandLines,   \* what tuls may be invoked with
  Meanings,       \* per word, the paths that may come out of it
  Locked,         \* sets of directories that may be those nobody can open
  MaxDirs,        \* how many directories tuls may have open
  TooLong         \* the paths that do not fit into the 1000 bytes for one

Here == <<>>
Nowhere == <<"nowhere">>

\* What the proofs take of the constants: what leads to a path are directories.
ConstantsOK ==
  /\ Tree \subseteq Seq(STRING) \ {Here}
  /\ Directories \subseteq Tree
  /\ \A e \in Tree : \A n \in 1 .. Len(e) - 1 : SubSeq(e, 1, n) \in Directories
  /\ MaxDirs \in Nat \ {0}

VARIABLES
  pc,          \* the next step of tuls
  args,        \* its arguments, without its name
  locked,      \* the directories that cannot be opened
  turn,        \* which listing it is at: 1 for the current directory, 2 for the argument
  top,         \* the directory it lists
  stack,       \* the directories it is in, innermost first, with what is left to read
  output       \* the lines printed

vars == <<pc, args, locked, turn, top, stack, output>>

Init ==
  /\ pc = "idle"
  /\ args = <<>>
  /\ locked = {}
  /\ turn = 1
  /\ top = Here
  /\ stack = <<>>
  /\ output = <<>>

\* Somebody types a command line.
Invoke ==
  /\ pc = "idle"
  /\ args' \in CommandLines
  /\ locked' \in Locked
  /\ pc' = "here"
  /\ UNCHANGED <<turn, top, stack, output>>

-----------------------------------------------------------------------------
EntriesOf(path) ==
  {e \in Tree : Len(e) = Len(path) + 1 /\ SubSeq(e, 1, Len(path)) = path}

\* Every entry has a line, indented by how deep the recursion is.
Line(path) == [turn |-> turn, path |-> path, depth |-> Len(stack) - 1]

\* opendir, while the directories of rest stay open; exit if it fails.
Opens(path, rest) ==
  IF path \in (Directories \cup {Here}) \ locked /\ Len(rest) < MaxDirs
  THEN pc' = "list" /\ stack' = <<[path |-> path, left |-> EntriesOf(path)]>> \o rest
  ELSE pc' = "failed" /\ stack' = rest

ListHere ==
  /\ pc = "here"
  /\ Opens(Here, <<>>)
  /\ UNCHANGED <<args, locked, turn, top, output>>

\* A slash at the end is cut off, into memory without an end of string: what
\* comes out is the directory, or its name with something behind it.
ListArgument ==
  /\ pc = "argument"
  /\ turn' = 2
  /\ \E path \in Meanings[args[1]] : top' = path /\ Opens(path, <<>>)
  /\ UNCHANGED <<args, locked, output>>

\* readdir and the line.  The recursion goes into directories, unless it is the
\* current directory that is listed.
ReadEntry ==
  /\ pc = "list"
  /\ \E e \in stack[1].left :
       LET rest == [stack EXCEPT ![1].left = @ \ {e}] IN
       /\ output' = Append(output, Line(e))
       /\ IF e \in Directories /\ top # Here THEN Opens(e, rest)
          ELSE stack' = rest /\ UNCHANGED pc
  /\ UNCHANGED <<args, locked, turn, top>>

\* A path has been made that does not fit: from then on anything may happen.
PathOverflows ==
  /\ pc = "list"
  /\ top # Here
  /\ \E k \in DOMAIN output : output[k].turn = turn /\ output[k].path \in Directories \cap TooLong
  /\ pc' = "crashed"
  /\ UNCHANGED <<args, locked, turn, top, stack, output>>

\* closedir and the return, in the end to main: with one argument its turn
\* comes; more than one are ignored.
EndOfDirectory ==
  /\ pc = "list"
  /\ stack[1].left = {}
  /\ stack' = Tail(stack)
  /\ pc' = IF stack' # <<>> THEN "list"
           ELSE IF turn = 1 /\ Len(args) = 1 THEN "argument" ELSE "done"
  /\ UNCHANGED <<args, locked, turn, top, output>>

Next == Invoke \/ ListHere \/ ListArgument \/ ReadEntry \/ PathOverflows \/ EndOfDirectory

-----------------------------------------------------------------------------
PathsOf(t) == {output[k].path : k \in {j \in DOMAIN output : output[j].turn = t}}

Below(path) ==
  {e \in Tree : Len(e) > Len(path) /\ SubSeq(e, 1, Len(path)) = path}

\* The directory a line stands under: the one of the last line before it that
\* is indented less.
Under(k) ==
  LET less == {j \in 1 .. k - 1 : output[j].turn = output[k].turn
                                 /\ output[j].depth = output[k].depth - 1}
  IN  IF output[k].depth = 0 THEN (IF output[k].turn = 1 THEN Here ELSE top)
      ELSE output[CHOOSE j \in less : \A l \in less : l <= j].path

\* "lists information about the FILES in a directory": a listing that comes to
\* its end has every entry once, the recursion having come back to each open
\* directory where it left it (lines 35-66), and each line stands under the
\* directory it is in.  It comes to its end unless some directory cannot be
\* opened (line 72), which with all directories readable needs one so deep that
\* those above it are as many as may be open at a time (each is closed after the
\* recursion, line 65), or some directory's path is too long (line 58).
ListsEveryFile ==
  /\ pc \in {"argument", "done"} => PathsOf(1) = EntriesOf(Here)
  /\ pc = "done" /\ turn = 2 => PathsOf(2) = IF top = Here THEN EntriesOf(Here) ELSE Below(top)
  /\ \A k, l \in DOMAIN output :
       k # l /\ output[k].turn = output[l].turn => output[k].path # output[l].path
  /\ \A k \in DOMAIN output :
       LET path == output[k].path IN Under(k) = SubSeq(path, 1, Len(path) - 1)
  /\ pc = "failed" => \/ locked # {} \/ (turn = 2 /\ top \notin Directories \cup {Here})
                      \/ \E e \in Directories : Len(e) >= Len(top) + MaxDirs
  /\ pc = "crashed" => turn = 2 /\ PathsOf(2) \cap Directories \cap TooLong # {}
=============================================================================
