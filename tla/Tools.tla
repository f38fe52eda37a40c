-------------------------------- MODULE Tools --------------------------------
(***************************************************************************)
(* The shell's parser, the process status tool, the file copier and the    *)
(* directory lister: four programs that have nothing to do with one        *)
(* another.  The first step picks one; the others stay as they are.        *)
(***************************************************************************)
EXTENDS ShellParser

CONSTANTS
  Tokens, MaxTokens,          \* for the parser: what lines are made of, and how long
  Pids, OneDigit, NumberOf, LongWords, StatusLines, Kinds, Populations, MaxEvents, MaxOpen, MaxArgs,
                              \* as in Tups
  CopyDirectories, Names, FileOf, PathFrom, DirectoryOf, LengthOf, SlashesOf, ShortOf, CopyLines, Disks,
  MaxInvocations,             \* as in Tucp
  Tree, TreeDirectories, ListLines, Meanings, Locked, MaxDirs, TooLong
                              \* as in Tuls

VARIABLES
  tool,        \* the program that runs
  line,        \* the line typed, if it is the shell
  pc, args,    \* of the program that runs
  procs, mode, optind, flags, number, shown, position, opened, printed, events, steady, lost,
  files, i, dest, source, target, invocations, before,
  locked, turn, top, stack, output

tupsVars == <<procs, mode, optind, flags, number, shown, position, opened, printed, events, steady, lost>>
tucpVars == <<files, i, dest, source, target, invocations, before>>
tulsVars == <<locked, turn, top, stack, output>>
vars == <<tool, line, pc, args, tupsVars, tucpVars, tulsVars>>

tups == INSTANCE Tups WITH CommandLines <- StatusLines
tucp == INSTANCE Tucp WITH Directories <- CopyDirectories, CommandLines <- CopyLines
tuls == INSTANCE Tuls WITH Directories <- TreeDirectories, CommandLines <- ListLines

\* strtok finds no empty token.
ASSUME ParserConstants == NoName \notin Tokens
ASSUME TupsConstants == tups!ConstantsOK
ASSUME TucpConstants == tucp!ConstantsOK
ASSUME TulsConstants == tuls!ConstantsOK

Init ==
  /\ tool = "none"
  /\ line = <<>>
  /\ tups!Init
  /\ tucp!Init
  /\ tuls!Init

Pick ==
  /\ tool = "none"
  /\ tool' \in {"shell", "tups", "tucp", "tuls"}
  /\ UNCHANGED <<line, pc, args, tupsVars, tucpVars, tulsVars>>

Type ==
  /\ tool = "shell" /\ Len(line) < MaxTokens
  /\ \E token \in Tokens : line' = Append(line, token)
  /\ UNCHANGED <<tool, pc, args, tupsVars, tucpVars, tulsVars>>

Next ==
  \/ Pick
  \/ Type
  \/ tool = "tups" /\ tups!Next /\ UNCHANGED <<tool, line, tucpVars, tulsVars>>
  \/ tool = "tucp" /\ tucp!Next /\ UNCHANGED <<tool, line, tupsVars, tulsVars>>
  \/ tool = "tuls" /\ tuls!Next /\ UNCHANGED <<tool, line, tupsVars, tucpVars>>

Spec == Init /\ [][Next]_vars

-----------------------------------------------------------------------------
\* The shell takes every line apart as its form says (process, lines 209-328).
LinesParse == ParsesAsWritten(line)

\* A listing that comes to its end is complete: tups lists every process of the
\* user (findAllPID), tuls every file (listAllFiles).
ListingsAreComplete ==
  /\ tool = "tups" => tups!ListsEveryProcess
  /\ tool = "tuls" => tuls!ListsEveryFile

\* The process status tool crashes for one of six reasons only.
CrashesHaveReasons == tool = "tups" => tups!CrashesHaveReasons

\* The copier leaves other files alone and makes whole copies (copyFile).
CopiesAreComplete == tool = "tucp" => tucp!CopiesAreComplete
=============================================================================
