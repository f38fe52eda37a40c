--------------------------------- MODULE Tups ---------------------------------
(***************************************************************************)
(* The process status tool of Project 1, a small ps that reads /proc while *)
(* processes come and go.  With -p it checks one process and prints it;    *)
(* without, it goes through the directory and prints the processes of user *)
(* 1000.  Every file is opened by name, later than the check that the      *)
(* process exists, and never closed.                                       *)
(*                                                                         *)
(* A process keeps what it is while it lives, and /proc is there.          *)
(***************************************************************************)
EXTENDS Naturals, Sequences, FiniteSets

CONSTANTS
  Pids,          \* the process numbers there may be
  OneDigit,      \* those written with a single digit
  NumberOf,      \* the words that are process numbers, with the number
  LongWords,     \* words that do not fit the path made of them (1000 bytes)
  CommandLines,  \* what the tool may be invoked with
  Kinds,         \* what a process may be: its four user ids, words in its name,
                 \* arguments, and the files too long for what they are read to
  Populations,   \* which processes there may be at the start
  MaxEvents,     \* how many processes start or end meanwhile (a bound)
  MaxOpen,       \* files the tool may have open, beside its terminal and /proc
  MaxArgs        \* per mode, arguments getCommandLine has room for

Gone == [ids |-> <<>>, words |-> 0, args |-> 0, long |-> {}]

\* The line isUserId looks for, and whether a process has it: real, effective,
\* saved and file system id are all 1000.
Uid == <<1000, 1000, 1000, 1000>>
IsUsers(process) == process.ids = Uid

NoNumber == 0

\* What /proc may show of a process number.
Present == Kinds \cup {Gone} \cup {population[p] : population \in Populations, p \in Pids}

\* What the proofs take of the constants: process numbers are positive, and the
\* name of a process has a first word.
ConstantsOK ==
  /\ Pids \subseteq Nat \ {NoNumber}
  /\ \A w \in DOMAIN NumberOf : NumberOf[w] \in Pids
  /\ LongWords \cap DOMAIN NumberOf = {}
  /\ CommandLines \subseteq Seq(STRING)
  /\ Populations \subseteq [Pids -> Present]
  /\ \A kind \in Present \ {Gone} : kind.words \in Nat \ {0}
  /\ MaxOpen \in Nat

VARIABLES
  pc,        \* the next call of the tool
  args,      \* its arguments, without its name
  procs,     \* /proc: per number the process, or Gone
  mode,      \* whether main calls parser ("one") or allParser ("all")
  optind,    \* the next argument
  flags,     \* the options seen
  number,    \* the process it works on
  shown,     \* what parseStat has stored, as the kinds of the fields
  position,  \* how far readdir has come
  opened,    \* files open
  printed,   \* the lines printed
  events,    \* processes that started or ended so far
  steady,    \* history: the processes alive all the time
  lost       \* history: whether a process has ended that the tool had found

histories == <<steady, lost>>
vars == <<pc, args, procs, mode, optind, flags, number, shown, position, opened, printed, events,
          histories>>

Init ==
  /\ pc = "idle"
  /\ args = <<>>
  /\ procs = [p \in Pids |-> Gone]
  /\ mode = "none"
  /\ optind = 1
  /\ flags = {}
  /\ number = NoNumber
  /\ shown = <<>>
  /\ position = 0
  /\ opened = 0
  /\ printed = <<>>
  /\ events = 0
  /\ steady = {}
  /\ lost = FALSE

Alive(p) == procs[p] # Gone

\* Somebody types a command line, on a system with some processes.
Invoke ==
  /\ pc = "idle"
  /\ args' \in CommandLines
  /\ procs' \in Populations
  /\ steady' = {p \in Pids : procs'[p] # Gone}
  /\ pc' = "main"
  /\ UNCHANGED <<mode, optind, flags, number, shown, position, opened, printed, events, lost>>

Running == pc \notin {"idle", "done", "failed", "crashed"}

Ends(p) ==
  /\ Running /\ events < MaxEvents
  /\ Alive(p)
  /\ procs' = [procs EXCEPT ![p] = Gone]
  /\ steady' = steady \ {p}
  /\ lost' = (lost \/ p = number)
  /\ events' = events + 1
  /\ UNCHANGED <<pc, args, mode, optind, flags, number, shown, position, opened, printed>>

\* A number may come back as another process.
Starts(p) ==
  /\ Running /\ events < MaxEvents
  /\ ~Alive(p)
  /\ \E kind \in Kinds : procs' = [procs EXCEPT ![p] = kind]
  /\ events' = events + 1
  /\ UNCHANGED <<pc, args, mode, optind, flags, number, shown, position, opened, printed, histories>>

-----------------------------------------------------------------------------
\* What may be done with number's files: nothing if it is gone, or if the
\* files nobody closes are as many as there may be.
CanOpen == number # NoNumber /\ Alive(number) /\ opened < MaxOpen

\* A file is opened and read; with a null FILE the first read ends the tool.
ReadFile(next) ==
  IF CanOpen THEN pc' = next /\ opened' = opened + 1
  ELSE pc' = "crashed" /\ UNCHANGED opened

\* Mutant of Main: the last argument counts too.
MainToTheEnd ==
  /\ pc = "main"
  /\ mode' = IF \E i \in 1 .. Len(args) : args[i] = "-p" THEN "one" ELSE "all"
  /\ pc' = "options"
  /\ UNCHANGED <<args, procs, optind, flags, number, shown, position, opened, printed, events, histories>>

\* main looks for a -p that is not the last argument.
Main ==
  /\ pc = "main"
  /\ mode' = IF \E i \in 1 .. Len(args) - 1 : args[i] = "-p" THEN "one" ELSE "all"
  /\ pc' = "options"
  /\ UNCHANGED <<args, procs, optind, flags, number, shown, position, opened, printed, events, histories>>

Letters(word) ==
  CASE word = "-s" -> {"s"} [] word = "-U" -> {"U"} [] word = "-S" -> {"S"} [] word = "-v" -> {"v"}
    [] word = "-c" -> {"c"} [] word = "-p" -> {"p"} [] word = "-sp" -> {"s", "p"} [] OTHER -> {}

\* The value of a word: a number that is no process fails as one that has ended.
ValueOf(word) ==
  IF word \in DOMAIN NumberOf THEN NumberOf[word] ELSE NoNumber

OptionsLeft == optind <= Len(args) /\ args[optind] # "--"

\* One word of getopt's (which passes over words that are no options): a flag,
\* or in the single mode the process, which is checked at once.  A -p without a
\* value, and any in the other mode, is only complained about.
Option ==
  /\ pc = "options"
  /\ OptionsLeft
  /\ flags' = flags \cup (Letters(args[optind]) \ {"p"})
  /\ IF mode = "one" /\ "p" \in Letters(args[optind]) /\ optind < Len(args)
     THEN /\ number' = ValueOf(args[optind + 1])
          /\ optind' = optind + 2
          /\ pc' = "valid"
     ELSE optind' = optind + 1 /\ UNCHANGED <<pc, number>>
  /\ UNCHANGED <<args, procs, mode, shown, position, opened, printed, events, histories>>

OptionsEnd ==
  /\ pc = "options"
  /\ ~OptionsLeft
  /\ pc' = IF mode = "one" THEN "print" ELSE "dir"
  /\ UNCHANGED <<args, procs, mode, optind, flags, number, shown, position, opened, printed, events,
                 histories>>

\* validPID: access() to the process's stat file, exit if there is none.
ValidPID(next) ==
  /\ IF number # NoNumber /\ Alive(number) THEN pc' = next /\ lost' = FALSE
     ELSE pc' = "failed" /\ UNCHANGED lost
  /\ UNCHANGED <<args, procs, mode, optind, flags, number, shown, position, opened, printed, events,
                 steady>>

CheckArgument == pc = "valid" /\ ValidPID("stat")

\* The path is made before the check; a word that does not fit is written past
\* its end, and anything may happen.
PathOverflows ==
  /\ pc = "valid"
  /\ args[optind - 1] \in LongWords
  /\ pc' = "crashed"
  /\ UNCHANGED <<args, procs, mode, optind, flags, number, shown, position, opened, printed, events,
                 histories>>

\* The stat file is cut at spaces; the name of the process may have some.
StatLine(kind) ==
  <<"pid">> \o [i \in 1 .. kind.words |-> "comm"] \o <<"state">> \o [i \in 1 .. 10 |-> "other"]
    \o <<"utime", "stime">>

ParseStat ==
  /\ pc = "stat"
  /\ ReadFile(IF mode = "one" THEN "options" ELSE "print")
  /\ shown' = IF CanOpen
              THEN LET line == StatLine(procs[number]) IN <<line[1], line[3], line[14], line[15]>>
              ELSE shown
  /\ UNCHANGED <<args, procs, mode, optind, flags, number, position, printed, events, histories>>

AfterVMem == IF "c" \in flags THEN "line" ELSE "cmdline"

\* The fields of stat are printed.
PrintStat ==
  /\ pc = "print"
  /\ pc' = IF "v" \in flags THEN (IF mode = "one" THEN "validVMem" ELSE "validAgain") ELSE AfterVMem
  /\ UNCHANGED <<args, procs, mode, optind, flags, number, shown, position, opened, printed, events,
                 histories>>

\* With no process given, the path is made of a null pointer.
CheckVMem ==
  /\ pc = "validVMem"
  /\ IF number = NoNumber
     THEN /\ pc' = "crashed"
          /\ UNCHANGED <<args, procs, mode, optind, flags, number, shown, position, opened, printed,
                         events, histories>>
     ELSE ValidPID("validAgain")

CheckAgain == pc = "validAgain" /\ ValidPID("statm")

GetVMem ==
  /\ pc = "statm"
  /\ ReadFile(AfterVMem)
  /\ UNCHANGED <<args, procs, mode, optind, flags, number, shown, position, printed, events, histories>>

\* The arguments go to an array, the end of the file behind the last one too,
\* and each of them to 2000 bytes; behind either anything may happen.
TooManyArguments(process) == process.args >= MaxArgs[mode] \/ "cmdline" \in process.long

GetCommandLine ==
  /\ pc = "cmdline"
  /\ \/ ReadFile("line")
     \/ CanOpen /\ TooManyArguments(procs[number]) /\ pc' = "crashed" /\ UNCHANGED opened
  /\ UNCHANGED <<args, procs, mode, optind, flags, number, shown, position, printed, events, histories>>

EndLine ==
  /\ pc = "line"
  /\ printed' = Append(printed, [pid |-> number, fields |-> shown])
  /\ pc' = IF mode = "one" THEN "done" ELSE "dir"
  /\ UNCHANGED <<args, procs, mode, optind, flags, number, shown, position, opened, events, histories>>

\* findAllPID: the next entry.  Whether it is a number is told by its last
\* character but one.
ReadEntry ==
  /\ pc = "dir"
  /\ \E p \in Pids :
       /\ p > position /\ Alive(p)
       /\ \A q \in Pids : q > position /\ Alive(q) => p <= q
       /\ position' = p
       /\ IF p \in OneDigit THEN UNCHANGED <<pc, number>> ELSE pc' = "user" /\ number' = p
  /\ UNCHANGED <<args, procs, mode, optind, flags, shown, opened, printed, events, histories>>

\* Mutant of EndOfDirectory: gives up one entry early.
EndOfDirectoryEarly ==
  /\ pc = "dir"
  /\ Cardinality({p \in Pids : p > position /\ Alive(p)}) <= 1
  /\ pc' = "done"
  /\ UNCHANGED <<args, procs, mode, optind, flags, number, shown, position, opened, printed, events,
                 histories>>

EndOfDirectory ==
  /\ pc = "dir"
  /\ \A p \in Pids : p > position => ~Alive(p)
  /\ pc' = "done"
  /\ UNCHANGED <<args, procs, mode, optind, flags, number, shown, position, opened, printed, events,
                 histories>>

\* isUserId: a process that has ended is passed over.  The lines of its status
\* go to an array of 100 rows; behind it anything may happen.
IsUserId ==
  /\ pc = "user"
  /\ IF CanOpen
     THEN /\ \/ pc' = (IF IsUsers(procs[number]) THEN "stat" ELSE "dir")
             \/ "status" \in procs[number].long /\ pc' = "crashed"
          /\ opened' = opened + 1 /\ lost' = FALSE
     ELSE pc' = "dir" /\ UNCHANGED <<opened, lost>>
  /\ UNCHANGED <<args, procs, mode, optind, flags, number, shown, position, printed, events, steady>>

Next ==
  \/ Invoke
  \/ \E p \in Pids : Ends(p) \/ Starts(p)
  \/ Main \/ Option \/ OptionsEnd \/ CheckArgument \/ PathOverflows \/ ParseStat
  \/ PrintStat \/ CheckVMem \/ CheckAgain \/ GetVMem \/ GetCommandLine \/ EndLine
  \/ ReadEntry \/ EndOfDirectory \/ IsUserId

-----------------------------------------------------------------------------
\* A listing that comes to its end has each process of user 1000 that was there
\* all the time, and each number once, in whatever order other processes start
\* and end; but for one-digit numbers (line 62 of getProcessList.cpp) and for a
\* system with more processes than files to open.  That it has no other user's,
\* and only its own fields, holds for processes that were there all the time,
\* the fields for those with a name of one word.
ListsEveryProcess ==
  (pc = "done" /\ mode = "all") =>
    LET listed == {printed[i].pid : i \in DOMAIN printed}
    IN  /\ \A p \in steady : IsUsers(procs[p]) /\ p \notin OneDigit /\ opened < MaxOpen => p \in listed
        /\ \A p \in listed \cap steady : IsUsers(procs[p])
        /\ \A i, j \in DOMAIN printed : i # j => printed[i].pid # printed[j].pid
        /\ \A i \in DOMAIN printed :
             printed[i].pid \in steady /\ procs[printed[i].pid].words = 1 =>
               printed[i].fields = <<"pid", "state", "utime", "stime">>

\* The tool crashes only for one of these reasons: the process it works on was
\* there when it looked for it and is gone (optionProcessor.cpp opens without a
\* check in lines 67, 153 and 176), the files it never closes are as many as
\* there may be, a command line is too long for its array (line 188), a status
\* file for its own (line 237), the word behind -p for the path (line 34), or
\* the -p main found was not one getopt found.
CrashesHaveReasons ==
  pc = "crashed" =>
    \/ number # NoNumber /\ lost /\ ~Alive(number)
    \/ opened = MaxOpen
    \/ number # NoNumber /\ "c" \notin flags /\ TooManyArguments(procs[number])
    \/ mode = "all" /\ number # NoNumber /\ "status" \in procs[number].long
    \/ mode = "one" /\ \E i \in DOMAIN args : args[i] \in LongWords
    \/ mode = "one" /\ number = NoNumber /\ \E i \in DOMAIN args : args[i] = "--"
==============================================================================
