---------------------------- MODULE ListingProofs ----------------------------
(***************************************************************************)
(* What the process status tool and the directory lister list.  The first, *)
(* whatever processes there are, however many start and end while it runs, *)
(* and whatever it is invoked with, and why it may crash; the second,      *)
(* whatever files and directories there are, and why it may fail.          *)
(***************************************************************************)
EXTENDS Tools, SequenceTheorems, TLAPS

-----------------------------------------------------------------------------
(***************************************************************************)
(* The invariant.                                                          *)
(***************************************************************************)
Labels ==
  {"idle", "main", "options", "valid", "stat", "print", "validVMem", "validAgain", "statm",
   "cmdline", "line", "dir", "user", "done", "failed", "crashed"}

Number == Pids \cup {tups!NoNumber}

\* The words of a stat file.
Word == {"pid", "comm", "state", "other", "utime", "stime"}

Types ==
  /\ pc \in Labels
  /\ args \in Seq(STRING)
  /\ procs \in [Pids -> tups!Present]
  /\ mode \in {"none", "one", "all"}
  /\ optind \in Nat \ {0}
  /\ number \in Number
  /\ shown \in Seq(Word)
  /\ position \in Nat
  /\ opened \in 0 .. MaxOpen
  /\ printed \in Seq([pid : Number, fields : Seq(Word)])
  /\ lost \in BOOLEAN

\* A process that was there all the time is there.
Steady == steady \subseteq Pids /\ \A p \in steady : tups!Alive(p)

\* Before the tool has looked at its options.
Fresh == optind = 1 /\ number = tups!NoNumber

ModeOK ==
  /\ pc \in {"idle", "main"} <=> mode = "none"
  /\ mode = "none" => Fresh
  /\ pc \in {"valid", "validVMem"} => mode = "one"
  /\ pc \in {"dir", "user"} => mode = "all"

\* Where the listing is at a process.
AtProcess == {"user", "stat", "print", "validAgain", "statm", "cmdline", "line"}

HasDashes == \E j \in DOMAIN args : args[j] = "--"

\* Whether there is a process to work on.  In the single mode, a -p that is
\* still to come will give one, if no "--" is before it.
NumberOK ==
  /\ pc \in {"stat", "validAgain", "statm"} => number # tups!NoNumber
  /\ mode = "all" /\ pc \in AtProcess => number # tups!NoNumber /\ number = position
  /\ mode = "one" /\ number = tups!NoNumber =>
       /\ pc = "options" => \E j \in optind .. Len(args) - 1 : args[j] = "-p"
       /\ pc \in {"print", "validVMem", "cmdline"} => HasDashes

\* Where the tool has found the process it works on: if it is gone, it has
\* ended since.
Found == (AtProcess \ {"user"}) \cup {"options", "validVMem"}
FoundOK == pc \in Found /\ number # tups!NoNumber /\ ~tups!Alive(number) => lost

\* The word whose value is the process, and when the command line is wanted.
WordsOK ==
  /\ pc = "valid" => optind - 1 \in DOMAIN args
  /\ pc = "cmdline" => "c" \notin flags

CrashInv ==
  Types /\ Steady /\ ModeOK /\ NumberOK /\ FoundOK /\ WordsOK /\ tups!CrashesHaveReasons

Listed == {printed[k].pid : k \in DOMAIN printed}
Mine(p) == tups!IsUsers(procs[p])
Fields == <<"pid", "state", "utime", "stime">>

USE DEF tups!histories

\* A listing begins with nothing.
BeforeListing ==
  mode = "none" \/ (mode = "all" /\ pc = "options") => printed = <<>> /\ position = 0

\* What the listing has passed by is in it, but for the process it is at.
PassedAreListed ==
  pc \notin {"failed", "crashed"} =>
    \A p \in steady :
      p <= position /\ Mine(p) /\ p \notin OneDigit /\ opened < MaxOpen =>
        p \in Listed \/ (pc \in AtProcess /\ p = number)

OnlyMine ==
  /\ \A p \in Listed \cap steady : Mine(p)
  /\ pc \in AtProcess \ {"user"} /\ number \in steady => Mine(number)

\* The process it is at is behind those listed.
EachOnce ==
  /\ \A j, k \in DOMAIN printed : j # k => printed[j].pid # printed[k].pid
  /\ \A p \in Listed : p <= position /\ (pc \in AtProcess => p # number)

FieldsInPlace ==
  /\ \A k \in DOMAIN printed :
       printed[k].pid \in steady /\ procs[printed[k].pid].words = 1 => printed[k].fields = Fields
  /\ pc \in AtProcess \ {"user", "stat"} /\ number \in steady /\ procs[number].words = 1 =>
       shown = Fields

AllPassed == pc = "done" => \A p \in steady : p <= position

Listing == PassedAreListed /\ OnlyMine /\ EachOnce /\ FieldsInPlace /\ AllPassed

ListInv == BeforeListing /\ (mode = "all" => Listing)

-----------------------------------------------------------------------------
(***************************************************************************)
(* Types.                                                                  *)
(***************************************************************************)
Times(n, word) == [j \in 1 .. n |-> word]

LEMMA TimesSeq ==
  ASSUME NEW n \in Nat, NEW word \in Word
  PROVE  /\ Times(n, word) \in Seq(Word) /\ Len(Times(n, word)) = n
         /\ \A j \in 1 .. n : Times(n, word)[j] = word
<1> DEFINE s == Times(n, word)
<1>1. s \in [1 .. n -> Word]
  BY DEF Times
<1>2. DOMAIN s = 1 .. n /\ \A j \in 1 .. n : s[j] = word
  BY DEF Times
<1> HIDE DEF s
<1>3. s \in Seq(Word)
  BY <1>1, SeqDef
<1>4. Len(s) = n
  BY <1>2, <1>3, LenProperties
<1> QED BY <1>2, <1>3, <1>4 DEF s

LEMMA ConcatParts ==
  ASSUME NEW s \in Seq(Word), NEW t \in Seq(Word)
  PROVE  /\ s \o t \in Seq(Word) /\ Len(s \o t) = Len(s) + Len(t)
         /\ Len(s) \in Nat /\ Len(t) \in Nat
         /\ \A j \in 1 .. Len(s) : (s \o t)[j] = s[j]
         /\ \A j \in 1 .. Len(t) : (s \o t)[Len(s) + j] = t[j]
BY ConcatProperties

\* The fields parseStat takes are there, and are those meant if the name of the
\* process has no space in it.
LEMMA StatFields ==
  ASSUME NEW kind, kind.words \in Nat \ {0}
  PROVE  LET stat == tups!StatLine(kind)
             fields == <<stat[1], stat[3], stat[14], stat[15]>>
         IN  fields \in Seq(Word) /\ (kind.words = 1 => fields = Fields)
<1> USE DEF Word
<1> DEFINE w == kind.words
           comm == Times(w, "comm")
           other == Times(10, "other")
           pid == <<"pid">>
           state == <<"state">>
           times == <<"utime", "stime">>
           s1 == pid \o comm
           s2 == s1 \o state
           s3 == s2 \o other
           s4 == s3 \o times
<1>1. comm \in Seq(Word) /\ Len(comm) = w
  BY TimesSeq
<1>2. other \in Seq(Word) /\ Len(other) = 10
  BY TimesSeq
<1>3. tups!StatLine(kind) = s4
  BY Zenon DEF tups!StatLine, Times
<1>4. /\ pid \in Seq(Word) /\ Len(pid) = 1 /\ pid[1] = "pid"
      /\ state \in Seq(Word) /\ Len(state) = 1 /\ state[1] = "state"
      /\ times \in Seq(Word) /\ Len(times) = 2 /\ times[1] = "utime" /\ times[2] = "stime"
  OBVIOUS
<1>5. w \in Nat /\ w > 0
  OBVIOUS
<1> HIDE DEF pid, comm, state, other, times, w, Word
<1>6. s1 \in Seq(Word) /\ Len(s1) = 1 + w /\ s1[1] = pid[1]
  <2>1. /\ s1 \in Seq(Word) /\ Len(s1) = Len(pid) + Len(comm)
        /\ \A j \in 1 .. Len(pid) : s1[j] = pid[j]
        /\ \A j \in 1 .. Len(comm) : s1[Len(pid) + j] = comm[j]
    BY <1>1, <1>4, ConcatParts
  <2> HIDE DEF s1
  <2> QED BY <1>1, <1>4, <1>5, <2>1
<1> HIDE DEF s1
<1>7. s2 \in Seq(Word) /\ Len(s2) = 2 + w /\ s2[1] = pid[1] /\ s2[2 + w] = state[1]
  <2>1. /\ s2 \in Seq(Word) /\ Len(s2) = Len(s1) + Len(state)
        /\ \A j \in 1 .. Len(s1) : s2[j] = s1[j]
        /\ \A j \in 1 .. Len(state) : s2[Len(s1) + j] = state[j]
    BY <1>4, <1>6, ConcatParts
  <2> HIDE DEF s2
  <2> QED BY <1>4, <1>5, <1>6, <2>1
<1> HIDE DEF s2
<1>8. s3 \in Seq(Word) /\ Len(s3) = 12 + w /\ s3[1] = pid[1] /\ s3[2 + w] = state[1]
  <2>1. /\ s3 \in Seq(Word) /\ Len(s3) = Len(s2) + Len(other)
        /\ \A j \in 1 .. Len(s2) : s3[j] = s2[j]
        /\ \A j \in 1 .. Len(other) : s3[Len(s2) + j] = other[j]
    BY <1>2, <1>7, ConcatParts
  <2> HIDE DEF s3
  <2> QED BY <1>2, <1>5, <1>7, <2>1
<1> HIDE DEF s3
<1>9. /\ s4 \in Seq(Word) /\ Len(s4) = 14 + w /\ s4[1] = pid[1] /\ s4[2 + w] = state[1]
      /\ s4[13 + w] = times[1] /\ s4[14 + w] = times[2]
  <2>1. /\ s4 \in Seq(Word) /\ Len(s4) = Len(s3) + Len(times)
        /\ \A j \in 1 .. Len(s3) : s4[j] = s3[j]
        /\ \A j \in 1 .. Len(times) : s4[Len(s3) + j] = times[j]
    BY <1>4, <1>8, ConcatParts
  <2> HIDE DEF s4
  <2> QED BY <1>4, <1>5, <1>8, <2>1
<1> HIDE DEF s4
<1>10. s4[1] \in Word /\ s4[3] \in Word /\ s4[14] \in Word /\ s4[15] \in Word
  BY <1>5, <1>9
<1>11. <<s4[1], s4[3], s4[14], s4[15]>> \in Seq(Word)
  BY <1>10
<1>12. w = 1 => <<s4[1], s4[3], s4[14], s4[15]>> = Fields
  BY <1>4, <1>9 DEF Fields
<1> QED BY <1>3, <1>11, <1>12 DEF w

LEMMA NextTypes ==
  ASSUME tups!ConstantsOK, Types, tups!Next
  PROVE  Types'
<1> USE DEF Types
<1>1. CASE tups!Invoke
  BY <1>1 DEF tups!Invoke, tups!ConstantsOK, Labels
<1>2. CASE \E p \in Pids : tups!Ends(p) \/ tups!Starts(p)
  <2>1. procs' \in [Pids -> tups!Present]
    <3>1. tups!Gone \in tups!Present /\ Kinds \subseteq tups!Present
      BY DEF tups!Present
    <3> QED BY <1>2, <3>1 DEF tups!Ends, tups!Starts
  <2> QED BY <1>2, <2>1 DEF tups!Ends, tups!Starts
<1>3. CASE tups!Main \/ tups!OptionsEnd \/ tups!PathOverflows \/ tups!PrintStat \/ tups!EndOfDirectory
  BY <1>3 DEF tups!Main, tups!OptionsEnd, tups!PathOverflows, tups!PrintStat, tups!EndOfDirectory, tups!AfterVMem, Labels
<1>4. CASE tups!Option
  <2>1. number' \in Number /\ optind' \in Nat \ {0}
    BY <1>4 DEF tups!Option, tups!ValueOf, Number, tups!ConstantsOK
  <2> QED BY <1>4, <2>1 DEF tups!Option, Labels
<1>5. CASE tups!CheckArgument \/ tups!CheckVMem \/ tups!CheckAgain
  BY <1>5 DEF tups!CheckArgument, tups!CheckVMem, tups!CheckAgain, tups!ValidPID, Labels
<1>6. CASE tups!ParseStat
  <2>1. shown' \in Seq(Word)
    <3>1. CASE tups!CanOpen
      <4>1. procs[number].words \in Nat \ {0}
        BY <3>1 DEF tups!CanOpen, tups!Alive, tups!ConstantsOK, Number
      <4> QED BY <1>6, <3>1, <4>1, StatFields DEF tups!ParseStat
    <3>2. CASE ~tups!CanOpen
      BY <1>6, <3>2 DEF tups!ParseStat
    <3> QED BY <3>1, <3>2
  <2> QED BY <1>6, <2>1 DEF tups!ParseStat, tups!ReadFile, tups!CanOpen, tups!ConstantsOK, Labels
<1>7. CASE tups!GetVMem \/ tups!GetCommandLine \/ tups!IsUserId
  <2>1. opened' \in 0 .. MaxOpen
    BY <1>7 DEF tups!GetVMem, tups!GetCommandLine, tups!IsUserId, tups!ReadFile, tups!CanOpen, tups!ConstantsOK
  <2>2. pc' \in Labels
    BY <1>7 DEF tups!GetVMem, tups!GetCommandLine, tups!IsUserId, tups!ReadFile, tups!AfterVMem, Labels
  <2>3. lost' \in BOOLEAN /\ UNCHANGED <<args, procs, mode, optind, number, shown, position, printed>>
    BY <1>7 DEF tups!GetVMem, tups!GetCommandLine, tups!IsUserId
  <2> QED BY <2>1, <2>2, <2>3
<1>8. CASE tups!EndLine
  <2>1. [pid |-> number, fields |-> shown] \in [pid : Number, fields : Seq(Word)]
    OBVIOUS
  <2>2. printed' \in Seq([pid : Number, fields : Seq(Word)])
    BY <1>8, <2>1, AppendProperties DEF tups!EndLine
  <2> QED BY <1>8, <2>2 DEF tups!EndLine, Labels
<1>9. CASE tups!ReadEntry
  BY <1>9 DEF tups!ReadEntry, tups!ConstantsOK, Number, Labels
<1> QED BY <1>1, <1>2, <1>3, <1>4, <1>5, <1>6, <1>7, <1>8, <1>9 DEF tups!Next

LEMMA NextSteady ==
  ASSUME tups!ConstantsOK, Types, Steady, tups!Next
  PROVE  Steady'
<1>1. CASE \E p \in Pids : tups!Ends(p) \/ tups!Starts(p)
  BY <1>1 DEF tups!Ends, tups!Starts, Types, Steady, tups!Alive
<1>2. CASE tups!Invoke
  BY <1>2 DEF tups!Invoke, Steady, tups!Alive
<1>3. CASE UNCHANGED <<procs, steady>>
  BY <1>3 DEF Steady, tups!Alive
<1> QED
  BY <1>1, <1>2, <1>3 DEF tups!Next, tups!Main, tups!Option, tups!OptionsEnd, tups!CheckArgument, tups!ParseStat, tups!PrintStat, tups!CheckVMem,
     tups!PathOverflows, tups!CheckAgain, tups!GetVMem, tups!GetCommandLine, tups!EndLine, tups!ReadEntry, tups!EndOfDirectory,
     tups!IsUserId, tups!ValidPID

LEMMA NextModeOK ==
  ASSUME Types, ModeOK, tups!Next
  PROVE  ModeOK'
<1> USE DEF ModeOK, Fresh
<1>1. CASE tups!Invoke \/ \E p \in Pids : tups!Ends(p) \/ tups!Starts(p)
  BY <1>1 DEF tups!Invoke, tups!Ends, tups!Starts
<1>2. CASE tups!Main \/ tups!OptionsEnd \/ tups!Option
  BY <1>2 DEF tups!Main, tups!OptionsEnd, tups!Option, Types
<1>3. CASE tups!CheckArgument \/ tups!PathOverflows \/ tups!CheckVMem \/ tups!CheckAgain \/ tups!PrintStat
  BY <1>3 DEF tups!CheckArgument, tups!PathOverflows, tups!CheckVMem, tups!CheckAgain, tups!PrintStat, tups!ValidPID, tups!AfterVMem, Types
<1>4. CASE tups!ParseStat \/ tups!GetVMem \/ tups!GetCommandLine \/ tups!IsUserId
  BY <1>4 DEF tups!ParseStat, tups!GetVMem, tups!GetCommandLine, tups!IsUserId, tups!ReadFile, tups!AfterVMem, Types
<1>5. CASE tups!EndLine \/ tups!ReadEntry \/ tups!EndOfDirectory
  BY <1>5 DEF tups!EndLine, tups!ReadEntry, tups!EndOfDirectory, Types
<1> QED BY <1>1, <1>2, <1>3, <1>4, <1>5 DEF tups!Next

-----------------------------------------------------------------------------
(***************************************************************************)
(* Why the tool crashes.                                                   *)
(***************************************************************************)
LEMMA NextNumberOK ==
  ASSUME tups!ConstantsOK, Types, ModeOK, NumberOK, tups!Next
  PROVE  NumberOK'
<1>1. CASE tups!Invoke \/ \E p \in Pids : tups!Ends(p) \/ tups!Starts(p)
  BY <1>1 DEF tups!Invoke, tups!Ends, tups!Starts, NumberOK, ModeOK, HasDashes, AtProcess
<1>2. CASE tups!Main
  <2>1. /\ pc' = "options" /\ UNCHANGED <<args, optind, number>> /\ optind = 1
        /\ mode' = "one" => \E j \in 1 .. Len(args) - 1 : args[j] = "-p"
    BY <1>2 DEF tups!Main, ModeOK, Fresh
  <2> QED BY <2>1 DEF NumberOK, AtProcess
\* A -p that is not the last argument is taken when it comes.
<1>3. CASE tups!Option
  <2>1. pc = "options" /\ UNCHANGED <<args, mode>>
    BY <1>3 DEF tups!Option
  <2>2. CASE pc' = "valid"
    BY <1>3, <2>1, <2>2 DEF tups!Option, NumberOK, ModeOK, AtProcess
  <2>3. CASE pc' = "options"
    <3>1. /\ optind' = optind + 1 /\ number' = number
          /\ ~(mode = "one" /\ "p" \in tups!Letters(args[optind]) /\ optind < Len(args))
      BY <1>3, <2>3 DEF tups!Option
    <3>2. ASSUME mode = "one", NEW j \in optind .. Len(args) - 1, args[j] = "-p"
          PROVE  j \in optind + 1 .. Len(args) - 1
      <4>1. CASE j = optind
        <5>1. tups!Letters(args[optind]) = {"p"}
          BY <3>2, <4>1 DEF tups!Letters
        <5> QED BY <3>1, <3>2, <4>1, <5>1 DEF Types
      <4>2. CASE j # optind
        BY <4>2 DEF Types
      <4> QED BY <4>1, <4>2
    <3>3. mode = "one" /\ number = tups!NoNumber => \E j \in optind + 1 .. Len(args) - 1 : args[j] = "-p"
      BY <2>1, <3>2 DEF NumberOK
    <3> QED BY <2>1, <2>3, <3>1, <3>3 DEF NumberOK, AtProcess
  <2> QED BY <1>3, <2>2, <2>3 DEF tups!Option
<1>4. CASE tups!OptionsEnd
  <2>1. /\ pc = "options" /\ UNCHANGED <<args, mode, number, optind>>
        /\ pc' = IF mode = "one" THEN "print" ELSE "dir"
        /\ ~(optind <= Len(args) /\ args[optind] # "--")
    BY <1>4 DEF tups!OptionsEnd, tups!OptionsLeft
  <2>2. ASSUME mode = "one", number = tups!NoNumber PROVE HasDashes
    <3>1. PICK j \in optind .. Len(args) - 1 : args[j] = "-p"
      BY <2>1, <2>2 DEF NumberOK
    <3>2. optind \in 1 .. Len(args) /\ Len(args) \in Nat
      BY <3>1 DEF Types
    <3>3. args[optind] = "--" /\ optind \in DOMAIN args
      BY <2>1, <3>2 DEF Types
    <3> QED BY <3>3 DEF HasDashes
  <2>3. mode = "all" => ~(pc' \in AtProcess)
    BY <2>1 DEF AtProcess
  <2> QED BY <2>1, <2>2, <2>3 DEF NumberOK, ModeOK, HasDashes
<1>5. CASE tups!CheckArgument \/ tups!PathOverflows \/ tups!CheckVMem \/ tups!CheckAgain
  BY <1>5 DEF tups!CheckArgument, tups!PathOverflows, tups!CheckVMem, tups!CheckAgain, tups!ValidPID, NumberOK, ModeOK, AtProcess, HasDashes
<1>6. CASE tups!ParseStat \/ tups!GetVMem \/ tups!GetCommandLine
  BY <1>6 DEF tups!ParseStat, tups!GetVMem, tups!GetCommandLine, tups!ReadFile, tups!AfterVMem, NumberOK, ModeOK, AtProcess,
              HasDashes
<1>7. CASE tups!PrintStat \/ tups!EndLine \/ tups!EndOfDirectory
  BY <1>7 DEF tups!PrintStat, tups!EndLine, tups!EndOfDirectory, tups!AfterVMem, Types, NumberOK, ModeOK, AtProcess,
              HasDashes
<1>8. CASE tups!ReadEntry \/ tups!IsUserId
  BY <1>8 DEF tups!ReadEntry, tups!IsUserId, NumberOK, ModeOK, AtProcess, HasDashes, tups!ConstantsOK
<1> QED BY <1>1, <1>2, <1>3, <1>4, <1>5, <1>6, <1>7, <1>8 DEF tups!Next

LEMMA NextFoundOK ==
  ASSUME tups!ConstantsOK, Types, ModeOK, FoundOK, tups!Next
  PROVE  FoundOK'
<1>1. CASE \E p \in Pids : tups!Ends(p) \/ tups!Starts(p)
  <2>1. PICK p \in Pids : tups!Ends(p) \/ tups!Starts(p)
    BY <1>1
  <2>2. CASE tups!Ends(p)
    BY <2>2 DEF tups!Ends, FoundOK, tups!Alive, Types, Number
  <2>3. CASE tups!Starts(p)
    <3>1. tups!Alive(number) /\ number # tups!NoNumber => tups!Alive(number)'
      BY <2>3 DEF tups!Starts, tups!Alive, Types, Number
    <3> QED BY <2>3, <3>1 DEF tups!Starts, FoundOK
  <2> QED BY <2>1, <2>2, <2>3
<1>2. CASE tups!Invoke \/ tups!Main
  BY <1>2 DEF tups!Invoke, tups!Main, FoundOK, Found, ModeOK, Fresh, AtProcess
<1>3. CASE tups!Option \/ tups!OptionsEnd \/ tups!PathOverflows \/ tups!PrintStat
  BY <1>3 DEF tups!Option, tups!OptionsEnd, tups!PathOverflows, tups!PrintStat, tups!AfterVMem, FoundOK, Found, AtProcess,
              tups!Alive
<1>4. CASE tups!CheckArgument \/ tups!CheckVMem \/ tups!CheckAgain
  BY <1>4 DEF tups!CheckArgument, tups!CheckVMem, tups!CheckAgain, tups!ValidPID, FoundOK, Found, AtProcess, tups!Alive
<1>5. CASE tups!ParseStat \/ tups!GetVMem \/ tups!GetCommandLine
  BY <1>5 DEF tups!ParseStat, tups!GetVMem, tups!GetCommandLine, tups!ReadFile, tups!AfterVMem, FoundOK, Found, AtProcess,
              tups!Alive
<1>6. CASE tups!IsUserId
  BY <1>6 DEF tups!IsUserId, tups!CanOpen, FoundOK, Found, AtProcess, tups!Alive
<1>7. CASE tups!EndLine \/ tups!ReadEntry \/ tups!EndOfDirectory
  BY <1>7 DEF tups!EndLine, tups!ReadEntry, tups!EndOfDirectory, FoundOK, Found, AtProcess
<1> QED BY <1>1, <1>2, <1>3, <1>4, <1>5, <1>6, <1>7 DEF tups!Next

LEMMA NextWordsOK ==
  ASSUME Types, WordsOK, tups!Next
  PROVE  WordsOK'
<1>1. CASE tups!Invoke \/ (\E p \in Pids : tups!Ends(p) \/ tups!Starts(p)) \/ tups!Main
  BY <1>1 DEF tups!Invoke, tups!Ends, tups!Starts, tups!Main, WordsOK
<1>2. CASE tups!Option
  <2>1. /\ pc' \in {"options", "valid"} /\ args' = args
        /\ pc' = "valid" => optind < Len(args) /\ optind' = optind + 2
    BY <1>2 DEF tups!Option
  <2>2. pc' = "valid" => optind' - 1 \in 1 .. Len(args)
    BY <2>1 DEF Types
  <2> QED BY <2>1, <2>2 DEF WordsOK, Types
<1>3. CASE tups!OptionsEnd \/ tups!PathOverflows \/ tups!EndLine \/ tups!ReadEntry \/ tups!EndOfDirectory \/ tups!IsUserId
  BY <1>3 DEF tups!OptionsEnd, tups!PathOverflows, tups!EndLine, tups!ReadEntry, tups!EndOfDirectory, tups!IsUserId, WordsOK
<1>4. CASE tups!CheckArgument \/ tups!CheckVMem \/ tups!CheckAgain \/ tups!PrintStat
  BY <1>4 DEF tups!CheckArgument, tups!CheckVMem, tups!CheckAgain, tups!PrintStat, tups!ValidPID, tups!AfterVMem, WordsOK
<1>5. CASE tups!ParseStat \/ tups!GetVMem \/ tups!GetCommandLine
  BY <1>5 DEF tups!ParseStat, tups!GetVMem, tups!GetCommandLine, tups!ReadFile, tups!AfterVMem, WordsOK
<1> QED BY <1>1, <1>2, <1>3, <1>4, <1>5 DEF tups!Next

\* A file that cannot be opened has a reason that stays.
LEMMA CannotOpen ==
  ASSUME tups!ConstantsOK, Types, ~tups!CanOpen, number # tups!NoNumber
  PROVE  ~tups!Alive(number) \/ opened = MaxOpen
<1>1. MaxOpen \in Nat /\ opened \in 0 .. MaxOpen
  BY DEF tups!ConstantsOK, Types
<1>2. opened < MaxOpen \/ opened = MaxOpen
  BY <1>1
<1> QED BY <1>2 DEF tups!CanOpen

LEMMA NextCrashes ==
  ASSUME tups!ConstantsOK, Types, Steady, ModeOK, NumberOK, FoundOK, WordsOK, tups!CrashesHaveReasons,
         tups!Next
  PROVE  tups!CrashesHaveReasons'
<1> SUFFICES ASSUME pc' = "crashed" PROVE tups!CrashesHaveReasons'
  BY DEF tups!CrashesHaveReasons
<1>1. pc # "crashed"
  BY DEF tups!Next, tups!Invoke, tups!Ends, tups!Starts, tups!Running, tups!Main, tups!Option, tups!OptionsEnd, tups!CheckArgument, tups!ParseStat,
         tups!PathOverflows, tups!PrintStat, tups!CheckVMem, tups!CheckAgain, tups!GetVMem, tups!GetCommandLine, tups!EndLine,
         tups!ReadEntry, tups!EndOfDirectory, tups!IsUserId, tups!ValidPID
<1>2. CASE tups!ParseStat \/ tups!GetVMem \/ tups!GetCommandLine
  <2>1. UNCHANGED <<number, steady, lost, procs, mode, args, flags>> /\ pc \in {"stat", "statm", "cmdline"}
    BY <1>2 DEF tups!ParseStat, tups!GetVMem, tups!GetCommandLine
  <2>2. \/ ~tups!CanOpen /\ opened' = opened
        \/ tups!CanOpen /\ pc = "cmdline" /\ tups!TooManyArguments(procs[number])
    BY <1>1, <1>2 DEF tups!ParseStat, tups!GetVMem, tups!GetCommandLine, tups!ReadFile, tups!AfterVMem
  <2>3. CASE tups!CanOpen
    <3>1. number # tups!NoNumber /\ "c" \notin flags /\ tups!TooManyArguments(procs[number])
      BY <2>2, <2>3 DEF tups!CanOpen, WordsOK
    <3>2. (number # tups!NoNumber /\ "c" \notin flags /\ tups!TooManyArguments(procs[number]))'
      BY <2>1, <3>1 DEF tups!TooManyArguments
    <3> QED BY <3>2 DEF tups!CrashesHaveReasons
  <2>4. CASE ~tups!CanOpen /\ number # tups!NoNumber
    <3>1. ~tups!Alive(number) \/ opened = MaxOpen
      BY <2>4, CannotOpen
    <3>2. ~tups!Alive(number) => lost
      BY <2>1, <2>4 DEF FoundOK, Found, AtProcess
    <3>3. opened' = opened /\ (tups!Alive(number)' <=> tups!Alive(number))
      BY <2>1, <2>2, <2>4 DEF tups!Alive
    <3> QED BY <2>1, <2>4, <3>1, <3>2, <3>3 DEF tups!CrashesHaveReasons
  <2>5. CASE number = tups!NoNumber
    <3>1. pc = "cmdline" /\ mode # "all"
      BY <1>2, <2>5 DEF tups!ParseStat, tups!GetVMem, tups!GetCommandLine, NumberOK, AtProcess
    <3>2. mode = "one" /\ HasDashes
      BY <2>5, <3>1 DEF Types, ModeOK, NumberOK
    <3> QED BY <2>1, <2>5, <3>2 DEF tups!CrashesHaveReasons, HasDashes
  <2> QED BY <2>3, <2>4, <2>5
<1>3. CASE tups!CheckVMem
  <2>1. number = tups!NoNumber /\ pc = "validVMem" /\ UNCHANGED <<args, number, mode>>
    BY <1>3 DEF tups!CheckVMem, tups!ValidPID
  <2>2. mode = "one" /\ HasDashes
    BY <2>1 DEF ModeOK, NumberOK
  <2> QED BY <2>1, <2>2 DEF tups!CrashesHaveReasons, HasDashes
<1>4. CASE tups!PathOverflows
  <2>1. args[optind - 1] \in LongWords /\ pc = "valid" /\ UNCHANGED <<args, mode>>
    BY <1>4 DEF tups!PathOverflows
  <2>2. mode = "one" /\ optind - 1 \in DOMAIN args
    BY <2>1 DEF ModeOK, WordsOK
  <2> QED BY <2>1, <2>2 DEF tups!CrashesHaveReasons
<1>5. CASE tups!IsUserId
  <2>1. pc = "user" /\ UNCHANGED <<number, procs, mode>> /\ "status" \in procs[number].long
    BY <1>5 DEF tups!IsUserId
  <2>2. mode = "all" /\ number # tups!NoNumber
    BY <2>1 DEF ModeOK, NumberOK, AtProcess
  <2> QED BY <2>1, <2>2 DEF tups!CrashesHaveReasons
<1> QED
  BY <1>1, <1>2, <1>3, <1>4, <1>5 DEF tups!Next, tups!Invoke, tups!Ends, tups!Starts, tups!Main, tups!Option, tups!OptionsEnd, tups!CheckArgument, tups!PrintStat,
     tups!CheckAgain, tups!EndLine, tups!ReadEntry, tups!EndOfDirectory, tups!ValidPID, tups!AfterVMem

LEMMA InitCrashInv ==
  ASSUME tups!ConstantsOK, tups!Init
  PROVE  CrashInv
<1>1. Types
  <2>1. procs \in [Pids -> tups!Present]
    BY DEF tups!Init, tups!Present
  <2>2. shown \in Seq(Word) /\ printed \in Seq([pid : Number, fields : Seq(Word)]) /\ args \in Seq(STRING)
    BY DEF tups!Init
  <2>3. pc \in Labels /\ opened \in 0 .. MaxOpen /\ number \in Number
    BY DEF tups!Init, Labels, Number, tups!ConstantsOK
  <2>4. lost \in BOOLEAN
    BY DEF tups!Init
  <2> QED BY <2>1, <2>2, <2>3, <2>4 DEF tups!Init, Types
<1>2. Steady /\ ModeOK /\ NumberOK /\ FoundOK /\ WordsOK /\ tups!CrashesHaveReasons
  BY DEF tups!Init, Steady, ModeOK, Fresh, NumberOK, FoundOK, Found, WordsOK, tups!CrashesHaveReasons, AtProcess
<1> QED BY <1>1, <1>2 DEF CrashInv

LEMMA NextCrashInv ==
  ASSUME tups!ConstantsOK, CrashInv, tups!Next \/ UNCHANGED <<pc, args, tupsVars>>
  PROVE  CrashInv'
<1>1. CASE tups!Next
  BY <1>1, NextTypes, NextSteady, NextModeOK, NextNumberOK, NextFoundOK, NextWordsOK, NextCrashes DEF CrashInv
<1>2. CASE UNCHANGED <<pc, args, tupsVars>>
  BY <1>2 DEF tupsVars, CrashInv, Types, Steady, tups!Alive, ModeOK, Fresh, NumberOK, HasDashes, FoundOK, WordsOK,
              tups!CrashesHaveReasons, tups!TooManyArguments
<1> QED BY <1>1, <1>2

-----------------------------------------------------------------------------
(***************************************************************************)
(* What a listing holds.                                                   *)
(***************************************************************************)
\* Nothing is listed yet.
LEMMA EmptyListing ==
  ASSUME tups!ConstantsOK, Steady, steady' = steady, printed' = <<>>, position' = 0,
         pc' \notin AtProcess \cup {"done"}
  PROVE  Listing'
<1>1. Listed' = {} /\ Len(printed') = 0 /\ DOMAIN printed' = {}
  BY DEF Listed
<1>2. \A p \in steady' : ~(p <= position')
  BY DEF Steady, tups!ConstantsOK, tups!NoNumber
<1>3. PassedAreListed'
  BY <1>2 DEF PassedAreListed
<1>4. OnlyMine' /\ FieldsInPlace' /\ EachOnce'
  BY <1>1 DEF OnlyMine, FieldsInPlace, EachOnce
<1> QED BY <1>3, <1>4 DEF Listing, AllPassed

\* Processes start and end.
LEMMA EnvironmentListing ==
  ASSUME Types, Listing, NEW q \in Pids, tups!Ends(q) \/ tups!Starts(q), Steady
  PROVE  Listing'
<1>1. /\ steady' \subseteq steady /\ \A p \in steady' : procs'[p] = procs[p]
      /\ UNCHANGED <<pc, number, shown, position, opened, printed>>
      /\ pc # "done"
  BY DEF tups!Ends, tups!Starts, tups!Running, Types, Steady
<1>2. Listed' = Listed
  BY <1>1 DEF Listed
<1>3. PassedAreListed' /\ OnlyMine'
  BY <1>1, <1>2 DEF Listing, PassedAreListed, OnlyMine, Mine
<1>4. EachOnce' /\ FieldsInPlace' /\ AllPassed'
  BY <1>1, <1>2 DEF Listing, EachOnce, FieldsInPlace, AllPassed
<1> QED BY <1>3, <1>4 DEF Listing

\* The tool goes on with its process, or ends because of it.
LEMMA AtProcessListing ==
  ASSUME tups!ConstantsOK, Types, Listing, pc \in AtProcess \ {"user"},
         UNCHANGED <<procs, number, position, printed, steady>>,
         pc' \in (AtProcess \ {"user", "stat"}) \cup {"failed", "crashed"},
         opened' = opened \/ opened' = opened + 1,
         \/ pc # "stat" /\ shown' = shown
         \/ (pc' \in AtProcess /\ number \in steady /\ procs[number].words = 1 => shown' = Fields)
  PROVE  Listing'
<1>1. Listed' = Listed /\ pc \notin {"failed", "crashed"} /\ pc' # "done"
  BY DEF Listed, AtProcess
<1>2. opened' < MaxOpen => opened < MaxOpen
  BY DEF Types, tups!ConstantsOK
<1>3. PassedAreListed'
  BY <1>1, <1>2 DEF Listing, PassedAreListed, Mine
<1>4. OnlyMine' /\ EachOnce'
  BY <1>1 DEF Listing, OnlyMine, EachOnce, Mine
<1>5. FieldsInPlace'
  BY <1>1 DEF Listing, FieldsInPlace
<1> QED BY <1>1, <1>3, <1>4, <1>5 DEF Listing, AllPassed

\* isUserId passes over the processes of others and those that have ended.
LEMMA UserListing ==
  ASSUME tups!ConstantsOK, Types, Steady, NumberOK, Listing, mode = "all", tups!IsUserId
  PROVE  Listing'
<1>1. /\ UNCHANGED <<procs, number, position, printed, steady>> /\ pc = "user" /\ pc \in AtProcess
      /\ pc' \in {"stat", "dir", "crashed"} /\ (opened' = opened \/ opened' = opened + 1)
  BY DEF tups!IsUserId, AtProcess
<1>2. Listed' = Listed /\ number # tups!NoNumber
  BY <1>1 DEF Listed, NumberOK
<1>3. opened' < MaxOpen => opened < MaxOpen
  BY <1>1 DEF Types, tups!ConstantsOK
<1>4. pc' = "stat" => Mine(number)
  BY DEF tups!IsUserId, Mine
<1>5. ASSUME pc' = "dir", number \in steady, Mine(number)
      PROVE  ~(opened' < MaxOpen)
  <2>1. CASE tups!CanOpen
    BY <1>5, <2>1 DEF tups!IsUserId, Mine
  <2>2. CASE ~tups!CanOpen
    <3>1. opened = MaxOpen /\ opened' = opened
      BY <1>2, <1>5, <2>2, CannotOpen DEF tups!IsUserId, Steady
    <3> QED BY <3>1 DEF tups!ConstantsOK
  <2> QED BY <2>1, <2>2
<1>6. PassedAreListed'
  BY <1>1, <1>2, <1>3, <1>5 DEF Listing, PassedAreListed, Mine, AtProcess
<1>7. OnlyMine' /\ EachOnce' /\ FieldsInPlace'
  BY <1>1, <1>2, <1>4 DEF Listing, OnlyMine, EachOnce, FieldsInPlace, Mine, AtProcess
<1> QED BY <1>1, <1>6, <1>7 DEF Listing, AllPassed

\* The line of the process is printed.
LEMMA LineListing ==
  ASSUME tups!ConstantsOK, Types, NumberOK, Listing, mode = "all", tups!EndLine
  PROVE  Listing'
<1> DEFINE stat == [pid |-> number, fields |-> shown]
<1>1. /\ UNCHANGED <<procs, number, position, opened, steady>> /\ pc = "line" /\ pc' = "dir"
      /\ printed' = Append(printed, stat) /\ pc \in AtProcess
  BY DEF tups!EndLine, AtProcess
<1>2. stat \in [pid : Number, fields : Seq(Word)] /\ stat.pid = number /\ stat.fields = shown
  BY DEF Types
<1> HIDE DEF stat
<1>3. /\ Len(printed) \in Nat /\ Len(printed') = Len(printed) + 1
      /\ DOMAIN printed = 1 .. Len(printed) /\ DOMAIN printed' = 1 .. Len(printed) + 1
      /\ \A k \in 1 .. Len(printed) : printed'[k] = printed[k]
      /\ printed'[Len(printed) + 1] = stat
  BY <1>1, <1>2, AppendProperties, LenProperties DEF Types
<1>4. Listed' = Listed \cup {number}
  BY <1>2, <1>3 DEF Listed
<1>5. number \notin Listed /\ number = position
  BY <1>1 DEF Listing, EachOnce, NumberOK
<1>6. PassedAreListed'
  BY <1>1, <1>4 DEF Listing, PassedAreListed, Mine
<1>7. OnlyMine'
  BY <1>1, <1>4 DEF Listing, OnlyMine, Mine, AtProcess
<1>8. EachOnce'
  <2>1. \A k \in 1 .. Len(printed) : printed[k].pid # number
    BY <1>3, <1>5 DEF Listed
  <2>2. \A j, k \in DOMAIN printed' : j # k => printed'[j].pid # printed'[k].pid
    BY <1>2, <1>3, <2>1 DEF Listing, EachOnce
  <2>3. \A p \in Listed' : p <= position'
    BY <1>1, <1>4, <1>5 DEF Listing, EachOnce, Types
  <2> QED BY <1>1, <2>2, <2>3 DEF EachOnce, AtProcess
<1>9. FieldsInPlace'
  <2>1. ASSUME NEW k \in DOMAIN printed', printed'[k].pid \in steady, procs[printed'[k].pid].words = 1
        PROVE  printed'[k].fields = Fields
    <3>1. CASE k = Len(printed) + 1
      BY <1>1, <1>2, <1>3, <2>1, <3>1 DEF Listing, FieldsInPlace, AtProcess
    <3>2. CASE k \in 1 .. Len(printed)
      BY <1>3, <2>1, <3>2 DEF Listing, FieldsInPlace
    <3> QED BY <1>3, <3>1, <3>2
  <2> QED BY <1>1, <2>1 DEF FieldsInPlace, AtProcess
<1> QED BY <1>1, <1>6, <1>7, <1>8, <1>9 DEF Listing, AllPassed

\* The next entry of the directory: no process that was there all the time is
\* between the last one and this.
LEMMA EntryListing ==
  ASSUME tups!ConstantsOK, Types, Steady, Listing, tups!ReadEntry
  PROVE  Listing'
<1>1. PICK p \in Pids : /\ p > position /\ tups!Alive(p)
                        /\ \A q \in Pids : q > position /\ tups!Alive(q) => p <= q
                        /\ position' = p
                        /\ IF p \in OneDigit THEN UNCHANGED <<pc, number>>
                           ELSE pc' = "user" /\ number' = p
  BY DEF tups!ReadEntry
<1>2. UNCHANGED <<procs, shown, opened, printed, steady>> /\ pc = "dir"
  BY DEF tups!ReadEntry
<1>3. Listed' = Listed /\ pc' \in {"dir", "user"}
  BY <1>1, <1>2 DEF Listed
<1>4. p \in Nat /\ position \in Nat /\ \A q \in steady : q \in Nat
  BY DEF tups!ConstantsOK, Types, Steady
<1>5. ASSUME NEW q \in steady, q <= p PROVE q <= position \/ q = p
  BY <1>1, <1>4, <1>5 DEF Steady
<1>6. PassedAreListed'
  <2>1. ASSUME NEW q \in steady, q <= p, Mine(q), q \notin OneDigit, opened < MaxOpen
        PROVE  q \in Listed \/ (pc' \in AtProcess /\ q = number')
    <3>1. CASE q <= position
      BY <1>2, <2>1, <3>1 DEF Listing, PassedAreListed, AtProcess
    <3>2. CASE q = p
      BY <1>1, <2>1, <3>2 DEF AtProcess
    <3> QED BY <1>5, <2>1, <3>1, <3>2
  <2> QED BY <1>1, <1>2, <1>3, <2>1 DEF PassedAreListed, Mine
<1>7. OnlyMine' /\ FieldsInPlace'
  BY <1>2, <1>3 DEF Listing, OnlyMine, FieldsInPlace, Mine, AtProcess
<1>8. EachOnce'
  <2>1. \A k \in DOMAIN printed : printed[k] \in [pid : Number, fields : Seq(Word)]
    BY ElementOfSeq, LenProperties DEF Types
  <2>2. \A q \in Listed : q <= position /\ q \in Nat
    <3>1. Number \subseteq Nat
      BY DEF Number, tups!ConstantsOK, tups!NoNumber
    <3>2. \A q \in Listed : q \in Number
      BY <2>1 DEF Listed
    <3> QED BY <3>1, <3>2 DEF Listing, EachOnce
  <2>3. \A q \in Listed : q <= p /\ q # p
    BY <1>1, <1>4, <2>2
  <2> QED BY <1>1, <1>2, <1>3, <2>3 DEF Listing, EachOnce, AtProcess
<1> QED BY <1>3, <1>6, <1>7, <1>8 DEF Listing, AllPassed

LEMMA NextListInv ==
  ASSUME tups!ConstantsOK, CrashInv, ListInv, tups!Next
  PROVE  ListInv'
<1>1. Types /\ Steady /\ ModeOK /\ NumberOK /\ mode \in {"none", "one", "all"}
  BY DEF CrashInv, Types
<1>2. CASE tups!Invoke
  <2>1. mode = "none" /\ UNCHANGED <<mode, printed, position>>
    BY <1>1, <1>2 DEF tups!Invoke, ModeOK
  <2> QED BY <2>1 DEF ListInv, BeforeListing
<1>3. CASE tups!Main
  <2>1. printed' = <<>> /\ position' = 0 /\ steady' = steady /\ pc' = "options"
    BY <1>1, <1>3 DEF tups!Main, ListInv, BeforeListing, ModeOK
  <2>2. pc' \notin AtProcess \cup {"done"}
    BY <2>1 DEF AtProcess
  <2>3. Listing'
    BY <1>1, <2>1, <2>2, EmptyListing
  <2> QED BY <2>1, <2>3 DEF ListInv, BeforeListing
\* From here on the mode is known; in the single mode there is nothing to show.
<1>4. CASE mode # "all" /\ ~tups!Invoke /\ ~tups!Main
  <2>1. mode' = mode /\ (mode = "none" => UNCHANGED <<printed, position>>)
    BY <1>1, <1>4 DEF tups!Next, tups!Ends, tups!Starts, tups!Option, tups!OptionsEnd, tups!CheckArgument, tups!ParseStat, tups!PrintStat,
       tups!CheckVMem, tups!CheckAgain, tups!GetVMem, tups!GetCommandLine, tups!EndLine, tups!ReadEntry, tups!EndOfDirectory, tups!IsUserId,
       tups!PathOverflows, tups!ValidPID, ModeOK
  <2> QED BY <1>4, <2>1 DEF ListInv, BeforeListing
<1>5. CASE mode = "all" /\ ~tups!Invoke /\ ~tups!Main
  <2>1. Listing /\ mode' = "all" /\ pc \notin {"idle", "main", "valid", "validVMem"}
    BY <1>1, <1>5 DEF tups!Next, tups!Ends, tups!Starts, tups!Option, tups!OptionsEnd, tups!CheckArgument, tups!ParseStat, tups!PrintStat,
       tups!CheckVMem, tups!CheckAgain, tups!GetVMem, tups!GetCommandLine, tups!EndLine, tups!ReadEntry, tups!EndOfDirectory, tups!IsUserId,
       tups!PathOverflows, tups!ValidPID, ModeOK, ListInv
  <2>2. CASE \E p \in Pids : tups!Ends(p) \/ tups!Starts(p)
    <3>1. Listing'
      BY <1>1, <2>1, <2>2, EnvironmentListing
    <3>2. UNCHANGED <<pc, printed, position>>
      BY <2>2 DEF tups!Ends, tups!Starts
    <3> QED BY <2>1, <3>1, <3>2, <1>5 DEF ListInv, BeforeListing
  <2>3. CASE tups!Option \/ tups!OptionsEnd
    <3>1. /\ UNCHANGED <<printed, position, steady>> /\ printed = <<>> /\ position = 0
          /\ pc' \in {"options", "dir"}
      BY <1>5, <2>3 DEF tups!Option, tups!OptionsEnd, ListInv, BeforeListing
    <3>2. pc' \notin AtProcess \cup {"done"}
      BY <3>1 DEF AtProcess
    <3>3. Listing'
      BY <1>1, <3>1, <3>2, EmptyListing
    <3> QED BY <2>1, <3>1, <3>3 DEF ListInv, BeforeListing
  <2>4. CASE tups!ParseStat \/ tups!PrintStat \/ tups!CheckAgain \/ tups!GetVMem \/ tups!GetCommandLine
    <3>1. /\ pc \in AtProcess \ {"user"} /\ UNCHANGED <<procs, number, position, printed, steady>>
          /\ opened' = opened \/ opened' = opened + 1
      BY <2>4 DEF tups!ParseStat, tups!PrintStat, tups!CheckAgain, tups!GetVMem, tups!GetCommandLine, tups!ReadFile, tups!ValidPID, AtProcess
    <3>2. pc' \in (AtProcess \ {"user", "stat"}) \cup {"failed", "crashed"}
      BY <1>5, <2>4 DEF tups!ParseStat, tups!PrintStat, tups!CheckAgain, tups!GetVMem, tups!GetCommandLine, tups!ReadFile, tups!ValidPID,
                        AtProcess, tups!AfterVMem
    <3>3. \/ pc # "stat" /\ shown' = shown
          \/ (pc' \in AtProcess /\ number \in steady /\ procs[number].words = 1 => shown' = Fields)
      <4>1. CASE tups!ParseStat /\ tups!CanOpen
        <5>1. procs[number].words \in Nat \ {0}
          BY <1>1, <4>1 DEF tups!CanOpen, tups!Alive, tups!ConstantsOK, Number, Types
        <5>2. shown' = LET stat == tups!StatLine(procs[number]) IN <<stat[1], stat[3], stat[14], stat[15]>>
          BY <4>1 DEF tups!ParseStat
        <5> QED BY <5>1, <5>2, StatFields
      <4>2. CASE tups!ParseStat /\ ~tups!CanOpen
        BY <4>2 DEF tups!ParseStat, tups!ReadFile, AtProcess
      <4>3. CASE ~tups!ParseStat
        BY <2>4, <4>3 DEF tups!PrintStat, tups!CheckAgain, tups!GetVMem, tups!GetCommandLine, tups!ValidPID
      <4> QED BY <4>1, <4>2, <4>3
    <3>4. Listing'
      BY <1>1, <2>1, <3>1, <3>2, <3>3, AtProcessListing
    <3> QED BY <2>1, <3>1, <3>2, <3>4 DEF ListInv, BeforeListing, AtProcess
  <2>5. CASE tups!IsUserId
    BY <1>1, <1>5, <2>1, <2>5, UserListing DEF ListInv, BeforeListing, tups!IsUserId
  <2>6. CASE tups!EndLine
    BY <1>1, <1>5, <2>1, <2>6, LineListing DEF ListInv, BeforeListing, tups!EndLine
  <2>7. CASE tups!ReadEntry
    BY <1>1, <1>5, <2>1, <2>7, EntryListing DEF ListInv, BeforeListing, tups!ReadEntry
  <2>8. CASE tups!EndOfDirectory
    <3>1. /\ UNCHANGED <<procs, number, position, opened, printed, steady>> /\ pc = "dir" /\ pc' = "done"
          /\ \A p \in Pids : p > position => ~tups!Alive(p)
      BY <2>8 DEF tups!EndOfDirectory
    <3>2. \A p \in steady : p <= position
      BY <1>1, <3>1 DEF Steady, tups!ConstantsOK, Types
    <3>3. Listed' = Listed
      BY <3>1 DEF Listed
    <3>4. Listing'
      BY <2>1, <3>1, <3>2, <3>3 DEF Listing, PassedAreListed, OnlyMine, EachOnce, FieldsInPlace, AllPassed,
         Mine, AtProcess
    <3> QED BY <2>1, <3>1, <3>4 DEF ListInv, BeforeListing
  <2> QED
    BY <1>5, <2>1, <2>2, <2>3, <2>4, <2>5, <2>6, <2>7, <2>8 DEF tups!Next, tups!CheckArgument, tups!PathOverflows,
       tups!CheckVMem
<1> QED BY <1>1, <1>2, <1>3, <1>4, <1>5

ToolInv == CrashInv /\ ListInv

LEMMA InitToolInv ==
  ASSUME tups!ConstantsOK, tups!Init
  PROVE  ToolInv
<1>1. ListInv
  BY DEF tups!Init, ListInv, BeforeListing
<1> QED BY <1>1, InitCrashInv DEF ToolInv

LEMMA NextToolInv ==
  ASSUME tups!ConstantsOK, ToolInv, tups!Next \/ UNCHANGED <<pc, args, tupsVars>>
  PROVE  ToolInv'
<1>1. ASSUME ListInv, UNCHANGED <<pc, args, tupsVars>> PROVE ListInv'
  BY <1>1 DEF tupsVars, ListInv, BeforeListing, Listing, PassedAreListed, OnlyMine, EachOnce, FieldsInPlace,
              AllPassed, Listed, Mine
<1> QED BY <1>1, NextCrashInv, NextListInv DEF ToolInv

LEMMA ToolInvImplies == ASSUME ToolInv PROVE tups!ListsEveryProcess
<1> SUFFICES ASSUME pc = "done", mode = "all"
             PROVE  /\ \A p \in steady : Mine(p) /\ p \notin OneDigit /\ opened < MaxOpen => p \in Listed
                    /\ \A p \in Listed \cap steady : Mine(p)
                    /\ \A j, k \in DOMAIN printed : j # k => printed[j].pid # printed[k].pid
                    /\ \A k \in DOMAIN printed :
                         printed[k].pid \in steady /\ procs[printed[k].pid].words = 1 =>
                           printed[k].fields = <<"pid", "state", "utime", "stime">>
  BY DEF tups!ListsEveryProcess, Listed, Mine
<1>1. Listing /\ pc \notin AtProcess
  BY DEF ToolInv, ListInv, AtProcess
<1> QED BY <1>1 DEF Listing, PassedAreListed, OnlyMine, EachOnce, FieldsInPlace, AllPassed, Mine, Fields

-----------------------------------------------------------------------------
(***************************************************************************)
(* The directory lister: its invariant.                                    *)
(***************************************************************************)
Paths == Seq(STRING)

\* The first n names of a path.
Up(e, n) == SubSeq(e, 1, n)

Frames == [path : Paths, left : SUBSET Tree]
Lines == [turn : {1, 2}, path : Tree, depth : Nat]

TulsTypes ==
  /\ pc \in {"idle", "here", "argument", "list", "done", "failed", "crashed"}
  /\ turn \in {1, 2}
  /\ stack \in Seq(Frames)
  /\ output \in Seq(Lines)

\* So many directories lead from t to another that no more can be open.
TooDeep(t) == \E e \in TreeDirectories : Len(e) >= Len(t) + MaxDirs

\* Where the two listings begin and end.
Stages ==
  /\ pc \in {"idle", "here"} => output = <<>>
  /\ pc \in {"idle", "here", "argument"} => turn = 1
  /\ turn = 1 => top = tuls!Here
  /\ pc = "list" => /\ stack # <<>> /\ top \in TreeDirectories \cup {tuls!Here}
                    /\ top = tuls!Here => Len(stack) = 1
  /\ pc = "failed" => \/ locked # {} \/ (turn = 2 /\ top \notin TreeDirectories \cup {tuls!Here})
                      \/ TooDeep(top)
  /\ pc = "crashed" => turn = 2 /\ tuls!PathsOf(2) \cap TreeDirectories \cap TooLong # {}

\* The directories of a stack are each in the next, the last is t, and what is
\* left of a directory does not lead to those before it.
StackOK(s, t) ==
  \A d \in 1 .. Len(s) :
    /\ Len(s[d].path) = Len(t) + (Len(s) - d)
    /\ Up(s[d].path, Len(t)) = t
    /\ s[d].left \subseteq tuls!EntriesOf(s[d].path)
    /\ \A c \in 1 .. d - 1 :
         /\ Up(s[c].path, Len(s[d].path)) = s[d].path
         /\ Up(s[c].path, Len(s[d].path) + 1) \notin s[d].left

\* x is left in a directory of s, or below what is.
Pending(s, x) ==
  \E d \in 1 .. Len(s) :
    Len(x) > Len(s[d].path) /\ Up(x, Len(s[d].path) + 1) \in s[d].left

\* What there is to list.
Whole == IF top = tuls!Here THEN tuls!EntriesOf(tuls!Here) ELSE tuls!Below(top)

\* What is listed is what is not pending.
NothingMissed ==
  /\ pc = "list" => StackOK(stack, top)
  /\ pc = "list" => \A x \in Tree : x \in tuls!PathsOf(turn) <=> x \in Whole /\ ~Pending(stack, x)
  /\ pc \in {"argument", "done"} => tuls!PathsOf(turn) = Whole
  /\ turn = 1 => tuls!PathsOf(2) = {}
  /\ turn = 2 => tuls!PathsOf(1) = tuls!EntriesOf(tuls!Here)

EachLineOnce ==
  \A k, l \in 1 .. Len(output) :
    k # l /\ output[k].turn = output[l].turn => output[k].path # output[l].path

\* In the lines o, with t as the second listing: the last line before line k
\* that is indented less is that of the directory of line k.
InPlace(o, t, k) ==
  LET above == Up(o[k].path, Len(o[k].path) - 1)
  IN  IF o[k].depth = 0
      THEN above = IF o[k].turn = 1 THEN tuls!Here ELSE t
      ELSE \E j \in 1 .. k - 1 :
             /\ o[j].turn = o[k].turn /\ o[j].depth = o[k].depth - 1 /\ o[j].path = above
             /\ \A l \in j + 1 .. k - 1 : o[l].turn = o[k].turn => o[l].depth # o[k].depth - 1

LinesInPlace == \A k \in 1 .. Len(output) : InPlace(output, top, k)

\* Each directory tuls is in has its line, behind which all are indented more.
OpenLines ==
  pc = "list" =>
    \A d \in 1 .. Len(stack) - 1 :
      \E k \in 1 .. Len(output) :
        /\ output[k].turn = turn /\ output[k].path = stack[d].path
        /\ output[k].depth = Len(stack) - (d + 1)
        /\ \A l \in k + 1 .. Len(output) :
             output[l].turn = turn => output[l].depth > Len(stack) - (d + 1)

TulsInv ==
  TulsTypes /\ Stages /\ NothingMissed /\ EachLineOnce /\ LinesInPlace /\ OpenLines

-----------------------------------------------------------------------------
(***************************************************************************)
(* The directory lister: paths.                                            *)
(***************************************************************************)
LEMMA UpProperties ==
  ASSUME NEW e \in Paths
  PROVE  /\ Len(e) \in Nat /\ Up(e, Len(e)) = e /\ Up(e, 0) = <<>> /\ Len(<<>>) = 0
         /\ Len(e) = 0 => e = <<>>
         /\ \A n \in 0 .. Len(e) :
              /\ Up(e, n) \in Paths /\ Len(Up(e, n)) = n
              /\ \A m \in 0 .. n : Up(Up(e, n), m) = Up(e, m)
<1> USE DEF Paths, Up
<1>1. Len(e) \in Nat /\ (Len(e) = 0 => e = <<>>) /\ Len(<<>>) = 0
  BY LenProperties, EmptySeq
<1>2. Up(e, Len(e)) = e
  BY SubSeqFull
<1>3. \A f : Up(f, 0) = <<>>
  BY SubSeqEmpty
<1>4. ASSUME NEW n \in 0 .. Len(e)
      PROVE  /\ Up(e, n) \in Paths /\ Len(Up(e, n)) = n
             /\ \A m \in 0 .. n : Up(Up(e, n), m) = Up(e, m)
  <2>1. \A j \in 1 .. n : e[j] \in STRING
    BY <1>1, <1>4, ElementOfSeq
  <2>2. Up(e, n) \in Paths /\ Len(Up(e, n)) = n
    BY <1>1, <1>4, <2>1, SubSeqProperties
  <2>3. ASSUME NEW m \in 0 .. n
        PROVE  Up(Up(e, n), m) = Up(e, m)
    <3>1. CASE m = 0
      BY <1>3, <3>1
    <3>2. CASE m # 0
      <4>1. n \in 1 .. Len(e) /\ 1 \in 1 .. Len(e) /\ m \in 1 .. n - 1 + 1 /\ 1 \in 1 .. n - 1 + 1
        BY <1>1, <1>4, <3>2
      <4>2. SubSeq(SubSeq(e, 1, n), 1, m) = SubSeq(e, 1 + 1 - 1, 1 + m - 1)
        BY <4>1, SubSeqOfSubSeq
      <4>3. 1 + 1 - 1 = 1 /\ 1 + m - 1 = m
        BY <4>1
      <4> QED BY <4>2, <4>3
    <3> QED BY <3>1, <3>2
  <2> QED BY <2>2, <2>3
<1> QED BY <1>1, <1>2, <1>3, <1>4

\* What is in a directory, and what is below it.
LEMMA BelowEntries ==
  ASSUME tuls!ConstantsOK, NEW t \in Paths
  PROVE  /\ tuls!EntriesOf(t) \subseteq Tree /\ tuls!Below(t) \subseteq Tree
         /\ \A e \in tuls!EntriesOf(t) : e \in Paths /\ Len(e) = Len(t) + 1 /\ Up(e, Len(t)) = t
         /\ \A x \in Tree : x \in tuls!Below(t) <=>
              Len(x) > Len(t) /\ Up(x, Len(t) + 1) \in tuls!EntriesOf(t)
<1>1. tuls!EntriesOf(t) = {e \in Tree : Len(e) = Len(t) + 1 /\ Up(e, Len(t)) = t}
  BY DEF tuls!EntriesOf, Up
<1>2. tuls!Below(t) = {e \in Tree : Len(e) > Len(t) /\ Up(e, Len(t)) = t}
  BY DEF tuls!Below, Up
<1>3. Tree \subseteq Paths /\ Len(t) \in Nat
  BY UpProperties DEF tuls!ConstantsOK, Paths
<1>4. ASSUME NEW x \in Tree, Len(x) > Len(t)
      PROVE  Up(x, Len(t)) = t <=> Up(x, Len(t) + 1) \in tuls!EntriesOf(t)
  <2>1. /\ Len(x) \in Nat /\ Len(t) + 1 \in 0 .. Len(x) /\ Len(t) \in 0 .. Len(t) + 1
        /\ Len(t) + 1 \in 1 .. Len(x)
    BY <1>3, <1>4, UpProperties
  <2>2. Len(Up(x, Len(t) + 1)) = Len(t) + 1 /\ Up(Up(x, Len(t) + 1), Len(t)) = Up(x, Len(t))
    BY <1>3, <2>1, UpProperties
  <2>3. Up(x, Len(t) + 1) \in Tree
    <3>1. CASE Len(x) = Len(t) + 1
      BY <1>3, <3>1, UpProperties
    <3>2. CASE Len(x) # Len(t) + 1
      <4>1. Len(t) + 1 \in 1 .. Len(x) - 1
        BY <1>3, <2>1, <3>2
      <4> QED BY <4>1 DEF tuls!ConstantsOK, Up
    <3> QED BY <3>1, <3>2
  <2> QED BY <1>1, <2>2, <2>3
<1> QED BY <1>1, <1>2, <1>3, <1>4

\* e is x or leads to it.
LeadsTo(e, x) == Len(e) <= Len(x) /\ Up(x, Len(e)) = e

LEMMA LeadsToBelow ==
  ASSUME tuls!ConstantsOK, NEW e \in Tree, NEW x \in Tree
  PROVE  /\ LeadsTo(e, x) <=> x = e \/ x \in tuls!Below(e)
         /\ e \notin tuls!Below(e)
         /\ e \notin TreeDirectories => x \notin tuls!Below(e)
<1>1. e \in Paths /\ x \in Paths /\ Len(e) \in Nat /\ Len(x) \in Nat
  BY UpProperties DEF tuls!ConstantsOK, Paths
<1>2. \A y \in Tree : y \in tuls!Below(e) <=> Len(y) > Len(e) /\ Up(y, Len(e)) = e
  BY DEF tuls!Below, Up
<1>3. Up(x, Len(x)) = x /\ Up(e, Len(e)) = e
  BY <1>1, UpProperties
<1>4. ASSUME x \in tuls!Below(e)
      PROVE  e \in TreeDirectories
  <2>1. Len(x) > Len(e) /\ SubSeq(x, 1, Len(e)) = e
    BY <1>2, <1>4 DEF Up
  <2>2. Len(e) # 0
    BY <1>1, EmptySeq DEF tuls!ConstantsOK, tuls!Here
  <2>3. Len(e) \in 1 .. Len(x) - 1
    BY <1>1, <2>1, <2>2
  <2> QED BY <2>1, <2>3 DEF tuls!ConstantsOK
<1> QED BY <1>1, <1>2, <1>3, <1>4 DEF LeadsTo

-----------------------------------------------------------------------------
(***************************************************************************)
(* The directory lister: the directories it is in.                         *)
(***************************************************************************)
\* The stack with which the listing of t begins.
LEMMA FirstStack ==
  ASSUME tuls!ConstantsOK, NEW t \in Paths, NEW s, s = <<[path |-> t, left |-> tuls!EntriesOf(t)]>>
  PROVE  /\ s \in Seq(Frames) /\ Len(s) = 1 /\ StackOK(s, t)
         /\ \A x \in Tree : Pending(s, x) <=> x \in tuls!Below(t)
<1>1. s \in Seq(Frames) /\ Len(s) = 1 /\ s[1].path = t /\ s[1].left = tuls!EntriesOf(t)
  BY BelowEntries DEF Frames
<1>2. Len(t) \in Nat /\ Up(t, Len(t)) = t
  BY UpProperties
<1>3. StackOK(s, t)
  BY <1>1, <1>2 DEF StackOK
<1>4. \A x : Pending(s, x) <=> Len(x) > Len(t) /\ Up(x, Len(t) + 1) \in tuls!EntriesOf(t)
  BY <1>1 DEF Pending
<1> QED BY <1>1, <1>3, <1>4, BelowEntries

\* The stack when the entry e has been read, and when it has been opened.
Taken(s, e) == [s EXCEPT ![1].left = @ \ {e}]
Pushed(s, e) == <<[path |-> e, left |-> tuls!EntriesOf(e)]>> \o s

LEMMA FrameExcept ==
  ASSUME NEW g \in Frames, NEW x
  PROVE  [g EXCEPT !.left = x] = [path |-> g.path, left |-> x]
BY SMT DEF Frames

\* What reading an entry does to the stack.
LEMMA FirstWithout ==
  ASSUME NEW s \in Seq(Frames), s # <<>>, NEW e, NEW r, r = Taken(s, e)
  PROVE  /\ r \in Seq(Frames) /\ Len(r) = Len(s)
         /\ r[1].path = s[1].path /\ r[1].left = s[1].left \ {e}
         /\ \A d \in 2 .. Len(s) : r[d] = s[d]
<1>1. Len(s) \in Nat /\ 1 \in 1 .. Len(s)
  BY LenProperties, EmptySeq
<1>2. s[1] \in Frames
  BY <1>1, ElementOfSeq, Zenon
<1> DEFINE f == [path |-> s[1].path, left |-> s[1].left \ {e}]
<1>3. f \in Frames /\ f.path = s[1].path /\ f.left = s[1].left \ {e}
  BY <1>2 DEF Frames
<1>4. [s[1] EXCEPT !.left = s[1].left \ {e}] = f
  BY <1>2, FrameExcept, Zenon DEF f
<1>5. r = [s EXCEPT ![1] = f]
  BY <1>4, Zenon DEF Taken
<1> HIDE DEF f
<1>6. /\ r \in Seq(Frames) /\ Len(r) = Len(s)
      /\ \A d \in 1 .. Len(s) : r[d] = IF d = 1 THEN f ELSE s[d]
  BY ONLY <1>1, <1>3, <1>5, s \in Seq(Frames), ExceptSeq
<1> QED BY ONLY <1>1, <1>3, <1>6

\* An entry is read.
LEMMA EntryTaken ==
  ASSUME tuls!ConstantsOK, NEW t \in Paths, NEW s \in Seq(Frames), StackOK(s, t), s # <<>>,
         NEW e \in s[1].left, NEW r, Len(r) = Len(s), r[1].path = s[1].path, r[1].left = s[1].left \ {e},
         \A d \in 2 .. Len(s) : r[d] = s[d]
  PROVE  /\ StackOK(r, t) /\ \A d \in 1 .. Len(s) : r[d].path = s[d].path
         /\ e \in tuls!EntriesOf(s[1].path)
         /\ \A x \in Tree : Pending(r, x) <=> Pending(s, x) /\ ~LeadsTo(e, x)
         /\ \A x \in Tree : LeadsTo(e, x) => Pending(s, x)
<1>1. Len(s) \in Nat /\ 1 \in 1 .. Len(s) /\ s \in [1 .. Len(s) -> Frames]
  BY LenProperties, EmptySeq
<1>4. /\ r[1].path = s[1].path /\ r[1].left = s[1].left \ {e}
      /\ \A d \in 1 .. Len(s) : d # 1 => d \in 2 .. Len(s) /\ r[d] = s[d]
  BY <1>1
<1>5. \A d \in 1 .. Len(s) : r[d].path = s[d].path /\ r[d].left \subseteq s[d].left
  BY <1>4
<1>6. StackOK(r, t)
  <2> SUFFICES ASSUME NEW d \in 1 .. Len(r)
               PROVE  /\ Len(r[d].path) = Len(t) + (Len(r) - d)
                      /\ Up(r[d].path, Len(t)) = t
                      /\ r[d].left \subseteq tuls!EntriesOf(r[d].path)
                      /\ \A c \in 1 .. d - 1 :
                           /\ Up(r[c].path, Len(r[d].path)) = r[d].path
                           /\ Up(r[c].path, Len(r[d].path) + 1) \notin r[d].left
    BY DEF StackOK
  <2>1. \A c \in 1 .. d - 1 : c \in 1 .. Len(s)
    BY <1>1
  <2>2. d \in 1 .. Len(s) /\ r[d].path = s[d].path /\ r[d].left \subseteq s[d].left /\ Len(r) = Len(s)
    BY <1>5
  <2>3. \A c \in 1 .. d - 1 : r[c].path = s[c].path
    BY <1>5, <2>1
  <2> QED BY <2>2, <2>3 DEF StackOK
<1>7. /\ e \in Tree /\ e \in Paths /\ Len(e) = Len(s[1].path) + 1 /\ Up(e, Len(s[1].path)) = s[1].path
      /\ s[1].path \in Paths /\ Len(s[1].path) \in Nat /\ e \in tuls!EntriesOf(s[1].path)
  <2>1. s[1].path \in Paths /\ s[1].left \subseteq tuls!EntriesOf(s[1].path)
    BY <1>1 DEF StackOK, Frames
  <2> QED BY <2>1, BelowEntries, UpProperties
<1>8. ASSUME NEW x \in Tree, LeadsTo(e, x)
      PROVE  Pending(s, x) /\ ~Pending(r, x)
  <2>1. x \in Paths /\ Len(x) \in Nat /\ Len(e) \in 0 .. Len(x) /\ Up(x, Len(e)) = e
    BY <1>7, <1>8, UpProperties DEF LeadsTo, tuls!ConstantsOK, Paths
  <2>2. Pending(s, x)
    BY <1>1, <1>7, <2>1 DEF Pending
  <2>3. ASSUME NEW d \in 1 .. Len(s), Up(x, Len(s[d].path) + 1) \in r[d].left
        PROVE  FALSE
    <3>1. CASE d = 1
      BY <1>4, <1>7, <2>1, <2>3, <3>1
    <3>2. CASE d # 1
      <4>1. 1 \in 1 .. d - 1
        BY <1>1, <3>2
      <4>2. /\ Up(s[1].path, Len(s[d].path) + 1) \notin s[d].left
            /\ Len(s[d].path) = Len(t) + (Len(s) - d) /\ Len(s[1].path) = Len(t) + (Len(s) - 1)
        BY <1>1, <4>1 DEF StackOK
      <4>3. Len(t) \in Nat
        BY UpProperties
      <4> DEFINE m == Len(s[d].path) + 1
      <4>4. m \in 0 .. Len(s[1].path) /\ m \in 0 .. Len(e) /\ Len(s[1].path) \in 0 .. Len(e)
        BY <1>1, <1>7, <3>2, <4>2, <4>3
      <4> HIDE DEF m
      <4>5. Up(Up(x, Len(e)), m) = Up(x, m)
        BY <2>1, <4>4, UpProperties
      <4>6. Up(Up(e, Len(s[1].path)), m) = Up(e, m)
        BY <1>7, <4>4, UpProperties
      <4>7. Up(x, m) = Up(s[1].path, m)
        BY <1>7, <2>1, <4>5, <4>6
      <4> QED BY <1>5, <2>3, <4>2, <4>7 DEF m
    <3> QED BY <3>1, <3>2
  <2> QED BY <1>4, <2>2, <2>3 DEF Pending
<1>9. ASSUME NEW x \in Tree, ~LeadsTo(e, x)
      PROVE  Pending(r, x) <=> Pending(s, x)
  <2>1. Pending(r, x) => Pending(s, x)
    BY <1>4, <1>5 DEF Pending
  <2>2. ASSUME NEW d \in 1 .. Len(s), Len(x) > Len(s[d].path), Up(x, Len(s[d].path) + 1) \in s[d].left
        PROVE  Up(x, Len(s[d].path) + 1) \in r[d].left
    <3>1. CASE d = 1
      <4>1. Len(x) \in Nat
        BY UpProperties DEF tuls!ConstantsOK, Paths
      <4>2. Up(x, Len(e)) # e
        BY <1>7, <1>9, <2>2, <3>1, <4>1 DEF LeadsTo
      <4> QED BY <1>4, <1>7, <2>2, <3>1, <4>2
    <3>2. CASE d # 1
      BY <1>4, <2>2, <3>2
    <3> QED BY <3>1, <3>2
  <2> QED BY <1>4, <1>5, <2>1, <2>2 DEF Pending
<1> QED BY <1>4, <1>5, <1>6, <1>7, <1>8, <1>9

\* The directory e that was read is opened.
LEMMA StackPush ==
  ASSUME tuls!ConstantsOK, NEW t \in Paths, NEW s \in Seq(Frames), StackOK(s, t), s # <<>>,
         NEW e \in tuls!EntriesOf(s[1].path), e \notin s[1].left,
         NEW r, r = Pushed(s, e)
  PROVE  /\ r \in Seq(Frames) /\ Len(r) = Len(s) + 1 /\ r[1].path = e
         /\ \A d \in 1 .. Len(s) : r[d + 1] = s[d]
         /\ StackOK(r, t)
         /\ \A x \in Tree : Pending(r, x) <=> Pending(s, x) \/ x \in tuls!Below(e)
<1>1. Len(s) \in Nat /\ 1 \in 1 .. Len(s) /\ \A d \in 1 .. Len(s) : s[d] \in Frames
  BY LenProperties, EmptySeq, ElementOfSeq
<1>2. \A d \in 1 .. Len(s) : s[d].path \in Paths /\ Len(s[d].path) \in Nat
  BY <1>1, UpProperties DEF Frames
<1>3. /\ e \in Paths /\ Len(e) \in Nat /\ Len(e) = Len(s[1].path) + 1
      /\ Up(e, Len(e)) = e /\ Up(e, Len(s[1].path)) = s[1].path
  BY <1>1, <1>2, BelowEntries, UpProperties
<1> DEFINE f == [path |-> e, left |-> tuls!EntriesOf(e)]
           h == <<f>>
<1>4. f \in Frames /\ f.path = e /\ f.left = tuls!EntriesOf(e)
  BY <1>3, BelowEntries DEF Frames
<1> HIDE DEF f
<1>5. h \in Seq(Frames) /\ Len(h) = 1 /\ h[1] = f
  BY <1>4
<1>6. r = h \o s
  BY DEF f, Pushed
<1> HIDE DEF h
<1>7. /\ r \in Seq(Frames) /\ Len(r) = Len(s) + 1 /\ r[1] = f
      /\ \A d \in 1 .. Len(s) : r[d + 1] = s[d]
  <2>1. /\ r \in Seq(Frames) /\ Len(r) = 1 + Len(s)
        /\ \A d \in 1 .. 1 + Len(s) : r[d] = IF d <= 1 THEN h[d] ELSE s[d - 1]
    <3>1. h \o s \in Seq(Frames) /\ Len(h \o s) = Len(h) + Len(s)
      BY ONLY <1>5, s \in Seq(Frames), ConcatProperties
    <3>2. \A d \in 1 .. Len(h) + Len(s) : (h \o s)[d] = IF d <= Len(h) THEN h[d] ELSE s[d - Len(h)]
      BY ONLY <1>5, s \in Seq(Frames), ConcatProperties
    <3> QED BY ONLY <1>5, <1>6, <3>1, <3>2
  <2> QED BY <1>1, <1>5, <2>1
<1>8. \A d \in 2 .. Len(r) : d - 1 \in 1 .. Len(s) /\ r[d] = s[d - 1]
  BY <1>1, <1>7
<1>9. \A d \in 1 .. Len(s) : Len(s[d].path) = Len(t) + (Len(s) - d) /\ Len(s[d].path) <= Len(s[1].path)
  BY <1>1, UpProperties DEF StackOK
<1>10. ASSUME NEW n \in 0 .. Len(s[1].path)
       PROVE  Up(e, n) = Up(s[1].path, n)
  <2>1. Len(s[1].path) \in 0 .. Len(e) /\ n \in 0 .. Len(s[1].path)
    BY <1>1, <1>2, <1>3
  <2>2. Up(Up(e, Len(s[1].path)), n) = Up(e, n)
    BY <1>3, <2>1, UpProperties, Zenon
  <2> QED BY <1>3, <2>2
<1>11. ASSUME NEW d \in 1 .. Len(s)
       PROVE  Up(e, Len(s[d].path)) = s[d].path /\ Up(e, Len(s[d].path) + 1) \notin s[d].left
  <2>1. CASE d = 1
    BY <1>3, <2>1
  <2>2. CASE d # 1
    <3>1. 1 \in 1 .. d - 1 /\ Len(t) \in Nat
      BY <1>1, <2>2, UpProperties
    <3>2. Up(s[1].path, Len(s[d].path)) = s[d].path /\ Up(s[1].path, Len(s[d].path) + 1) \notin s[d].left
      BY <3>1 DEF StackOK
    <3>3. Len(s[d].path) \in 0 .. Len(s[1].path) /\ Len(s[d].path) + 1 \in 0 .. Len(s[1].path)
      <4>1. /\ Len(s[d].path) \in Nat /\ Len(s[1].path) \in Nat
            /\ Len(s[d].path) = Len(t) + (Len(s) - d) /\ Len(s[1].path) = Len(t) + (Len(s) - 1)
        BY <1>1, <1>2, <1>9
      <4>2. \A k, l, m, n \in Nat : d \in 1 .. m /\ k = n + (m - d) /\ l = n + (m - 1) => k \in 0 .. l /\ k + 1 \in 0 .. l
        BY <2>2
      <4> QED BY ONLY <1>1, <3>1, <4>1, <4>2, d \in 1 .. Len(s), Zenon
    <3> QED BY <1>10, <3>2, <3>3
  <2> QED BY <2>1, <2>2
<1>12. StackOK(r, t)
  <2> SUFFICES ASSUME NEW d \in 1 .. Len(r)
               PROVE  /\ Len(r[d].path) = Len(t) + (Len(r) - d)
                      /\ Up(r[d].path, Len(t)) = t
                      /\ r[d].left \subseteq tuls!EntriesOf(r[d].path)
                      /\ \A c \in 1 .. d - 1 :
                           /\ Up(r[c].path, Len(r[d].path)) = r[d].path
                           /\ Up(r[c].path, Len(r[d].path) + 1) \notin r[d].left
    BY DEF StackOK
  <2>1. Len(t) \in Nat
    BY UpProperties
  <2>2. CASE d = 1
    <3>1. Up(s[1].path, Len(t)) = t /\ Len(t) \in 0 .. Len(s[1].path)
      BY <1>1, <1>9, <2>1 DEF StackOK
    <3> QED BY <1>1, <1>3, <1>4, <1>7, <1>9, <1>10, <2>1, <2>2, <3>1
  <2>3. CASE d # 1
    <3> DEFINE b == d - 1
    <3>1. b \in 1 .. Len(s) /\ r[d] = s[b] /\ d = b + 1
      BY <1>1, <1>7, <1>8, <2>3
    <3> HIDE DEF b
    <3>2. /\ Len(s[b].path) = Len(t) + (Len(s) - b)
          /\ Up(s[b].path, Len(t)) = t
          /\ s[b].left \subseteq tuls!EntriesOf(s[b].path)
          /\ \A c \in 1 .. b - 1 :
               /\ Up(s[c].path, Len(s[b].path)) = s[b].path
               /\ Up(s[c].path, Len(s[b].path) + 1) \notin s[b].left
      BY <3>1 DEF StackOK
    <3>3. ASSUME NEW c \in 1 .. d - 1
          PROVE  /\ Up(r[c].path, Len(s[b].path)) = s[b].path
                 /\ Up(r[c].path, Len(s[b].path) + 1) \notin s[b].left
      <4>1. CASE c = 1
        BY <1>4, <1>7, <1>11, <3>1, <4>1
      <4>2. CASE c # 1
        <5>1. c \in Nat /\ d \in Nat /\ b \in Nat /\ c \in 1 .. d - 1 /\ d <= Len(r)
          BY <1>1, <1>7, <3>1
        <5>a. \A k, l, m, n \in Nat : k \in 1 .. l - 1 /\ k # 1 /\ l = m + 1 /\ l <= n =>
                k - 1 \in 1 .. m - 1 /\ k \in 2 .. n
          OBVIOUS
        <5>2. c - 1 \in 1 .. b - 1 /\ c \in 2 .. Len(r)
          BY ONLY <1>1, <1>7, <3>1, <4>2, <5>1, <5>a
        <5> QED BY <1>8, <3>2, <5>2
      <4> QED BY <4>1, <4>2
    <3>4. Len(s) - b = Len(r) - d
      BY ONLY <1>1, <1>7, <3>1, d \in 1 .. Len(r)
    <3> QED BY ONLY <3>1, <3>2, <3>3, <3>4
  <2> QED BY <2>2, <2>3
<1>13. ASSUME NEW x \in Tree
       PROVE  Pending(r, x) <=> Pending(s, x) \/ x \in tuls!Below(e)
  <2>1. x \in tuls!Below(e) <=> Len(x) > Len(r[1].path) /\ Up(x, Len(r[1].path) + 1) \in r[1].left
    BY <1>3, <1>4, <1>7, BelowEntries
  <2>2. ASSUME Pending(r, x), x \notin tuls!Below(e)
        PROVE  Pending(s, x)
    <3>1. PICK d \in 1 .. Len(r) : Len(x) > Len(r[d].path) /\ Up(x, Len(r[d].path) + 1) \in r[d].left
      BY <2>2 DEF Pending
    <3>2. d \in 2 .. Len(r)
      BY <1>1, <1>7, <2>1, <2>2, <3>1
    <3> QED BY <1>8, <3>1, <3>2 DEF Pending
  <2>3. ASSUME Pending(s, x)
        PROVE  Pending(r, x)
    <3>1. PICK d \in 1 .. Len(s) : Len(x) > Len(s[d].path) /\ Up(x, Len(s[d].path) + 1) \in s[d].left
      BY <2>3 DEF Pending
    <3>2. d + 1 \in 1 .. Len(r) /\ r[d + 1] = s[d]
      BY <1>1, <1>7
    <3> QED BY <3>1, <3>2 DEF Pending
  <2>4. 1 \in 1 .. Len(r)
    BY <1>1, <1>7
  <2> QED BY <2>1, <2>2, <2>3, <2>4 DEF Pending
<1> QED BY <1>4, <1>7, <1>12, <1>13

\* A directory with nothing left in it is closed.
LEMMA StackPop ==
  ASSUME NEW t \in Paths, NEW s \in Seq(Frames), StackOK(s, t), s # <<>>, s[1].left = {},
         NEW r, r = Tail(s)
  PROVE  /\ r \in Seq(Frames) /\ Len(r) = Len(s) - 1
         /\ \A d \in 1 .. Len(r) : r[d] = s[d + 1]
         /\ StackOK(r, t)
         /\ \A x : Pending(r, x) <=> Pending(s, x)
<1>1. Len(s) \in Nat /\ 1 \in 1 .. Len(s)
  BY LenProperties, EmptySeq
<1>2. r \in Seq(Frames) /\ Len(r) = Len(s) - 1 /\ \A d \in 1 .. Len(r) : r[d] = s[d + 1]
  BY HeadTailProperties
<1>3. \A d \in 1 .. Len(r) : d + 1 \in 1 .. Len(s) /\ Len(s) - (d + 1) = Len(r) - d
  BY <1>1, <1>2
<1>4. StackOK(r, t)
  <2> SUFFICES ASSUME NEW d \in 1 .. Len(r)
               PROVE  /\ Len(r[d].path) = Len(t) + (Len(r) - d)
                      /\ Up(r[d].path, Len(t)) = t
                      /\ r[d].left \subseteq tuls!EntriesOf(r[d].path)
                      /\ \A c \in 1 .. d - 1 :
                           /\ Up(r[c].path, Len(r[d].path)) = r[d].path
                           /\ Up(r[c].path, Len(r[d].path) + 1) \notin r[d].left
    BY DEF StackOK
  <2>1. \A c \in 1 .. d - 1 : c \in 1 .. Len(r) /\ c + 1 \in 1 .. (d + 1) - 1
    BY <1>1, <1>2
  <2> QED BY <1>2, <1>3, <2>1 DEF StackOK
<1>5. ASSUME NEW x
      PROVE  Pending(r, x) <=> Pending(s, x)
  <2>1. Pending(r, x) => Pending(s, x)
    BY <1>2, <1>3 DEF Pending
  <2>2. ASSUME NEW d \in 1 .. Len(s), Len(x) > Len(s[d].path), Up(x, Len(s[d].path) + 1) \in s[d].left
        PROVE  Pending(r, x)
    <3>1. d - 1 \in 1 .. Len(r) /\ (d - 1) + 1 = d
      BY <1>1, <1>2, <2>2
    <3>2. r[d - 1] = s[d]
      BY <1>2, <3>1
    <3> QED BY <2>2, <3>1, <3>2 DEF Pending
  <2> QED BY <2>1, <2>2 DEF Pending
<1> QED BY <1>2, <1>4, <1>5

-----------------------------------------------------------------------------
(***************************************************************************)
(* The directory lister: its steps.                                        *)
(***************************************************************************)
LEMMA OneMoreLine ==
  ASSUME output \in Seq(Lines), NEW l \in Lines, output' = Append(output, l)
  PROVE  /\ output' \in Seq(Lines) /\ Len(output) \in Nat /\ Len(output') = Len(output) + 1
         /\ output'[Len(output) + 1] = l
         /\ \A k \in 1 .. Len(output) : output'[k] = output[k] /\ output[k] \in Lines
         /\ \A t : tuls!PathsOf(t)' = tuls!PathsOf(t) \cup (IF l.turn = t THEN {l.path} ELSE {})
<1>1. /\ output' \in Seq(Lines) /\ Len(output) \in Nat /\ Len(output') = Len(output) + 1
      /\ output'[Len(output) + 1] = l
      /\ \A k \in 1 .. Len(output) : output'[k] = output[k]
  BY AppendProperties, LenProperties
<1>2. \A k \in 1 .. Len(output) : output[k] \in Lines
  BY ElementOfSeq
<1>3. DOMAIN output = 1 .. Len(output) /\ DOMAIN output' = 1 .. Len(output')
  BY <1>1, LenProperties
<1>4. 1 .. Len(output') = (1 .. Len(output)) \cup {Len(output) + 1}
  BY <1>1
<1>5. ASSUME NEW t
      PROVE  tuls!PathsOf(t)' = tuls!PathsOf(t) \cup (IF l.turn = t THEN {l.path} ELSE {})
  <2>1. tuls!PathsOf(t) = {output[k].path : k \in {j \in 1 .. Len(output) : output[j].turn = t}}
    BY <1>3 DEF tuls!PathsOf
  <2>2. tuls!PathsOf(t)' = {output'[k].path : k \in {j \in 1 .. Len(output') : output'[j].turn = t}}
    BY <1>3 DEF tuls!PathsOf
  <2>3. ASSUME NEW x \in tuls!PathsOf(t)'
        PROVE  x \in tuls!PathsOf(t) \/ (l.turn = t /\ x = l.path)
    BY <1>1, <1>4, <2>1, <2>2
  <2>4. ASSUME NEW x \in tuls!PathsOf(t)
        PROVE  x \in tuls!PathsOf(t)'
    BY <1>1, <1>4, <2>1, <2>2
  <2>5. ASSUME l.turn = t
        PROVE  l.path \in tuls!PathsOf(t)'
    BY <1>1, <1>4, <2>2, <2>5
  <2> QED BY <2>3, <2>4, <2>5
<1> QED BY <1>1, <1>2, <1>5

\* The paths in the output.
LEMMA OutputPaths ==
  ASSUME output \in Seq(Lines), NEW t
  PROVE  /\ tuls!PathsOf(t) \subseteq Tree
         /\ \A x : x \in tuls!PathsOf(t) <=>
              \E k \in 1 .. Len(output) : output[k].turn = t /\ output[k].path = x
<1>1. DOMAIN output = 1 .. Len(output)
  BY LenProperties
<1>a. \A k \in 1 .. Len(output) : output[k] \in Lines
  BY ElementOfSeq
<1>2. \A k \in 1 .. Len(output) : output[k].path \in Tree
  BY <1>a DEF Lines
<1>3. tuls!PathsOf(t) = {output[k].path : k \in {j \in 1 .. Len(output) : output[j].turn = t}}
  BY <1>1 DEF tuls!PathsOf
<1> QED BY <1>2, <1>3

LEMMA InPlaceBefore ==
  ASSUME NEW o, NEW u, NEW t, NEW k \in Nat, k # 0, \A j \in 1 .. k : u[j] = o[j], InPlace(o, t, k)
  PROVE  InPlace(u, t, k)
<1>1. k \in 1 .. k /\ u[k] = o[k]
  OBVIOUS
<1>2. CASE o[k].depth = 0
  BY ONLY InPlace(o, t, k), <1>1, <1>2 DEF InPlace
<1>3. CASE o[k].depth # 0
  <2>1. PICK j \in 1 .. k - 1 :
          /\ o[j].turn = o[k].turn /\ o[j].depth = o[k].depth - 1
          /\ o[j].path = Up(o[k].path, Len(o[k].path) - 1)
          /\ \A l \in j + 1 .. k - 1 : o[l].turn = o[k].turn => o[l].depth # o[k].depth - 1
    BY <1>3 DEF InPlace
  <2>2. u[j] = o[j] /\ \A l \in j + 1 .. k - 1 : u[l] = o[l]
    OBVIOUS
  <2> QED BY <1>1, <1>3, <2>1, <2>2 DEF InPlace
<1> QED BY <1>2, <1>3

LEMMA InitTulsInv == tuls!Init => TulsInv
<1> SUFFICES ASSUME tuls!Init PROVE TulsInv
  OBVIOUS
<1>1. /\ pc = "idle" /\ turn = 1 /\ top = tuls!Here /\ stack = <<>> /\ output = <<>>
  BY DEF tuls!Init
<1>2. TulsTypes /\ Stages
  BY <1>1 DEF TulsTypes, Stages
<1>3. Len(output) = 0
  BY <1>1
<1>4. tuls!PathsOf(2) = {}
  <2>1. DOMAIN output = {}
    BY <1>1
  <2> QED BY <2>1 DEF tuls!PathsOf
<1>5. NothingMissed
  BY <1>1, <1>4 DEF NothingMissed
<1>6. EachLineOnce /\ LinesInPlace /\ OpenLines
  BY <1>1, <1>3 DEF EachLineOnce, LinesInPlace, OpenLines
<1> QED BY <1>2, <1>5, <1>6 DEF TulsInv

\* A listing begins.
LEMMA ListingBegins ==
  ASSUME tuls!ConstantsOK, TulsInv, tuls!Opens(top', <<>>), UNCHANGED <<locked, output>>,
         turn' \in {1, 2}, turn' = 1 => top' = tuls!Here,
         tuls!PathsOf(turn') = {}, tuls!PathsOf(2) = {},
         turn' = 2 => tuls!PathsOf(1) = tuls!EntriesOf(tuls!Here)
  PROVE  TulsInv'
<1>1. output \in Seq(Lines) /\ output' = output /\ locked' = locked
  BY DEF TulsInv, TulsTypes
<1>2. \A t : tuls!PathsOf(t)' = tuls!PathsOf(t)
  BY <1>1 DEF tuls!PathsOf
<1>3. EachLineOnce'
  BY <1>1 DEF TulsInv, EachLineOnce
<1>4. LinesInPlace'
  <2>1. \A k \in 1 .. Len(output) : output[k].turn # 2
    <3> SUFFICES ASSUME NEW k \in 1 .. Len(output), output[k].turn = 2 PROVE FALSE
      OBVIOUS
    <3>1. \A x : x \in tuls!PathsOf(2) <=>
            \E j \in 1 .. Len(output) : output[j].turn = 2 /\ output[j].path = x
      BY <1>1, OutputPaths
    <3>2. output[k].path \in tuls!PathsOf(2)
      BY <3>1
    <3> QED BY <3>2
  <2>2. ASSUME NEW k \in 1 .. Len(output)
        PROVE  InPlace(output, top', k)
    <3>1. output[k].turn = 1
      <4>1. output[k] \in Lines
        BY <1>1, ElementOfSeq
      <4>2. output[k].turn \in {1, 2}
        BY <4>1 DEF Lines
      <4> QED BY <2>1, <4>2
    <3>2. InPlace(output, top, k)
      BY DEF TulsInv, LinesInPlace
    <3> QED BY <3>1, <3>2 DEF InPlace
  <2> QED BY <1>1, <2>2 DEF LinesInPlace
<1> DEFINE none == <<>>
<1>a. Len(none) = 0 /\ Len(none) < MaxDirs
  BY DEF tuls!ConstantsOK
<1>b. \/ top' \in (TreeDirectories \cup {tuls!Here}) \ locked /\ pc' = "list"
         /\ stack' = <<[path |-> top', left |-> tuls!EntriesOf(top')]>> \o none
      \/ top' \notin (TreeDirectories \cup {tuls!Here}) \ locked /\ pc' = "failed" /\ stack' = none
  BY <1>a, Zenon DEF tuls!Opens
<1>5. CASE top' \notin (TreeDirectories \cup {tuls!Here}) \ locked
  <2>1. pc' = "failed" /\ stack' = <<>>
    BY <1>5, <1>b
  <2>2. TulsTypes'
    BY <1>1, <2>1 DEF TulsTypes
  <2>3. Stages'
    BY <1>1, <1>5, <2>1 DEF Stages
  <2>4. NothingMissed' /\ OpenLines'
    BY <1>2, <2>1 DEF NothingMissed, OpenLines
  <2> QED BY <1>3, <1>4, <2>2, <2>3, <2>4 DEF TulsInv
<1>6. CASE top' \in (TreeDirectories \cup {tuls!Here}) \ locked
  <2> DEFINE s == <<[path |-> top', left |-> tuls!EntriesOf(top')]>>
  <2>1. top' \in Paths
    <3>1. tuls!Here \in Paths
      BY EmptySeq DEF Paths, tuls!Here
    <3> QED BY <1>6, <3>1 DEF tuls!ConstantsOK, Paths
  <2>2. /\ s \in Seq(Frames) /\ Len(s) = 1 /\ StackOK(s, top')
        /\ \A x \in Tree : Pending(s, x) <=> x \in tuls!Below(top')
    BY <2>1, FirstStack
  <2>3. pc' = "list" /\ stack' = s \o <<>>
    BY <1>6, <1>b
  <2> HIDE DEF s
  <2>4. stack' = s
    BY <2>2, <2>3, ConcatEmptySeq
  <2>5. TulsTypes'
    BY <1>1, <2>2, <2>3, <2>4 DEF TulsTypes
  <2>6. Stages'
    BY <1>6, <2>2, <2>3, <2>4 DEF Stages
  <2>7. \A x \in Tree : ~(x \in Whole' /\ ~Pending(s, x))
    <3>1. Whole' = IF top' = tuls!Here THEN tuls!EntriesOf(tuls!Here) ELSE tuls!Below(top')
      BY DEF Whole
    <3>2. tuls!EntriesOf(top') \subseteq tuls!Below(top')
      <4>1. Len(top') \in Nat
        BY <2>1, UpProperties
      <4> QED BY <4>1 DEF tuls!EntriesOf, tuls!Below
    <3> QED BY <2>2, <3>1, <3>2
  <2>8. NothingMissed'
    <3>1. tuls!PathsOf(turn)' = {}
      BY <1>1 DEF tuls!PathsOf
    <3>2. (StackOK(stack, top))'
      BY <2>2, <2>4
    <3>3. (\A x \in Tree : x \in tuls!PathsOf(turn) <=> x \in Whole /\ ~Pending(stack, x))'
      BY <2>4, <2>7, <3>1
    <3>4. (turn = 1 => tuls!PathsOf(2) = {})' /\ (turn = 2 => tuls!PathsOf(1) = tuls!EntriesOf(tuls!Here))'
      BY <1>2
    <3> QED BY <2>3, <3>2, <3>3, <3>4 DEF NothingMissed
  <2>9. OpenLines'
    <3>1. Len(stack') = 1
      BY <2>2, <2>4
    <3>2. \A d \in 1 .. Len(stack') - 1 : FALSE
      BY ONLY <3>1
    <3> QED BY <3>2 DEF OpenLines
  <2> QED BY <1>3, <1>4, <2>5, <2>6, <2>8, <2>9 DEF TulsInv
<1> QED BY <1>5, <1>6

\* A directory comes to its end.
LEMMA EndTulsInv ==
  ASSUME tuls!ConstantsOK, TulsInv, tuls!EndOfDirectory
  PROVE  TulsInv'
<1>1. /\ pc = "list" /\ stack[1].left = {} /\ stack' = Tail(stack)
      /\ pc' = IF stack' # <<>> THEN "list"
               ELSE IF turn = 1 /\ Len(args) = 1 THEN "argument" ELSE "done"
      /\ output' = output /\ top' = top /\ turn' = turn /\ locked' = locked
  BY DEF tuls!EndOfDirectory
<1>2. /\ output \in Seq(Lines) /\ stack \in Seq(Frames) /\ turn \in {1, 2}
      /\ stack # <<>> /\ top \in Paths /\ StackOK(stack, top)
  <2>1. tuls!Here \in Paths
    BY EmptySeq DEF Paths, tuls!Here
  <2> QED BY <1>1, <2>1 DEF TulsInv, TulsTypes, Stages, NothingMissed, tuls!ConstantsOK, Paths
<1>3. /\ stack' \in Seq(Frames) /\ Len(stack') = Len(stack) - 1 /\ Len(stack) \in Nat
      /\ \A d \in 1 .. Len(stack') : stack'[d] = stack[d + 1]
      /\ StackOK(stack', top)
      /\ \A x : Pending(stack', x) <=> Pending(stack, x)
  <2> DEFINE r == stack'
  <2>1. r = Tail(stack) /\ Len(stack) \in Nat
    BY <1>1, <1>2, LenProperties
  <2> HIDE DEF r
  <2>2. /\ r \in Seq(Frames) /\ Len(r) = Len(stack) - 1
        /\ \A d \in 1 .. Len(r) : r[d] = stack[d + 1]
        /\ StackOK(r, top)
        /\ \A x : Pending(r, x) <=> Pending(stack, x)
    <3>1. top \in Paths /\ stack \in Seq(Frames) /\ StackOK(stack, top) /\ stack # <<>> /\ stack[1].left = {}
      BY <1>1, <1>2
    <3>2. r \in Seq(Frames)
      BY ONLY <2>1, <3>1, StackPop
    <3>3. Len(r) = Len(stack) - 1
      BY ONLY <2>1, <3>1, StackPop
    <3>4. \A d \in 1 .. Len(r) : r[d] = stack[d + 1]
      BY ONLY <2>1, <3>1, StackPop
    <3>5. StackOK(r, top)
      BY ONLY <2>1, <3>1, StackPop
    <3>6. \A x : Pending(r, x) <=> Pending(stack, x)
      BY ONLY <2>1, <3>1, StackPop
    <3> QED BY <3>2, <3>3, <3>4, <3>5, <3>6
  <2> QED BY <2>1, <2>2 DEF r
<1>4. /\ \A t : tuls!PathsOf(t)' = tuls!PathsOf(t)
      /\ tuls!PathsOf(turn)' = tuls!PathsOf(turn)
  BY <1>1 DEF tuls!PathsOf
<1>5. EachLineOnce' /\ LinesInPlace'
  <2>1. EachLineOnce'
    BY <1>1 DEF TulsInv, EachLineOnce
  <2> QED BY <1>1, <2>1 DEF TulsInv, LinesInPlace
<1>6. TulsTypes'
  BY <1>1, <1>2, <1>3 DEF TulsTypes
<1>7. Stages'
  <2>1. stack' # <<>> => Len(stack') # 0
    BY <1>3, EmptySeq
  <2> QED BY <1>1, <1>3, <2>1 DEF TulsInv, Stages
<1>8. NothingMissed'
  <2>1. Whole' = Whole /\ Whole \subseteq Tree
    BY <1>1 DEF Whole, tuls!EntriesOf, tuls!Below
  <2>2. \A x \in Tree : x \in tuls!PathsOf(turn)' <=> x \in Whole' /\ ~Pending(stack', x)
    BY <1>1, <1>3, <1>4, <2>1 DEF TulsInv, NothingMissed
  <2>3. stack' = <<>> => tuls!PathsOf(turn) = Whole
    <3> SUFFICES ASSUME stack' = <<>> PROVE tuls!PathsOf(turn) = Whole
      OBVIOUS
    <3>1. \A x : ~Pending(stack', x)
      <4>1. Len(stack') = 0
        OBVIOUS
      <4> QED BY <4>1 DEF Pending
    <3>2. tuls!PathsOf(turn) \subseteq Tree
      BY <1>2, OutputPaths
    <3> QED BY <1>4, <2>1, <2>2, <3>1, <3>2
  <2> QED BY <1>1, <1>3, <1>4, <2>1, <2>2, <2>3 DEF TulsInv, NothingMissed
<1>9. OpenLines'
  <2> SUFFICES ASSUME pc' = "list", NEW d \in 1 .. Len(stack') - 1
               PROVE  \E k \in 1 .. Len(output) :
                        /\ output[k].turn = turn /\ output[k].path = stack'[d].path
                        /\ output[k].depth = Len(stack') - (d + 1)
                        /\ \A l \in k + 1 .. Len(output) :
                             output[l].turn = turn => output[l].depth > Len(stack') - (d + 1)
    BY <1>1 DEF OpenLines
  <2>1. /\ d + 1 \in 1 .. Len(stack) - 1 /\ d \in 1 .. Len(stack')
        /\ Len(stack) - ((d + 1) + 1) = Len(stack') - (d + 1)
    BY <1>3
  <2>2. \E k \in 1 .. Len(output) :
          /\ output[k].turn = turn /\ output[k].path = stack[d + 1].path
          /\ output[k].depth = Len(stack) - ((d + 1) + 1)
          /\ \A l \in k + 1 .. Len(output) :
               output[l].turn = turn => output[l].depth > Len(stack) - ((d + 1) + 1)
    BY <1>1, <2>1 DEF TulsInv, OpenLines
  <2> QED BY <1>3, <2>1, <2>2
<1> QED BY <1>5, <1>6, <1>7, <1>8, <1>9 DEF TulsInv

\* A line is printed for an entry of the innermost directory: what is true of
\* the output then, whatever becomes of the stack.
LEMMA LinePrinted ==
  ASSUME TulsInv, pc = "list", NEW e \in tuls!EntriesOf(stack[1].path), e \notin tuls!PathsOf(turn),
         output' = Append(output, tuls!Line(e)), UNCHANGED <<turn, top>>,
         tuls!ConstantsOK
  PROVE  /\ output' \in Seq(Lines)
         /\ \A t : tuls!PathsOf(t)' = tuls!PathsOf(t) \cup (IF t = turn THEN {e} ELSE {})
         /\ tuls!PathsOf(turn)' = tuls!PathsOf(turn) \cup {e}
         /\ EachLineOnce' /\ LinesInPlace'
         /\ \A d \in 1 .. Len(stack) - 1 :
              \E k \in 1 .. Len(output') :
                /\ output'[k].turn = turn /\ output'[k].path = stack[d].path
                /\ output'[k].depth = Len(stack) - (d + 1)
                /\ \A l \in k + 1 .. Len(output') :
                     output'[l].turn = turn => output'[l].depth > Len(stack) - (d + 1)
         /\ \E k \in 1 .. Len(output') :
              /\ output'[k].turn = turn /\ output'[k].path = e /\ output'[k].depth = Len(stack) - 1
              /\ \A l \in k + 1 .. Len(output') : FALSE
<1>1. /\ output \in Seq(Lines) /\ stack \in Seq(Frames) /\ turn \in {1, 2} /\ turn' = turn /\ top' = top
      /\ stack # <<>> /\ StackOK(stack, top) /\ top \in Paths
  <2>1. tuls!Here \in Paths
    BY EmptySeq DEF Paths, tuls!Here
  <2> QED BY <2>1 DEF TulsInv, TulsTypes, Stages, NothingMissed, tuls!ConstantsOK, Paths
<1>2. Len(stack) \in Nat /\ 1 \in 1 .. Len(stack) /\ stack[1] \in Frames
  BY <1>1, LenProperties, EmptySeq, ElementOfSeq
<1>3. stack[1].path \in Paths
  BY <1>2 DEF Frames
<1>4. /\ e \in Tree /\ e \in Paths /\ Len(e) = Len(stack[1].path) + 1
      /\ Up(e, Len(stack[1].path)) = stack[1].path /\ Len(stack[1].path) \in Nat
  BY <1>3, BelowEntries, UpProperties
<1> DEFINE p == [turn |-> turn, path |-> e, depth |-> Len(stack) - 1]
           n == Len(output)
<1>5. p \in Lines /\ p.turn = turn /\ p.path = e /\ p.depth = Len(stack) - 1 /\ p.depth \in Nat
  BY <1>1, <1>2, <1>4 DEF Lines
<1>6. output' = Append(output, p)
  BY DEF tuls!Line
<1> HIDE DEF p, n
<1>7. /\ output' \in Seq(Lines) /\ n \in Nat /\ Len(output') = n + 1 /\ output'[n + 1] = p
      /\ \A k \in 1 .. n : output'[k] = output[k] /\ output[k] \in Lines
      /\ \A t : tuls!PathsOf(t)' = tuls!PathsOf(t) \cup (IF p.turn = t THEN {p.path} ELSE {})
  BY <1>1, <1>5, <1>6, OneMoreLine DEF n
<1>8. 1 .. n + 1 = (1 .. n) \cup {n + 1} /\ \A k \in 1 .. n : k # n + 1
  BY <1>7
<1>9. /\ \A t : tuls!PathsOf(t)' = tuls!PathsOf(t) \cup (IF t = turn THEN {e} ELSE {})
      /\ tuls!PathsOf(turn)' = tuls!PathsOf(turn) \cup {e}
  <2>1. \A t : tuls!PathsOf(t)' = tuls!PathsOf(t) \cup (IF t = turn THEN {e} ELSE {})
    BY <1>5, <1>7
  <2>2. tuls!PathsOf(turn)' = tuls!PathsOf(turn) \cup {e}
    BY <1>1, <2>1
  <2> QED BY <2>1, <2>2
<1>10. EachLineOnce'
  <2>1. \A k \in 1 .. n : output[k].turn = turn => output[k].path # e
    BY <1>1, OutputPaths DEF n
  <2>2. \A k, l \in 1 .. n : k # l /\ output[k].turn = output[l].turn => output[k].path # output[l].path
    BY DEF TulsInv, EachLineOnce, n
  <2>3. \A k, l \in 1 .. n + 1 : k # l /\ output'[k].turn = output'[l].turn => output'[k].path # output'[l].path
    BY <1>5, <1>7, <1>8, <2>1, <2>2
  <2> QED BY <1>7, <2>3 DEF EachLineOnce
<1>11. Len(stack) = 1 => stack[1].path = top
  <2>1. Len(stack[1].path) = Len(top) + (Len(stack) - 1) /\ Up(stack[1].path, Len(top)) = top /\ Len(top) \in Nat
    BY <1>1, <1>2, UpProperties DEF StackOK
  <2>2. Up(stack[1].path, Len(stack[1].path)) = stack[1].path
    BY <1>3, UpProperties
  <2> QED BY <2>1, <2>2
<1>12. \A d \in 1 .. Len(stack) - 1 :
         \E k \in 1 .. n :
           /\ output[k].turn = turn /\ output[k].path = stack[d].path
           /\ output[k].depth = Len(stack) - (d + 1)
           /\ \A l \in k + 1 .. n :
                output[l].turn = turn => output[l].depth > Len(stack) - (d + 1)
  BY DEF TulsInv, OpenLines, n
<1>13. LinesInPlace'
  <2>1. ASSUME NEW k \in 1 .. n
        PROVE  InPlace(output', top, k)
    <3>1. InPlace(output, top, k)
      BY DEF TulsInv, LinesInPlace, n
    <3>2. k \in Nat /\ k # 0 /\ \A j \in 1 .. k : output'[j] = output[j]
      BY <1>7
    <3> QED BY <3>1, <3>2, InPlaceBefore
  <2>2. Up(e, Len(e) - 1) = stack[1].path
    BY <1>4
  <2>3. CASE Len(stack) = 1
    <3>1. turn = 1 => top = tuls!Here
      BY DEF TulsInv, Stages
    <3>2. InPlace(output', top, n + 1)
      BY <1>1, <1>5, <1>7, <1>11, <2>2, <2>3, <3>1 DEF InPlace
    <3> QED BY <1>1, <1>7, <1>8, <2>1, <3>2 DEF LinesInPlace
  <2>4. CASE Len(stack) # 1
    <3>1. 1 \in 1 .. Len(stack) - 1 /\ p.depth # 0 /\ p.depth - 1 = Len(stack) - (1 + 1)
      <4>1. \A m \in Nat : 1 \in 1 .. m /\ m # 1 => 1 \in 1 .. m - 1 /\ m - 1 # 0 /\ (m - 1) - 1 = m - (1 + 1)
        OBVIOUS
      <4> QED BY ONLY <1>2, <1>5, <2>4, <4>1
    <3>2. PICK j \in 1 .. n :
            /\ output[j].turn = turn /\ output[j].path = stack[1].path
            /\ output[j].depth = Len(stack) - (1 + 1)
            /\ \A l \in j + 1 .. n :
                 output[l].turn = turn => output[l].depth > Len(stack) - (1 + 1)
      BY <1>12, <3>1
    <3>3. j \in 1 .. (n + 1) - 1 /\ \A l \in j + 1 .. (n + 1) - 1 : l \in j + 1 .. n /\ l \in 1 .. n
      BY <1>7
    <3>4. \A l \in j + 1 .. (n + 1) - 1 : output'[l].turn = turn => output'[l].depth # p.depth - 1
      <4>1. \A l \in 1 .. n : output[l].depth \in Nat
        BY <1>7 DEF Lines
      <4> QED BY <1>2, <1>7, <3>1, <3>2, <3>3, <4>1
    <3>5. InPlace(output', top, n + 1)
      <4> DEFINE m == n + 1
      <4>1. output'[m] = p /\ output'[j] = output[j] /\ j \in 1 .. m - 1
        BY <1>7, <3>3
      <4>2. \A l \in j + 1 .. m - 1 : output'[l].turn = turn => output'[l].depth # p.depth - 1
        BY <3>4
      <4> HIDE DEF m
      <4>3. InPlace(output', top, m)
        <5> DEFINE o == output'
        <5>1. /\ o[m].depth # 0 /\ o[m].turn = turn
              /\ o[j].turn = o[m].turn /\ o[j].depth = o[m].depth - 1
              /\ o[j].path = Up(o[m].path, Len(o[m].path) - 1)
          BY <1>5, <2>2, <3>1, <3>2, <4>1
        <5>2. \A l \in j + 1 .. m - 1 : o[l].turn = o[m].turn => o[l].depth # o[m].depth - 1
          BY <4>1, <4>2, <5>1
        <5> HIDE DEF o
        <5>3. InPlace(o, top, m)
          BY ONLY <4>1, <5>1, <5>2 DEF InPlace
        <5> QED BY <5>3 DEF o
      <4> QED BY <4>3 DEF m
    <3> QED BY <1>1, <1>7, <1>8, <2>1, <3>5 DEF LinesInPlace
  <2> QED BY <2>3, <2>4
<1>14. ASSUME NEW d \in 1 .. Len(stack) - 1
       PROVE  \E k \in 1 .. Len(output') :
                /\ output'[k].turn = turn /\ output'[k].path = stack[d].path
                /\ output'[k].depth = Len(stack) - (d + 1)
                /\ \A l \in k + 1 .. Len(output') :
                     output'[l].turn = turn => output'[l].depth > Len(stack) - (d + 1)
  <2>1. PICK k \in 1 .. n :
          /\ output[k].turn = turn /\ output[k].path = stack[d].path
          /\ output[k].depth = Len(stack) - (d + 1)
          /\ \A l \in k + 1 .. n : output[l].turn = turn => output[l].depth > Len(stack) - (d + 1)
    BY <1>12
  <2>2. p.depth > Len(stack) - (d + 1)
    BY <1>2, <1>5
  <2>3. \A l \in k + 1 .. n + 1 : l = n + 1 \/ (l \in k + 1 .. n /\ l \in 1 .. n)
    BY <1>7
  <2>4. \A l \in k + 1 .. n + 1 : output'[l].turn = turn => output'[l].depth > Len(stack) - (d + 1)
    BY <1>7, <2>1, <2>2, <2>3
  <2>5. k \in 1 .. n + 1
    BY <1>8
  <2> QED BY <1>7, <2>1, <2>4, <2>5
<1>15. /\ n + 1 \in 1 .. Len(output') /\ output'[n + 1].turn = turn /\ output'[n + 1].path = e
       /\ output'[n + 1].depth = Len(stack) - 1
       /\ \A l \in (n + 1) + 1 .. Len(output') : FALSE
  BY <1>5, <1>7
<1> QED BY <1>7, <1>9, <1>10, <1>13, <1>14, <1>15

\* An entry is read, its line is printed, and if it is a directory to go into,
\* that is opened.
LEMMA ReadTulsInv ==
  ASSUME tuls!ConstantsOK, TulsInv, tuls!ReadEntry
  PROVE  TulsInv'
<1>a. PICK e \in stack[1].left :
        /\ output' = Append(output, tuls!Line(e))
        /\ IF e \in TreeDirectories /\ top # tuls!Here THEN tuls!Opens(e, Taken(stack, e))
           ELSE stack' = Taken(stack, e) /\ UNCHANGED pc
  BY Zenon DEF tuls!ReadEntry, Taken
<1> DEFINE rest == Taken(stack, e)
<1>1. /\ rest = Taken(stack, e) /\ e \in stack[1].left
      /\ output' = Append(output, tuls!Line(e))
      /\ IF e \in TreeDirectories /\ top # tuls!Here THEN tuls!Opens(e, rest)
         ELSE stack' = rest /\ UNCHANGED pc
  BY <1>a, Zenon
<1> HIDE DEF rest
<1>2. /\ pc = "list" /\ stack \in Seq(Frames) /\ stack # <<>> /\ StackOK(stack, top)
      /\ top \in Paths /\ turn \in {1, 2}
      /\ top' = top /\ turn' = turn /\ locked' = locked
  <2>1. tuls!Here \in Paths
    BY EmptySeq DEF Paths, tuls!Here
  <2> QED BY <2>1 DEF tuls!ReadEntry, TulsInv, TulsTypes, Stages, NothingMissed, tuls!ConstantsOK, Paths
<1>3. /\ rest \in Seq(Frames) /\ Len(rest) = Len(stack)
      /\ rest[1].path = stack[1].path /\ rest[1].left = stack[1].left \ {e}
      /\ \A d \in 2 .. Len(stack) : rest[d] = stack[d]
  BY ONLY <1>1, <1>2, FirstWithout
<1>4. /\ StackOK(rest, top) /\ \A d \in 1 .. Len(stack) : rest[d].path = stack[d].path
      /\ e \in tuls!EntriesOf(stack[1].path)
      /\ \A x \in Tree : Pending(rest, x) <=> Pending(stack, x) /\ ~LeadsTo(e, x)
      /\ \A x \in Tree : LeadsTo(e, x) => Pending(stack, x)
  BY ONLY tuls!ConstantsOK, <1>2, <1>3, EntryTaken
<1>5. Len(stack) \in Nat /\ 1 \in 1 .. Len(stack) /\ stack[1] \in Frames /\ rest # <<>>
  BY <1>2, <1>3, LenProperties, EmptySeq, ElementOfSeq
<1>6. /\ e \in Tree /\ e \in Paths /\ stack[1].path \in Paths
      /\ Len(e) = Len(stack[1].path) + 1 /\ Up(e, Len(stack[1].path)) = stack[1].path
      /\ Len(stack[1].path) \in Nat
  <2>1. stack[1].path \in Paths
    BY <1>5 DEF Frames
  <2> QED BY <1>4, <2>1, BelowEntries, UpProperties
<1>7. e \in Whole
  <2>1. /\ Len(stack[1].path) = Len(top) + (Len(stack) - 1) /\ Up(stack[1].path, Len(top)) = top
        /\ Len(top) \in Nat
    BY <1>2, <1>5, UpProperties DEF StackOK
  <2>2. CASE top = tuls!Here
    <3>1. Len(stack) = 1
      BY <1>2, <2>2 DEF TulsInv, Stages
    <3>2. stack[1].path = top
      BY <1>6, <2>1, <3>1, UpProperties
    <3> QED BY <1>4, <2>2, <3>2 DEF Whole
  <2>3. CASE top # tuls!Here
    <3>1. Len(e) > Len(top) /\ Len(top) \in 0 .. Len(stack[1].path) /\ Len(stack[1].path) \in 0 .. Len(e)
      BY <1>5, <1>6, <2>1
    <3>2. Up(e, Len(top)) = top
      BY <1>6, <2>1, <3>1, UpProperties
    <3> QED BY <1>6, <2>3, <3>1, <3>2 DEF Whole, tuls!Below, Up
  <2> QED BY <2>2, <2>3
<1>8. e \notin tuls!PathsOf(turn) /\ Pending(stack, e)
  BY <1>2, <1>4, <1>6, LeadsToBelow DEF TulsInv, NothingMissed
<1>9. /\ output' \in Seq(Lines)
      /\ \A t : tuls!PathsOf(t)' = tuls!PathsOf(t) \cup (IF t = turn THEN {e} ELSE {})
      /\ tuls!PathsOf(turn)' = tuls!PathsOf(turn) \cup {e}
      /\ EachLineOnce' /\ LinesInPlace'
      /\ \A d \in 1 .. Len(stack) - 1 :
           \E k \in 1 .. Len(output') :
             /\ output'[k].turn = turn /\ output'[k].path = stack[d].path
             /\ output'[k].depth = Len(stack) - (d + 1)
             /\ \A l \in k + 1 .. Len(output') :
                  output'[l].turn = turn => output'[l].depth > Len(stack) - (d + 1)
      /\ \E k \in 1 .. Len(output') :
           /\ output'[k].turn = turn /\ output'[k].path = e /\ output'[k].depth = Len(stack) - 1
           /\ \A l \in k + 1 .. Len(output') : FALSE
  BY ONLY tuls!ConstantsOK, TulsInv, <1>1, <1>2, <1>4, <1>8, LinePrinted
<1>10. Whole' = Whole /\ Whole \subseteq Tree
  BY <1>2 DEF Whole, tuls!EntriesOf, tuls!Below
<1>11. /\ turn' = 1 => tuls!PathsOf(2)' = {}
       /\ turn' = 2 => tuls!PathsOf(1)' = tuls!EntriesOf(tuls!Here)
  <2>1. /\ turn = 1 => tuls!PathsOf(2) = {}
        /\ turn = 2 => tuls!PathsOf(1) = tuls!EntriesOf(tuls!Here)
    BY DEF TulsInv, NothingMissed
  <2>2. \A t : t # turn => tuls!PathsOf(t)' = tuls!PathsOf(t)
    BY <1>9
  <2> QED BY <1>2, <2>1, <2>2
<1>12. ASSUME NEW x \in Tree
       PROVE  x \in tuls!PathsOf(turn)' <=> (x \in Whole /\ ~Pending(stack, x)) \/ x = e
  BY <1>2, <1>9 DEF TulsInv, NothingMissed
<1>13. CASE stack' = rest /\ pc' = "list" /\ ~(e \in TreeDirectories /\ top # tuls!Here)
  <2>1. TulsTypes'
    BY <1>2, <1>3, <1>9, <1>13 DEF TulsTypes
  <2>2. Stages'
    BY <1>2, <1>3, <1>5, <1>13 DEF TulsInv, Stages
  <2>3. ASSUME NEW x \in Tree, x \in Whole, LeadsTo(e, x)
        PROVE  x = e
    <3>1. CASE e \notin TreeDirectories
      BY <1>6, <2>3, <3>1, LeadsToBelow
    <3>2. CASE top = tuls!Here
      <4>1. Len(x) = 1 /\ Len(e) = 1 /\ x \in Paths
        <5>1. x \in tuls!EntriesOf(<<>>) /\ e \in tuls!EntriesOf(<<>>)
          BY <1>7, <2>3, <3>2 DEF Whole, tuls!Here
        <5>2. <<>> \in Paths /\ Len(<<>>) = 0
          BY EmptySeq DEF Paths
        <5>3. \A y \in tuls!EntriesOf(<<>>) : y \in Paths /\ Len(y) = Len(<<>>) + 1
          BY <5>2, BelowEntries
        <5> QED BY <5>1, <5>2, <5>3
      <4> QED BY <2>3, <4>1, UpProperties DEF LeadsTo
    <3> QED BY <1>13, <3>1, <3>2
  <2>4. LeadsTo(e, e)
    BY <1>6, LeadsToBelow
  <2>5. \A x \in Tree : x \in tuls!PathsOf(turn)' <=> x \in Whole' /\ ~Pending(stack', x)
    BY <1>4, <1>7, <1>10, <1>12, <1>13, <2>3, <2>4
  <2>6. NothingMissed'
    BY <1>2, <1>4, <1>11, <1>13, <2>5 DEF NothingMissed
  <2>7. OpenLines'
    <3> SUFFICES ASSUME NEW d \in 1 .. Len(stack) - 1
                 PROVE  \E k \in 1 .. Len(output') :
                          /\ output'[k].turn = turn /\ output'[k].path = rest[d].path
                          /\ output'[k].depth = Len(stack) - (d + 1)
                          /\ \A l \in k + 1 .. Len(output') :
                               output'[l].turn = turn => output'[l].depth > Len(stack) - (d + 1)
      BY <1>2, <1>3, <1>13 DEF OpenLines
    <3>1. rest[d].path = stack[d].path
      BY <1>4, <1>5
    <3> QED BY <1>9, <3>1
  <2> QED BY <1>9, <2>1, <2>2, <2>6, <2>7 DEF TulsInv
<1>14. CASE tuls!Opens(e, rest) /\ e \in (TreeDirectories \cup {tuls!Here}) \ locked
                /\ e \in TreeDirectories /\ top # tuls!Here /\ Len(rest) < MaxDirs
  <2> DEFINE s == Pushed(rest, e)
  <2>1. pc' = "list" /\ stack' = s
    BY <1>14, Zenon DEF tuls!Opens, Pushed
  <2>2. e \in tuls!EntriesOf(rest[1].path) /\ e \notin rest[1].left
    BY <1>3, <1>4
  <2>3. /\ s \in Seq(Frames) /\ Len(s) = Len(rest) + 1 /\ s[1].path = e
        /\ \A d \in 1 .. Len(rest) : s[d + 1] = rest[d]
        /\ StackOK(s, top)
        /\ \A x \in Tree : Pending(s, x) <=> Pending(rest, x) \/ x \in tuls!Below(e)
    <3>1. /\ top \in Paths /\ rest \in Seq(Frames) /\ StackOK(rest, top) /\ rest # <<>>
          /\ e \in tuls!EntriesOf(rest[1].path) /\ e \notin rest[1].left /\ tuls!ConstantsOK
      BY <1>2, <1>3, <1>4, <1>5, <2>2
    <3> QED BY ONLY <3>1, StackPush
  <2> HIDE DEF s
  <2>4. TulsTypes'
    BY <1>2, <1>9, <2>1, <2>3 DEF TulsTypes
  <2>5. Stages'
    <3>1. stack' # <<>>
      BY <1>3, <1>5, <2>1, <2>3
    <3> QED BY <1>2, <1>14, <2>1, <3>1 DEF TulsInv, Stages
  <2>6. \A x \in Tree : x \in tuls!PathsOf(turn)' <=> x \in Whole' /\ ~Pending(stack', x)
    <3> SUFFICES ASSUME NEW x \in Tree
                 PROVE  x \in tuls!PathsOf(turn)' <=> x \in Whole /\ ~Pending(s, x)
      BY <1>10, <2>1
    <3>1. LeadsTo(e, x) <=> x = e \/ x \in tuls!Below(e)
      BY <1>6, LeadsToBelow
    <3>2. e \notin tuls!Below(e)
      BY <1>6, LeadsToBelow
    <3> QED BY <1>4, <1>7, <1>12, <2>3, <3>1, <3>2
  <2>7. NothingMissed'
    BY <1>2, <1>11, <2>1, <2>3, <2>6 DEF NothingMissed
  <2>8. OpenLines'
    <3> SUFFICES ASSUME NEW d \in 1 .. Len(s) - 1
                 PROVE  \E k \in 1 .. Len(output') :
                          /\ output'[k].turn = turn /\ output'[k].path = s[d].path
                          /\ output'[k].depth = Len(s) - (d + 1)
                          /\ \A l \in k + 1 .. Len(output') :
                               output'[l].turn = turn => output'[l].depth > Len(s) - (d + 1)
      BY <1>2, <2>1 DEF OpenLines
    <3>1. CASE d = 1
      <4>1. Len(s) - (d + 1) = Len(stack) - 1
        BY <1>3, <1>5, <2>3, <3>1
      <4> QED BY <1>9, <2>3, <3>1, <4>1
    <3>2. CASE d # 1
      <4> DEFINE c == d - 1
      <4>1. /\ c \in 1 .. Len(stack) - 1 /\ c \in 1 .. Len(stack) /\ d = c + 1
            /\ Len(s) - (d + 1) = Len(stack) - (c + 1)
        BY <1>3, <1>5, <2>3, <3>2
      <4> HIDE DEF c
      <4>2. s[d].path = stack[c].path
        BY <1>3, <1>4, <2>3, <4>1
      <4> QED BY <1>9, <4>1, <4>2
    <3> QED BY <3>1, <3>2
  <2> QED BY <1>9, <2>4, <2>5, <2>7, <2>8 DEF TulsInv
<1>15. CASE tuls!Opens(e, rest) /\ e \in TreeDirectories
                /\ ~(e \in (TreeDirectories \cup {tuls!Here}) \ locked /\ Len(rest) < MaxDirs)
  <2>a. pc' = "failed" /\ stack' = rest /\ (e \in locked \/ ~(Len(rest) < MaxDirs))
    BY <1>15, Zenon DEF tuls!Opens
  <2>b. ~(Len(rest) < MaxDirs) => TooDeep(top)
    <3>1. Len(stack[1].path) = Len(top) + (Len(stack) - 1) /\ Len(top) \in Nat /\ MaxDirs \in Nat
      BY <1>2, <1>5, UpProperties DEF StackOK, tuls!ConstantsOK
    <3>2. ~(Len(rest) < MaxDirs) => Len(e) >= Len(top) + MaxDirs
      BY <1>3, <1>5, <1>6, <3>1
    <3> QED BY <1>15, <3>2 DEF TooDeep
  <2>1. pc' = "failed" /\ stack' = rest /\ (e \in locked \/ TooDeep(top))
    BY <2>a, <2>b
  <2>2. TulsTypes'
    BY <1>2, <1>3, <1>9, <2>1 DEF TulsTypes
  <2>3. Stages'
    BY <1>2, <2>1 DEF TulsInv, Stages
  <2>4. NothingMissed' /\ OpenLines'
    BY <1>11, <2>1 DEF NothingMissed, OpenLines
  <2> QED BY <1>9, <2>2, <2>3, <2>4 DEF TulsInv
<1> QED BY <1>1, <1>2, <1>13, <1>14, <1>15

\* The only line before line k that can be the last one indented less.
LEMMA UnderInPlace ==
  ASSUME output \in Seq(Lines), NEW k \in 1 .. Len(output), InPlace(output, top, k)
  PROVE  tuls!Under(k) = Up(output[k].path, Len(output[k].path) - 1)
<1>1. CASE output[k].depth = 0
  BY <1>1 DEF InPlace, tuls!Under
<1>2. CASE output[k].depth # 0
  <2> DEFINE less == {j \in 1 .. k - 1 : output[j].turn = output[k].turn
                                         /\ output[j].depth = output[k].depth - 1}
  <2>1. PICK j \in 1 .. k - 1 :
          /\ output[j].turn = output[k].turn /\ output[j].depth = output[k].depth - 1
          /\ output[j].path = Up(output[k].path, Len(output[k].path) - 1)
          /\ \A l \in j + 1 .. k - 1 :
               output[l].turn = output[k].turn => output[l].depth # output[k].depth - 1
    BY <1>2 DEF InPlace
  <2>2. j \in less /\ less \subseteq 1 .. k - 1
    BY <2>1
  <2>3. \A l \in less : l <= j
    BY <2>1
  <2>4. \A m \in less : (\A l \in less : l <= m) => m = j
    BY <2>2, <2>3
  <2>5. (CHOOSE m \in less : \A l \in less : l <= m) = j
    <3> HIDE DEF less
    <3> QED BY <2>2, <2>3, <2>4
  <2>6. tuls!Under(k) = output[CHOOSE m \in less : \A l \in less : l <= m].path
    BY <1>2, Zenon DEF tuls!Under
  <2> QED BY <2>1, <2>5, <2>6
<1> QED BY <1>1, <1>2

LEMMA TulsInvImplies ==
  ASSUME TulsInv
  PROVE  tuls!ListsEveryFile
<1>1. output \in Seq(Lines) /\ DOMAIN output = 1 .. Len(output) /\ turn \in {1, 2}
  BY LenProperties DEF TulsInv, TulsTypes
<1>2. pc \in {"argument", "done"} => tuls!PathsOf(1) = tuls!EntriesOf(tuls!Here)
  BY <1>1 DEF TulsInv, Stages, NothingMissed, Whole
<1>3. pc = "done" /\ turn = 2 =>
        tuls!PathsOf(2) = IF top = tuls!Here THEN tuls!EntriesOf(tuls!Here) ELSE tuls!Below(top)
  BY DEF TulsInv, NothingMissed, Whole
<1>4. \A k, l \in DOMAIN output :
        k # l /\ output[k].turn = output[l].turn => output[k].path # output[l].path
  BY <1>1 DEF TulsInv, EachLineOnce
<1>5. \A k \in DOMAIN output : tuls!Under(k) = SubSeq(output[k].path, 1, Len(output[k].path) - 1)
  BY <1>1, UnderInPlace DEF TulsInv, LinesInPlace, Up
<1>6. /\ pc = "failed" => \/ locked # {} \/ (turn = 2 /\ top \notin TreeDirectories \cup {tuls!Here})
                          \/ \E e \in TreeDirectories : Len(e) >= Len(top) + MaxDirs
      /\ pc = "crashed" => turn = 2 /\ tuls!PathsOf(2) \cap TreeDirectories \cap TooLong # {}
  BY DEF TulsInv, Stages, TooDeep
<1> QED BY <1>2, <1>3, <1>4, <1>5, <1>6 DEF tuls!ListsEveryFile

LEMMA SameTulsInv ==
  ASSUME TulsInv, UNCHANGED <<pc, locked, turn, top, stack, output>>
  PROVE  TulsInv'
<1>1. (\A t : tuls!PathsOf(t)' = tuls!PathsOf(t)) /\ (TooDeep(top)' <=> TooDeep(top))
  BY DEF tuls!PathsOf, TooDeep
<1>2. TulsTypes' /\ Stages' /\ EachLineOnce' /\ LinesInPlace' /\ OpenLines'
  BY <1>1 DEF TulsInv, TulsTypes, Stages, EachLineOnce, LinesInPlace, OpenLines
<1>3. tuls!PathsOf(turn)' = tuls!PathsOf(turn) /\ Whole' = Whole
  BY DEF tuls!PathsOf, Whole
<1>4. NothingMissed'
  BY <1>1, <1>3 DEF TulsInv, NothingMissed
<1> QED BY <1>2, <1>4 DEF TulsInv

LEMMA NextTulsInv ==
  ASSUME tuls!ConstantsOK, TulsInv, tuls!Next
  PROVE  TulsInv'
<1>1. CASE tuls!Invoke
  <2>1. /\ pc = "idle" /\ pc' = "here" /\ turn' = turn /\ top' = top /\ stack' = stack /\ output' = output
    BY <1>1 DEF tuls!Invoke
  <2>2. TulsTypes' /\ Stages' /\ EachLineOnce' /\ LinesInPlace' /\ OpenLines'
    BY <2>1 DEF TulsInv, TulsTypes, Stages, EachLineOnce, LinesInPlace, OpenLines
  <2>3. \A t : tuls!PathsOf(t)' = tuls!PathsOf(t)
    BY <2>1 DEF tuls!PathsOf
  <2>4. NothingMissed'
    BY <2>1, <2>3 DEF TulsInv, NothingMissed
  <2> QED BY <2>2, <2>4 DEF TulsInv
<1>2. CASE tuls!ListHere
  <2>1. /\ tuls!Opens(tuls!Here, <<>>) /\ UNCHANGED <<locked, turn, top, output>>
        /\ turn = 1 /\ top = tuls!Here /\ output = <<>>
    BY <1>2 DEF tuls!ListHere, TulsInv, Stages
  <2>2. \A t : tuls!PathsOf(t) = {}
    <3>1. DOMAIN output = {}
      BY <2>1
    <3> QED BY <3>1 DEF tuls!PathsOf
  <2>3. tuls!Opens(top', <<>>) /\ turn' = 1 /\ top' = tuls!Here
    BY <2>1
  <2> QED BY <2>1, <2>2, <2>3, ListingBegins
<1>3. CASE tuls!ListArgument
  <2>1. pc = "argument" /\ turn' = 2 /\ tuls!Opens(top', <<>>) /\ UNCHANGED <<locked, output>>
    BY <1>3 DEF tuls!ListArgument
  <2>2. turn = 1 /\ tuls!PathsOf(2) = {} /\ tuls!PathsOf(1) = tuls!EntriesOf(tuls!Here)
    BY <2>1 DEF TulsInv, Stages, NothingMissed, Whole
  <2> QED BY <2>1, <2>2, ListingBegins
<1>4. CASE tuls!ReadEntry
  BY <1>4, ReadTulsInv
<1>5. CASE tuls!EndOfDirectory
  BY <1>5, EndTulsInv
\* The line of the directory was printed before its path was made.
<1>6. CASE tuls!PathOverflows
  <2>1. /\ pc = "list" /\ top # tuls!Here /\ pc' = "crashed"
        /\ UNCHANGED <<locked, turn, top, stack, output>>
    BY <1>6 DEF tuls!PathOverflows
  <2>2. turn = 2 /\ output \in Seq(Lines) /\ DOMAIN output = 1 .. Len(output)
    BY <2>1, LenProperties DEF TulsInv, TulsTypes, Stages
  <2>3. PICK k \in 1 .. Len(output) :
          output[k].turn = turn /\ output[k].path \in TreeDirectories \cap TooLong
    BY <1>6, <2>2 DEF tuls!PathOverflows
  <2>4. output[k].path \in tuls!PathsOf(2)
    BY <2>2, <2>3, OutputPaths
  <2>5. \A t : tuls!PathsOf(t)' = tuls!PathsOf(t)
    BY <2>1 DEF tuls!PathsOf
  <2>6. Stages'
    BY <2>1, <2>2, <2>3, <2>4, <2>5 DEF Stages
  <2>7. TulsTypes' /\ EachLineOnce' /\ LinesInPlace' /\ OpenLines'
    BY <2>1 DEF TulsInv, TulsTypes, EachLineOnce, LinesInPlace, OpenLines
  <2>8. NothingMissed'
    BY <2>1, <2>2, <2>5 DEF TulsInv, NothingMissed
  <2> QED BY <2>6, <2>7, <2>8 DEF TulsInv
<1> QED BY <1>1, <1>2, <1>3, <1>4, <1>5, <1>6 DEF tuls!Next

-----------------------------------------------------------------------------
(***************************************************************************)
(* The two tools in the company of the others.                             *)
(***************************************************************************)
StatusInv == tool \in {"none", "tups"} => ToolInv

LEMMA StatusInvariant == Spec => []StatusInv
<1>1. Init => StatusInv
  BY TupsConstants, InitToolInv DEF Init, StatusInv
<1>2. StatusInv /\ [Next]_vars => StatusInv'
  <2> SUFFICES ASSUME StatusInv, [Next]_vars, tool' \in {"none", "tups"}
               PROVE  ToolInv'
    BY DEF StatusInv
  <2>1. tool \in {"none", "tups"} /\ (tups!Next \/ UNCHANGED <<pc, args, tupsVars>>)
    BY DEF Next, Pick, Type, vars
  <2> QED BY <2>1, TupsConstants, NextToolInv DEF StatusInv
<1> QED BY <1>1, <1>2, PTL DEF Spec

ListerInv == tool \in {"none", "tuls"} => TulsInv

LEMMA ListerInvariant == Spec => []ListerInv
<1>1. Init => ListerInv
  BY InitTulsInv DEF Init, ListerInv
<1>2. ListerInv /\ [Next]_vars => ListerInv'
  <2> SUFFICES ASSUME ListerInv, [Next]_vars, tool' \in {"none", "tuls"}
               PROVE  TulsInv'
    BY DEF ListerInv
  <2>1. tool \in {"none", "tuls"} /\ (tuls!Next \/ UNCHANGED <<pc, args, tulsVars>>)
    BY DEF Next, Pick, Type, vars
  <2>2. TulsInv
    BY <2>1 DEF ListerInv
  <2>3. CASE UNCHANGED <<pc, args, tulsVars>>
    BY <2>2, <2>3, SameTulsInv DEF tulsVars
  <2> QED BY <2>1, <2>2, <2>3, TulsConstants, NextTulsInv
<1> QED BY <1>1, <1>2, PTL DEF Spec

\* The process status tool crashes for one of the six reasons listed at
\* CrashesHaveReasons in Tups only, whatever processes start and end between two
\* of its calls and whatever it is invoked with.
THEOREM CrashesExplained == Spec => []CrashesHaveReasons
<1>1. StatusInv => CrashesHaveReasons
  BY DEF StatusInv, ToolInv, CrashInv, CrashesHaveReasons
<1> QED BY <1>1, StatusInvariant, PTL

\* A listing that comes to its end is complete.  That of the processes has every
\* process of user 1000 that was there all the time (but those with one digit,
\* and unless the tool ran out of files), and each number only once, whatever
\* other processes start and end meanwhile; a process with a name of one word has
\* its own fields.  That of the files has every entry once, and each line stands
\* under its directory; it comes to its end unless a directory cannot be opened,
\* is too deep for the streams tuls may have open, or has too long a path.
THEOREM ListingsComplete == Spec => []ListingsAreComplete
<1>1. StatusInv /\ ListerInv => ListingsAreComplete
  <2> SUFFICES ASSUME StatusInv, ListerInv PROVE ListingsAreComplete
    OBVIOUS
  <2>1. tool = "tups" => tups!ListsEveryProcess
    BY ToolInvImplies DEF StatusInv
  <2>2. tool = "tuls" => tuls!ListsEveryFile
    BY TulsInvImplies DEF ListerInv
  <2> QED BY <2>1, <2>2 DEF ListingsAreComplete
<1> QED BY <1>1, StatusInvariant, ListerInvariant, PTL
=============================================================================
