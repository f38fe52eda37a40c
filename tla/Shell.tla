-------------------------------- MODULE Shell --------------------------------
(***************************************************************************)
(* The shell (myshell.c) and the processes it forks: main's two loops, the *)
(* four ways of running a line, the built-ins and what a child does before *)
(* it becomes a program.  A process is a slot with the state that matters  *)
(* here: its descriptors, its copy of the batch file's buffer, and the line*)
(* it works on.                                                            *)
(*                                                                         *)
(* The terminal and the batch file are read through an open file that a    *)
(* shell and its children share.  A batch file is small enough to be read  *)
(* at once; its lines count as equally long.                               *)
(***************************************************************************)
EXTENDS ShellParser, FiniteSets

CONSTANTS
  Scripts,         \* the texts a user may type or put in a batch file
  Missing,         \* words that name no program
  Filters,         \* programs that read standard input to its end
  Producers,       \* programs that write more than a pipe holds
  Garbage,         \* what fdIn and fdOut may hold before they are set
  MaxDescriptor,   \* the last descriptor a process may have
  MaxProcesses,    \* children there can be at a time; a fork beyond fails
  MaxForkFailures, \* further failures of fork (a bound)
  MaxReads         \* how often a batch file is read (a bound)

ASSUME ScriptsAssumption == Scripts \subseteq Seq(Seq(STRING))
ASSUME SizesAssumption == MaxDescriptor \in Nat /\ MaxProcesses \in Nat
ASSUME BoundsAssumption == MaxForkFailures \in Nat /\ MaxReads \in Nat

\* A process starts with three descriptors, and needs one for a batch file.
ASSUME RoomForBatchFile == MaxDescriptor >= 3

First == 0
Processes == 0 .. MaxProcesses
NoParent == MaxProcesses + 1
Descriptors == 0 .. MaxDescriptor

\* Names for pipes, as many as there are places to hold one.
Pipes == 1 .. (MaxProcesses + 1) * (MaxDescriptor + 1)

Other(kind) == [kind |-> kind, pipe |-> 0]
Closed == Other("closed")
Tty == Other("tty")
ReadEnd(k) == [kind |-> "read", pipe |-> k]
WriteEnd(k) == [kind |-> "write", pipe |-> k]
PipeEnds(fds) == {d \in Descriptors : fds[d].kind \in {"read", "write"}}

VARIABLES
  batch,         \* whether the shell was started with a batch file
  script,        \* its lines, or the lines the user types
  offset,        \* how many of them were taken out of the shared open file
  process,       \* per slot, the process
  reads,         \* how often the batch file was read
  forkFailures,  \* how often fork has failed
  executed,      \* history: per line, how often a shell worked on it
  copies,        \* history: second shells there have been
  rewound        \* history: whether an exit moved the offset back

histories == <<executed, copies, rewound>>
vars == <<batch, script, offset, process, reads, forkFailures, histories>>

\* line is the one the process works on, rd and wr its descriptors of a pipe it
\* has made, side its place in the pipe it runs in; next to last are the lines
\* in its stdio buffer.  owed counts the children it will not wait for, leaks the
\* pipes it leaves open.
Free ==
  [pc |-> "free", parent |-> NoParent, line |-> 0, side |-> "none",
   fds |-> [d \in Descriptors |-> Closed], rd |-> 0, wr |-> 0,
   next |-> 1, last |-> 0, owed |-> 0, leaks |-> 0]

FirstShell(inBatch) ==
  [Free EXCEPT !.pc = "read",
               !.fds = [d \in Descriptors |->
                          IF d \in 0 .. 2 THEN Tty
                          ELSE IF d = 3 /\ inBatch THEN Other("batch") ELSE Closed]]

Init ==
  /\ batch \in BOOLEAN
  /\ script \in Scripts
  /\ offset = 0
  /\ process = [p \in Processes |-> IF p = First THEN FirstShell(batch) ELSE Free]
  /\ reads = 0
  /\ forkFailures = 0
  /\ executed = [k \in DOMAIN script |-> 0]
  /\ copies = 0
  /\ rewound = FALSE

-----------------------------------------------------------------------------
At(p, label) == process[p].pc = label

Lines == UNION {{s[k] : k \in DOMAIN s} : s \in Scripts}
Parsed == [line \in Lines |-> Process(line)]
Command(k) == Parsed[script[k]]
Words(p) ==
  IF process[p].side = "right" THEN Command(process[p].line).command2
  ELSE Command(process[p].line).command1

Become(p, r) == process' = [process EXCEPT ![p] = r]
Goto(p, label) == Become(p, [process[p] EXCEPT !.pc = label])

\* Back at the prompt.
Prompt(r) == [r EXCEPT !.pc = "read", !.line = 0, !.rd = 0, !.wr = 0]

LeastOf(S) == CHOOSE x \in S : \A y \in S : x <= y
FreeDescriptors(fds) == {d \in Descriptors : fds[d] = Closed}
FreeDescriptor(fds) == LeastOf(FreeDescriptors(fds))
FreeSlots == {p \in Processes \ {First} : At(p, "free")}

Close(fds, S) == [d \in Descriptors |-> IF d \in S THEN Closed ELSE fds[d]]

(***************************************************************************)
(* The end of a process.  Its children lose their parent, who then waits   *)
(* for it or is the first process, which takes every zombie.               *)
(***************************************************************************)
\* Mutant of AfterEndOf: the children keep the parent that has ended.
AfterEndOfKeepsChildren(p) ==
  [process EXCEPT ![p] = IF process[p].parent = NoParent THEN Free
                         ELSE [Free EXCEPT !.pc = "zombie", !.parent = process[p].parent]]

AfterEndOf(p) ==
  [q \in Processes |->
     IF q = p THEN (IF process[p].parent = NoParent THEN Free
                    ELSE [Free EXCEPT !.pc = "zombie", !.parent = process[p].parent])
     ELSE IF process[q].parent # p THEN process[q]
     ELSE IF At(q, "zombie") THEN Free
     ELSE [process[q] EXCEPT !.parent = NoParent]]

\* A signal, or the end of a program that replaced the shell's code.
Dies(p) == process' = AfterEndOf(p) /\ UNCHANGED <<offset, rewound>>

\* exit() of a copy of the shell: the C library moves the batch file's offset,
\* which all processes share, back by what this process has not read out of its
\* buffer.  (From before the start of the file it cannot.)
Exits(p, fds) ==
  LET unread == process[p].last + 1 - process[p].next
      rewinds == fds[3].kind = "batch" /\ unread \in 1 .. offset
  IN  /\ process' = AfterEndOf(p)
      /\ offset' = IF rewinds THEN offset - unread ELSE offset
      /\ rewound' = (rewound \/ rewinds)

-----------------------------------------------------------------------------
(***************************************************************************)
(* main's loops and what process() decides about a line.                   *)
(***************************************************************************)
IsBuiltin(word) == word \in {"cd", "clr", "dir", "environ", "echo", "help", "pause"}

RunLabel(words) == IF IsBuiltin(Head(words)) THEN "builtin" ELSE "fork"

Redirects(k) == ~Command(k).isBg /\ (Command(k).hasInput \/ Command(k).hasOutput)

\* checkBuiltins exits on quit; a pipe, then an ampersand, win over redirections.
FirstStep(k) ==
  LET c == Command(k)
  IN  IF c.error THEN "read"
      ELSE IF Head(c.command1) = "quit" THEN "exit"
      ELSE IF c.isPipe
      THEN IF c.command2 = <<>> THEN "read"
           ELSE IF Head(c.command2) = "quit" THEN "exit" ELSE "pipe"
      ELSE IF Redirects(k) THEN "fork" ELSE RunLabel(c.command1)

Starts(p, r, k) ==
  /\ Become(p, [r EXCEPT !.pc = FirstStep(k), !.line = IF FirstStep(k) = "read" THEN 0 ELSE k])
  /\ executed' = [executed EXCEPT ![k] = @ + 1]

\* Batch mode: fgets returns the next line of the buffer.
ReadLine(p) ==
  /\ At(p, "read")
  /\ batch
  /\ process[p].next <= process[p].last
  /\ Starts(p, [process[p] EXCEPT !.next = @ + 1], process[p].next)
  /\ UNCHANGED <<batch, script, offset, reads, forkFailures, copies, rewound>>

\* fgets with an empty buffer reads on, at the offset it finds.
FillBuffer(p) ==
  /\ At(p, "read")
  /\ batch
  /\ process[p].next > process[p].last
  /\ offset < Len(script) /\ reads < MaxReads
  /\ Become(p, [process[p] EXCEPT !.next = offset + 1, !.last = Len(script)])
  /\ offset' = Len(script)
  /\ reads' = reads + 1
  /\ UNCHANGED <<batch, script, forkFailures, histories>>

\* Mutant of EndOfFile: nobody looks at what fgets returns.
EndOfFileMissed(p) ==
  /\ At(p, "read")
  /\ batch
  /\ process[p].next > process[p].last
  /\ offset = Len(script)
  /\ Goto(p, "read")
  /\ UNCHANGED <<batch, script, offset, reads, forkFailures, histories>>

EndOfFile(p) ==
  /\ At(p, "read")
  /\ batch
  /\ process[p].next > process[p].last
  /\ offset = Len(script)
  /\ Goto(p, "exit")
  /\ UNCHANGED <<batch, script, offset, reads, forkFailures, histories>>

\* Interactive mode: every shell reads the terminal, which has no end.
ReadTyped(p) ==
  /\ At(p, "read")
  /\ ~batch
  /\ process[p].fds[0] = Tty
  /\ offset < Len(script)
  /\ Starts(p, process[p], offset + 1)
  /\ offset' = offset + 1
  /\ UNCHANGED <<batch, script, reads, forkFailures, copies, rewound>>

\* A second shell with a pipe for its input: fgets fails at the end, main does
\* not look, and works on what is left in line for ever.
ReadPipe(p) ==
  /\ At(p, "read")
  /\ ~batch
  /\ process[p].fds[0] # Tty
  /\ Goto(p, "lost")
  /\ UNCHANGED <<batch, script, offset, reads, forkFailures, histories>>

Quit(p) ==
  /\ At(p, "exit")
  /\ Exits(p, process[p].fds)
  /\ UNCHANGED <<batch, script, reads, forkFailures, executed, copies>>

-----------------------------------------------------------------------------
(***************************************************************************)
(* The built-ins, by how they end.  cd and dir look at a third word even   *)
(* when there is only one, and find it uninitialised; dir goes on with a   *)
(* directory it could not open.  pause takes a line of standard input: of  *)
(* a file or a pipe at once, or it waits for ever at the end of it; of the *)
(* terminal when the user presses Enter (getchar in execpause).  help runs *)
(* more in a process of system()'s; it is taken to end like the others.    *)
(***************************************************************************)
Outcomes(words) ==
  LET n == Len(words)
  IN  CASE words[1] = "cd" -> IF n > 2 THEN {"fail"} ELSE {"ok", "fail"}
        [] words[1] = "dir" -> IF n > 2 THEN {"fail"}
                               ELSE IF n = 2 THEN {"ok", "crash"} ELSE {"ok", "fail"}
        [] words[1] = "echo" -> {"ok"}
        [] words[1] = "pause" -> IF n > 1 THEN {"fail"} ELSE {"ok", "lost"}
        [] OTHER -> IF n > 1 THEN {"fail"} ELSE {"ok"}

WaitsForEnter(words, stdin) == words = <<"pause">> /\ stdin = Tty

\* executeNormally and executeBackground run a built-in in the shell itself.
Builtin(p) ==
  /\ At(p, "builtin")
  /\ ~WaitsForEnter(Words(p), process[p].fds[0])
  /\ \E outcome \in Outcomes(Words(p)) :
       \/ outcome \in {"ok", "fail"} /\ Become(p, Prompt(process[p]))
       \/ outcome = "crash" /\ process' = AfterEndOf(p)
       \/ outcome = "lost" /\ Goto(p, "lost")
  /\ UNCHANGED <<batch, script, offset, reads, forkFailures, histories>>

\* The line a pause takes is one of those the user types, or, in a batch, one
\* that is not in the script.
UserTypes ==
  IF batch THEN UNCHANGED offset ELSE offset < Len(script) /\ offset' = offset + 1

PressEnter(p) ==
  /\ At(p, "builtin")
  /\ WaitsForEnter(Words(p), process[p].fds[0])
  /\ UserTypes
  /\ Become(p, Prompt(process[p]))
  /\ UNCHANGED <<batch, script, reads, forkFailures, histories>>

-----------------------------------------------------------------------------
(***************************************************************************)
(* executeNormally, executeBackground and executeRedirection fork once.    *)
(***************************************************************************)
ForkCanFail == FreeSlots = {} \/ forkFailures < MaxForkFailures
ForkHasFailed == forkFailures' = IF FreeSlots = {} THEN forkFailures ELSE forkFailures + 1

\* What the child begins with: a copy of everything but the bookkeeping.
ChildOf(p, r, label, side) ==
  [r EXCEPT !.pc = label, !.parent = p, !.side = side, !.owed = 0]

Fork(p) ==
  /\ At(p, "fork")
  /\ FreeSlots # {}
  /\ LET label == IF Redirects(process[p].line) THEN "redirect" ELSE "exec"
     IN  process' = [process EXCEPT
           ![LeastOf(FreeSlots)] = ChildOf(p, process[p], label, "none"),
           ![p] = IF Command(process[p].line).isBg
                  THEN [Prompt(process[p]) EXCEPT !.owed = @ + 1]
                  ELSE [process[p] EXCEPT !.pc = "wait"]]
  /\ UNCHANGED <<batch, script, offset, reads, forkFailures, histories>>

ForkFails(p) ==
  /\ At(p, "fork")
  /\ ForkCanFail /\ ForkHasFailed
  /\ Become(p, Prompt(process[p]))
  /\ UNCHANGED <<batch, script, offset, reads, histories>>

(***************************************************************************)
(* executePipe: pipe(), then two forks.  When one fails the function       *)
(* returns without closing the pipe.                                       *)
(***************************************************************************)
PipesInUse ==
  {process[p].fds[d].pipe : p \in Processes, d \in Descriptors}

\* Two descriptors are free.
RoomForPipe(r) == Cardinality(FreeDescriptors(r.fds)) >= 2

WithPipe(r) ==
  LET k == LeastOf(Pipes \ PipesInUse)
      rd == FreeDescriptor(r.fds)
      wr == FreeDescriptor([r.fds EXCEPT ![rd] = ReadEnd(k)])
  IN  [r EXCEPT !.fds = [r.fds EXCEPT ![rd] = ReadEnd(k), ![wr] = WriteEnd(k)],
                !.rd = rd, !.wr = wr]

\* pipe() fails and nobody looks: the shell goes on with two numbers it never
\* set, where this module follows it no further.
PipeFails(p) ==
  /\ At(p, "pipe") /\ ~RoomForPipe(process[p])
  /\ Goto(p, "lost")
  /\ UNCHANGED <<batch, script, offset, reads, forkFailures, histories>>

ForkLeft(p) ==
  /\ At(p, "pipe") /\ RoomForPipe(process[p])
  /\ FreeSlots # {}
  /\ LET r == WithPipe(process[p])
     IN  process' = [process EXCEPT ![LeastOf(FreeSlots)] = ChildOf(p, r, "exec", "left"),
                                    ![p] = [r EXCEPT !.pc = "forkRight"]]
  /\ UNCHANGED <<batch, script, offset, reads, forkFailures, histories>>

ForkLeftFails(p) ==
  /\ At(p, "pipe") /\ RoomForPipe(process[p])
  /\ ForkCanFail /\ ForkHasFailed
  /\ Become(p, [Prompt(WithPipe(process[p])) EXCEPT !.leaks = @ + 1])
  /\ UNCHANGED <<batch, script, offset, reads, histories>>

ForkRight(p) ==
  /\ At(p, "forkRight")
  /\ FreeSlots # {}
  /\ process' = [process EXCEPT
       ![LeastOf(FreeSlots)] = ChildOf(p, process[p], "exec", "right"),
       ![p] = [process[p] EXCEPT !.pc = "wait", !.owed = @ + 1]]
  /\ UNCHANGED <<batch, script, offset, reads, forkFailures, histories>>

ForkRightFails(p) ==
  /\ At(p, "forkRight")
  /\ ForkCanFail /\ ForkHasFailed
  /\ Become(p, [Prompt(process[p]) EXCEPT !.leaks = @ + 1, !.owed = @ + 1])
  /\ UNCHANGED <<batch, script, offset, reads, histories>>

\* Mutant of Wait: forgets to close the pipe's write end.
WaitAndCloseRead(p) ==
  /\ At(p, "wait")
  /\ \E z \in Processes :
       /\ process[z].parent = p /\ At(z, "zombie")
       /\ process' = [process EXCEPT
            ![z] = Free,
            ![p] = [Prompt(process[p]) EXCEPT !.fds = Close(@, {process[p].rd} \ {0})]]
  /\ UNCHANGED <<batch, script, offset, reads, forkFailures, histories>>

\* Mutant of Wait: takes every child that has ended.
WaitForAll(p) ==
  /\ At(p, "wait")
  /\ \E z \in Processes : process[z].parent = p /\ At(z, "zombie")
  /\ process' = [q \in Processes |->
       IF process[q].parent = p /\ At(q, "zombie") THEN Free
       ELSE IF q # p THEN process[q]
       ELSE [Prompt(process[p]) EXCEPT !.fds = Close(@, {process[p].rd, process[p].wr} \ {0})]]
  /\ UNCHANGED <<batch, script, offset, reads, forkFailures, histories>>

\* Mutant of Wait: a pipe is over only when the command on its right is.
WaitForLast(p) ==
  /\ At(p, "wait")
  /\ \E z \in Processes :
       /\ process[z].parent = p /\ At(z, "zombie")
       /\ \A c \in Processes :
            process[c].parent = p /\ process[c].side = "right" => process[c].line # process[p].line
       /\ process' = [process EXCEPT
            ![z] = Free,
            ![p] = [Prompt(process[p]) EXCEPT
                      !.fds = Close(@, {process[p].rd, process[p].wr} \ {0})]]
  /\ UNCHANGED <<batch, script, offset, reads, forkFailures, histories>>

\* wait(NULL) takes whichever child has ended, if it is the one the shell has
\* just forked or not.  Then executePipe closes both ends.
Wait(p) ==
  /\ At(p, "wait")
  /\ \E z \in Processes :
       /\ process[z].parent = p /\ At(z, "zombie")
       /\ process' = [process EXCEPT
            ![z] = Free,
            ![p] = [Prompt(process[p]) EXCEPT
                      !.fds = Close(@, {process[p].rd, process[p].wr} \ {0})]]
  /\ UNCHANGED <<batch, script, offset, reads, forkFailures, histories>>

-----------------------------------------------------------------------------
(***************************************************************************)
(* The children, up to the program they become.                            *)
(***************************************************************************)
\* open, dup2 to the target and close: open takes the lowest descriptor, if
\* there is one.
Opened(fds, target, kind) ==
  {Close([fds EXCEPT ![n] = Other(kind), ![target] = Other(kind)], {n}) :
     n \in {d \in FreeDescriptors(fds) : \A e \in FreeDescriptors(fds) : d <= e}}

\* Without a file to open, close(fdIn) closes whatever fdIn happens to be.
AfterInput(k, fds) ==
  IF Command(k).hasInput THEN Opened(fds, 0, "input")
  ELSE {Close(fds, {g}) : g \in Garbage}

AfterOutput(k, fds) ==
  IF Command(k).hasOutput THEN Opened(fds, 1, "output")
  ELSE {Close(fds, {g}) : g \in Garbage}

\* Mutant of OpenFiles: takes the output file for the input.
OpenFilesCrossed(c) ==
  /\ At(c, "redirect")
  /\ \E fds \in AfterOutput(process[c].line, process[c].fds) :
       Become(c, [process[c] EXCEPT !.pc = "exec", !.fds = [fds EXCEPT ![0] = fds[1]]])
  /\ UNCHANGED <<batch, script, offset, reads, forkFailures, histories>>

OpenFiles(c) ==
  /\ At(c, "redirect")
  /\ LET k == process[c].line
     IN  \E fdsIn \in AfterInput(k, process[c].fds) :
           \E fdsOut \in AfterOutput(k, fdsIn) :
             Become(c, [process[c] EXCEPT !.pc = "exec", !.fds = fdsOut])
  /\ UNCHANGED <<batch, script, offset, reads, forkFailures, histories>>

\* A file cannot be opened: exit(1).
OpenFails(c) ==
  /\ At(c, "redirect")
  /\ LET k == process[c].line
     IN  \/ Command(k).hasInput /\ Exits(c, process[c].fds)
         \/ Command(k).hasOutput /\ \E fds \in AfterInput(k, process[c].fds) : Exits(c, fds)
  /\ UNCHANGED <<batch, script, reads, forkFailures, executed, copies>>

\* A child of a pipe first puts its end in place and closes the other one.
Plumbed(r) ==
  CASE r.side = "left" -> Close([r.fds EXCEPT ![1] = r.fds[r.wr]], {r.rd})
    [] r.side = "right" -> Close([r.fds EXCEPT ![0] = r.fds[r.rd]], {r.wr})
    [] OTHER -> r.fds

\* Mutant of BuiltinInChild: a built-in lets the child go on in main's loop.
BuiltinInChildReturns(c) ==
  /\ At(c, "exec") /\ IsBuiltin(Head(Words(c)))
  /\ Become(c, Prompt([process[c] EXCEPT !.fds = Plumbed(process[c]), !.side = "none"]))
  /\ UNCHANGED <<batch, script, offset, reads, forkFailures, histories>>

\* A built-in in a child ends it, unless it fails in a pipe: executePipe then
\* returns in the child, to main's loop.
BuiltinInChild(c) ==
  /\ At(c, "exec") /\ IsBuiltin(Head(Words(c)))
  /\ LET fds == Plumbed(process[c])
         inPipe == process[c].side # "none"
     IN  /\ ~WaitsForEnter(Words(c), fds[0])
         /\ \E outcome \in Outcomes(Words(c)) :
              \/ /\ outcome = "ok" \/ (outcome = "fail" /\ ~inPipe)
                 /\ Exits(c, fds)
                 /\ UNCHANGED copies
              \/ /\ outcome = "fail" /\ inPipe
                 /\ Become(c, Prompt([process[c] EXCEPT !.fds = fds, !.side = "none"]))
                 /\ copies' = copies + 1
                 /\ UNCHANGED <<offset, rewound>>
              \/ outcome = "crash" /\ Dies(c) /\ UNCHANGED copies
              \/ /\ outcome = "lost"
                 /\ Become(c, [process[c] EXCEPT !.pc = "lost", !.fds = fds])
                 /\ UNCHANGED <<offset, rewound, copies>>
  /\ UNCHANGED <<batch, script, reads, forkFailures, executed>>

\* A pause in a child ends it, too.
PressEnterInChild(c) ==
  /\ At(c, "exec") /\ WaitsForEnter(Words(c), Plumbed(process[c])[0])
  /\ IF batch THEN Exits(c, Plumbed(process[c]))
     ELSE UserTypes /\ process' = AfterEndOf(c) /\ UNCHANGED rewound
  /\ UNCHANGED <<batch, script, reads, forkFailures, executed, copies>>

Exec(c) ==
  /\ At(c, "exec") /\ ~IsBuiltin(Head(Words(c))) /\ Head(Words(c)) \notin Missing
  /\ Become(c, [process[c] EXCEPT !.pc = "run", !.fds = Plumbed(process[c])])
  /\ UNCHANGED <<batch, script, offset, reads, forkFailures, histories>>

ExecFails(c) ==
  /\ At(c, "exec") /\ Head(Words(c)) \in Missing
  /\ Exits(c, Plumbed(process[c]))
  /\ UNCHANGED <<batch, script, reads, forkFailures, executed, copies>>

\* Somebody has this end of a pipe open.
Held(end) == \E p \in Processes, d \in Descriptors : process[p].fds[d] = end

\* A program ends when it likes; but a filter at the end of its input, and a
\* producer when what it writes is read, or nobody can read it any more.
CanEnd(c) ==
  LET stdin == process[c].fds[0]
      stdout == process[c].fds[1]
  IN  /\ Head(Words(c)) \in Filters /\ stdin.kind = "read" => ~Held(WriteEnd(stdin.pipe))
      /\ Head(Words(c)) \in Producers /\ stdout.kind = "write" =>
           \/ ~Held(ReadEnd(stdout.pipe))
           \/ \E q \in Processes : /\ At(q, "run") /\ Head(Words(q)) \in Filters
                                   /\ process[q].fds[0] = ReadEnd(stdout.pipe)

ProgramEnds(c) ==
  /\ At(c, "run") /\ CanEnd(c)
  /\ Dies(c)
  /\ UNCHANGED <<batch, script, reads, forkFailures, executed, copies>>

-----------------------------------------------------------------------------
Runs(p) ==
  \/ ReadLine(p) \/ FillBuffer(p) \/ EndOfFile(p) \/ ReadPipe(p) \/ Quit(p) \/ Builtin(p)
  \/ Fork(p) \/ ForkFails(p) \/ PipeFails(p) \/ ForkLeft(p) \/ ForkLeftFails(p) \/ ForkRight(p) \/ ForkRightFails(p)
  \/ Wait(p)
  \/ OpenFiles(p) \/ OpenFails(p) \/ BuiltinInChild(p) \/ Exec(p) \/ ExecFails(p) \/ ProgramEnds(p)

\* What takes a line the user types.
UserActs(p) == ReadTyped(p) \/ PressEnter(p) \/ PressEnterInChild(p)

Next == \E p \in Processes : Runs(p) \/ UserActs(p)

Spec == Init /\ [][Next]_vars

\* Every process runs on and every program ends once it can.  Nobody has to
\* type: neither a line for the prompt nor the Enter a pause waits for.
FairSpec == Spec /\ \A p \in Processes : WF_vars(Runs(p))

-----------------------------------------------------------------------------
(***************************************************************************)
(* Properties.                                                             *)
(***************************************************************************)
ShellLabels == {"read", "exit", "builtin", "fork", "pipe", "forkRight", "wait", "lost"}
ChildLabels == {"redirect", "exec", "run", "zombie"}

FdTypes ==
  {Other(kind) : kind \in {"closed", "tty", "batch", "input", "output"}}
    \cup {ReadEnd(k) : k \in Pipes} \cup {WriteEnd(k) : k \in Pipes}

\* Every variable keeps its type; only a child that lives has a parent, and the
\* parent is never a program or a zombie.
TypeOK ==
  /\ batch \in BOOLEAN
  /\ script \in Scripts
  /\ offset \in 0 .. Len(script)
  /\ reads \in 0 .. MaxReads
  /\ forkFailures \in 0 .. MaxForkFailures
  /\ DOMAIN process = Processes
  /\ \A p \in Processes :
       /\ process[p].pc \in {"free"} \cup ShellLabels \cup ChildLabels
       /\ process[p].fds \in [Descriptors -> FdTypes]
       /\ process[p].line \in 0 .. Len(script)
       /\ process[p].side \in {"none", "left", "right"}
       /\ process[p].next \in 1 .. Len(script) + 1 /\ process[p].last \in 0 .. Len(script)
       /\ process[p].owed \in Nat /\ process[p].leaks \in Nat
       /\ At(p, "free") => process[p] = Free
       /\ process[p].parent # NoParent => process[process[p].parent].pc \in ShellLabels
  /\ executed \in [DOMAIN script -> Nat]
  /\ copies \in Nat
  /\ rewound \in BOOLEAN

ChildrenOf(p) == {c \in Processes : process[c].parent = p}

\* wait(NULL) takes any child (lines 446, 567, 716), and a background job and
\* a pipe leave one child that nothing waits for: so many there are when the
\* shell prompts again, dead or alive, whoever wait has taken.  In particular a
\* shell that never ran such a line has no running child at its prompt.
UnreapedChildren ==
  \A p \in Processes : At(p, "read") => Cardinality(ChildrenOf(p)) = process[p].owed

\* The ends of a pipe are closed when the prompt returns (lines 720, 723), so
\* that a long session does not run out of descriptors; only a fork that fails
\* in executePipe (lines 643, 681) leaves the two open for good.
PipesClosed ==
  At(First, "read") => Cardinality(PipeEnds(process[First].fds)) = 2 * process[First].leaks

\* A redirected command reads and writes the files the line names: both if it
\* names both; if it names one, that one, or nothing, as closing the variable
\* that was never set (lines 521, 544) may hit the descriptor.
RedirectionsHold ==
  \A c \in Processes :
    (process[c].pc \in {"exec", "run"} /\ process[c].side = "none" /\ Redirects(process[c].line)) =>
      LET command == Command(process[c].line)
          stdin == process[c].fds[0].kind
          stdout == process[c].fds[1].kind
      IN  /\ command.hasInput => stdin \in {"input", "closed"}
          /\ command.hasOutput => stdout \in {"output", "closed"}
          /\ command.hasInput /\ command.hasOutput => stdin = "input" /\ stdout = "output"

\* A line is worked on once; in a batch once more for each second shell that a
\* built-in failing in a pipe has left behind (lines 663, 700), and more often
\* only when some exit has moved the offset of the batch file.
LinesRunOnce ==
  ~rewound => \A k \in DOMAIN script : executed[k] <= 1 + (IF batch THEN copies ELSE 0)

\* A process that only the user can move on, or nobody.
Stuck(c) ==
  \/ At(c, "lost")
  \/ ~batch /\ c # First /\ At(c, "read")
  \/ At(c, "builtin") /\ WaitsForEnter(Words(c), process[c].fds[0])
  \/ At(c, "exec") /\ WaitsForEnter(Words(c), Plumbed(process[c])[0])

StuckForEver == <>[](\E c \in Processes : Stuck(c))

\* The prompt returns after every line, although the shell holds both ends of a
\* pipe while it waits (line 716) and although forks fail, unless in the end some
\* second shell or pause waits for a user who does not type, or is lost.
PromptReturns == (\A p \in Processes : []<>(~At(p, "wait"))) \/ StuckForEver

\* "until the end of the file is reached" (readme_doc.md:33): a batch ends,
\* unless an exit has moved the offset of the file, or in the end some pause
\* waits for an Enter that nobody presses, or a process is lost.
BatchEnds == batch => <>(At(First, "free") \/ rewound) \/ StuckForEver
=============================================================================
