# Verification of the CIS 3207 systems programs

The repository holds the programs one student wrote for an operating-systems course: a
multi-threaded echo server and its client, two programs that exchange signals (between threads and
between processes), a shell, a network spell checker, and tools that list processes and copy or list
files. They share no code, but the concurrent ones share their shape: a few threads or processes around
counters, queues, mutexes and condition variables or signals, with tests that cover a run or two of
each. The specifications here are about the orders of steps that no such run covers.

Paths below are relative to `src/`; line numbers are those of the files there.

## 1. Inventory

### Echo server (`project-3-s22-aagarwal17/echoServer.c`, `echoServer.h`)

State: two linked-list queues with a front pointer and a size (jobs: sockets to serve; log: text to
write), two mutexes `job_queue_lock` and `log_queue_lock`, four condition variables, the nodes in
`malloc`'s memory, the log file, and each thread's locals.

Operations and who calls them:

| part | operations | called by |
|---|---|---|
| queues | `create_queue`, `create_node`, `push`, `pop` (`del_queue` is never called) | all three kinds of thread |
| `main` | parse options, create the queues and threads, accept, push a job, signal `cond1` | - |
| `worker_thread` | pop a job, signal `cond2`, echo lines, push a log entry per line, signal `cond3`, close | created by `main` |
| `log_thread` | pop an entry, signal `cond4`, append to the log file | created by `main` |

Interactions: `main` -> job queue -> workers -> log queue -> log thread. `main` waits on `cond2` for room and
workers wait on `cond1` for jobs; workers wait on `cond4` for room and the log thread waits on
`cond3` for entries.

What is hard: every wait tests its condition with an `if`, once, and every signal is sent after the
unlock, so a signal may arrive when its reason is gone. `pop` moves the front before it frees, so it frees
the *next* node, which stays in the queue: memory that `malloc` may hand out again, for another node, for the text of a
log node (line 350) or for a `FILE` (line 658). A worker reads
`job->client_socket` without the mutex. Clients leave without saying so. Memory runs out, because the
popped nodes themselves are never freed.

What makes it correct: one thread at a time in each queue; no wakeup lost; every accepted connection in
exactly one place until it is closed; log entries of a client complete and in order; queues of bounded
length whose sizes match their nodes; connections served in the order of arrival, and all of them
eventually.

### Echo client (`project-3-s22-aagarwal17/client.c`)

A straight sequence: connect, then a loop of read line, send, receive. Its side of the conversation
appears as what the server sees: lines, the terminating character, or a connection that goes away.

### Signalling between threads (`project-4-s22-aagarwal17/ThreadSignaling.cpp`)

State: four counters (`sentSIGUSR1/2`, `receivedSIGUSR1/2`), `mutexOne` for the sent ones, `mutexTwo` for
the received ones, `concurrentProcesses` of the reporter, a pending-signal set per thread, the thread ids in
`processType`. Three generators send a random signal to two receivers and the reporter with
`pthread_kill` and then count it; receivers `sigwait` and count; the reporter counts to 20, then writes
all four counters under `mutexTwo`; `main` polls the sent counters and ends everything with SIGINT.

What is hard: a standard signal sent while the same one is pending is lost; signals are sent before they
are counted, so received may run ahead of sent; the reporter reads the sent counters without their
mutex; `main` adds up the sent counters without it; SIGINT is not blocked, so its first delivery ends the
process, before the totals are printed.

Correct when: a receiver never counts more signals than were sent to it; received <= 2 * sent once no
generator is between sending and counting; a signal that is lost is covered by one still to be counted; no counter update is lost; a report is written every 20
signals.

### Signalling between processes (`project-4-s22-aagarwal17/ProcSignaling.cpp`; `myProcesses.cpp` is an earlier copy)

State: in shared memory the four counters with a mutex per signal; per process its pending and blocked signals
and the handlers it installed; in the reporter the count since its last report; in `main` the array `procType`.

Operations: `main` forks nine children over an array of eight, polls the sent counters without a lock, sends
SIGINT to each entry of the array and prints totals; a generator counts a signal under its mutex and then sends it to
the whole process group; an updater waits in `pause` and counts each return; the reporter counts returns to
20, then writes a report under both mutexes. Handlers only return; the one of SIGINT calls `exit`.

What is hard: a signal that arrives outside `pause` is not noticed; a receiver unblocks its signals before it has
their handler, and only `sleep(1)` in `main` keeps the generators away meanwhile; SIGINT may end a process that holds
a process-shared mutex; the ninth child is in no loop of `main`'s; after a failed fork the array holds -1.

Correct when: no update is lost, also when processes die; a report is of one moment; both
updaters count once all is quiet; after the maximum every process ends and the totals are printed.

### Shell (`myshell.c`)

State: per process the descriptors, the children and the line it works on; the terminal or batch file, whose offset a shell and
its children share; in batch mode the `stdio` buffer, of which each child has a copy.

Operations: read a line, split it into tokens, classify it (`process`: built-in, plain, redirected, piped,
background), and execute it with `fork`, `pipe`, `dup2`, `execvp` and `wait`, one function for each of the four ways.

What is hard: `wait(NULL)` takes any child, also one of an earlier background job; pipe ends stay open in the
parent while it waits, and for good when the second fork fails; a built-in that fails in a pipe lets the child go on as a
second shell; a descriptor is closed that was never set; `exit` in a forked copy rewinds the batch file.

Correct when: it takes every line apart as written; each foreground command leaves no child behind that the
shell does not know of; its descriptors are closed at the prompt; redirections hold; each line runs once; the prompt comes back.

### Network spell checker (`Network_Spellchecker-master/spellchecker.c`)

The echo server's structure with a dictionary in place of the echo: a job queue and a log queue with the
same queue code, the same waits and the same log thread. Its own state is the dictionary; its own operations are reading the
dictionary, looking up a word, and a goodbye (`-1`) that neither logs nor signals. Hard: what the echo server's waits make
hard, plus words that lose two bytes whatever the line end, in the dictionary and on the wire, and a dictionary array of exactly `DICTIONARY_LENGTH`
entries, whatever the length of the file. Correct when: results reach the log in order, each once, and are right for the words the look-up goes over.

### Process status tool (`project-1-sp22-aagarwal17-main/src`, older copies elsewhere)

State: the options seen, the process at work, files opened and never closed. Operations: `main` decides between one process and
all; `parser`/`allParser` go through the options; `validPID`, `parseStat`, `getVMem`, `getCommandLine` and
`findAllPID`/`isUserId` read `/proc`, a file system that changes meanwhile. Hard: a process may end between the check
and the use, the name of a process may contain spaces, arrays and descriptors are limited, and "the current user" is the number 1000, four times
(`optionProcessor.cpp:252`). Correct when: a listing has every process of user 1000 that was there all the time, once, and the tool only crashes for reasons one can name.

### File tools (`tucp.c`, `tuls.c`)

`tucp` copies a file to a file, a file to a directory, or files to a directory; `tuls` lists the current directory, then
one named directory with all below it. Hard: a source that is also the destination, an interrupted copy, the slash at the
end of a directory's name, directories that cannot be opened, and as many open directories as the recursion is deep. Correct when: `tucp` changes
nothing but its destinations and makes whole copies; `tuls` lists everything once, each entry under its directory.

### Other programs

Course material, samples, experiments with single library calls and superseded drafts. `PROJECT.json` lists each part
with its files and status.

## 2. Modules

| module | models | extends |
|---|---|---|
| `NodeQueue` | the queue code of `echoServer.c` over an explicit heap, with `malloc` and `free` | - |
| `Fifo` | what a queue between threads promises (abstract) | - |
| `EchoServer` | `main`, the workers, the log thread and the clients, and their properties | `NodeQueue`, instantiates `Fifo` |
| `MCEchoServer` | constants of the instances TLC checks | `EchoServer` |
| `EchoServerProofs` | types, pointers and sockets; mutual exclusion, wakeups and bounds | `EchoServer` |
| `EchoServerQueueProofs` | linked lists, the place of each connection, the order of log entries, the refinement of `Fifo` | `EchoServerProofs` |
| `CountedSignals` | what programs that send and count signals promise (abstract) | - |
| `ThreadSignaling` | `ThreadSignaling.cpp`: `main`, generators, updaters, reporter, and their properties | instantiates `CountedSignals` |
| `MCThreadSignaling` | the instance TLC checks | `ThreadSignaling` |
| `ThreadSignalingProofs` | types, locks, counts and the refinement | `ThreadSignaling` |
| `ProcSignaling` | `ProcSignaling.cpp`: `main`, generators, updaters, reporter, the ninth child, and their properties | instantiates `CountedSignals` |
| `MCProcSignaling` | the instance TLC checks | `ProcSignaling` |
| `ProcSignalingProofs` | types, locks with dead holders, counts, the refinement, the updaters that have counted | `ProcSignaling` |
| `ShellParser` | `process` of `myshell.c` as a fold over tokens, and what a line means | - |
| `Shell` | the shell's two loops, its execute functions, its children | `ShellParser` |
| `MCShell` | the scripts TLC runs | `Shell` |
| `ShellProofs` | types, children, pipe ends, redirections, lines | `Shell` |
| `SpellChecker` | `spellchecker.c`: its own steps beside those of the echo server | `EchoServer` |
| `MCSpellChecker` | the instance TLC checks | `SpellChecker` |
| `SpellCheckerProofs` | types, mutual exclusion, wakeups, bounds, lists, the order of words | `SpellChecker`, `EchoServerQueueProofs` |
| `Tups`, `Tucp`, `Tuls` | the process status tool, the copier, the lister | - |
| `Tools` | the three, and the shell's parser over every short line: the first step picks one | instantiates the three, extends `ShellParser` |
| `MCTools` | the instance TLC checks | `Tools` |
| `ListingProofs`, `CommandLineProofs` | crashes and listings of `tups`, listings of `tuls`; how the shell takes a line apart, copies of `tucp` | `Tools` |

### NodeQueue

A heap is a record: `cell` (the contents of each node-sized piece of memory), `frees` (how often it is in
the allocator's free lists) and `brk` (how many pieces were ever handed out). Addresses are
`1..HeapSize`, `NULL` is 0. `Mallocs(h)` is what `malloc` may return: any piece that was freed, or the
next fresh one. Freed memory keeps the fields the program reads, and a piece freed twice is either noticed (the
process aborts) or handed out twice; `MaxFrees` bounds the unnoticed frees of one piece. Besides nodes, `malloc` serves the text of a log
node and, in `fopen`, a `FILE`: these take other memory or a piece a node was freed from (`TakenByText`; texts are never freed). When that
piece is still in use as a node (`Shared`) it is overwritten, see below.

`push` is `PushedHeap` and `PushedQueue`: the walk to the node without successor (lines 392-396) becomes
`Ends`, the linked nodes whose `next` is null, and `PushReturns` says whether there is one: on a list that memory reuse has
bent into a cycle the walk never ends, and the thread spins with the mutex held. `PushFaults` is the walk from
a null front. `pop` is `PoppedQueue` and `PoppedHeap`; `PopFrees` is the node that line 421 passes to
`free`, the successor of the one returned.

### EchoServer

`pc[t]` names the next call thread `t` makes; each action runs from one call that other threads can
interleave with to the next.

| code | labels and actions |
|---|---|
| `pthread_mutex_lock` and the `if` behind it | `lockJobs`, `lockLog`: `MainLocksJobs`, `WorkerLocksJobs`, `WorkerLocksLog`, `LoggerLocksLog` |
| `pthread_cond_wait` | asleep at `waitCond1..4`; when woken at `wokenCond1..4`, then `MainReacquires`, `WorkerReacquiresJobs`, `WorkerReacquiresLog`, `LoggerReacquires`, which go on behind the `if` |
| `push`/`pop` up to the unlock | `PushJob`, `PopJob`, `PushLog`, `PopLog` |
| `pthread_cond_signal` | `SignalCond1..4`, waking one waiter of the nondeterministic choice, or nobody |
| `job->client_socket` after the unlock | `ReadSocket` |
| prompt, `recv`, reply | `Serve(w, last)`; `last` when the terminating character came |
| `fopen`, `fprintf`, `fclose` | `WriteLog` |
| null dereference, no memory, `free` twice, SIGPIPE | `ReadSocketFaults`, `PopLogFaults`, `PushJobDies`, `PushLogDies`, `PopJobAborts`, `PopLogAborts`, `MainBrokenPipe`, `WorkerBrokenPipe`: the process is over |
| what POSIX allows | `SpuriousWakeup(t)` |
| a client that leaves | `Hangup(c)` |

A mutex is held only while a thread is at a `push...` or `pop...` label: between lock and test, and
around the other calls, nothing another thread could observe happens. Only the log thread takes `log_lock`, so
it is not modelled. The signal of a worker behind the terminating character, the `close` and the `break` are one
action: between the signal and the close the worker touches nothing shared but its own socket.

`recycled` is a history variable: it becomes TRUE when `malloc` hands out a node that is still linked in
a queue or still to be read by a worker, which line 421 makes possible. From then on two queues may
share a node and no content property can hold; the properties about contents are stated for
`~recycled`, and the ones about mutexes, wakeups, pointers, sockets and sizes hold regardless.

A text (line 350) or a `FILE` (line 658) in a node still in use is worse: what the program then reads as pointers and sockets is text.
`PushLogDies` and `WriteLogDies` end the model there, with `halted = "overwritten"`, and no property speaks of what follows
(`SocketsAreAccepted` says so itself).

### ThreadSignaling

Threads keep their index in `processType`: 0 and 1 update SIGUSR1, 2 and 3 SIGUSR2, 4 reports, the rest
generate; `main` comes behind them. `main` creates them in that order, and a generator may be half-way
through a round before the next is created.

| code | labels and actions |
|---|---|
| the loop of `main` over `pthread_create` | `CreateThread(t)`; a thread is `unborn` before it |
| `maxCountReached` and what follows | `PollFirst`, `PollSecond`: two loads, then the test and the `pthread_kill` of line 100 |
| choice of a signal | `Choose(g)` |
| the three `pthread_kill`s | `KillFirst`, `KillSecond`, `KillReporter`; `pending` is a set, so a second signal of a kind is lost |
| `count->sent...++` under `mutexOne` | `LockSent` (lock, load), `CountSent` (store, unlock) |
| `sigwait` | `TakeSignal(u)`, `ReporterTakesSignal` |
| `count->received...++` under `mutexTwo` | `LockReceived`, `CountReceived` |
| the report | `LockReport`, `FirstLine`, `SecondLine`; `OpenLog` decides whether `logT.txt` could be opened |

An increment is two steps, a load into `tmp` and a store, so that a missing mutex would show. `tmp` and
`choice` are reset when the program no longer needs them. The counters start at 0: the initialisers in
`ThreadHeader.h` do not run for memory from `malloc`, but it is memory the system has just handed out.
SIGINT is neither blocked nor handled, so the first `pthread_kill(processType[y], SIGINT)` ends every thread: the
loop does not reach its second iteration and lines 103-108 never print. `halted` stands for that; Control-C does the
same at any time and adds only shorter behaviours, so it has no action of its own.

`begun` and `taken` are history variables: the rounds begun and the signals taken by updaters.
`CountedSignals` is the abstract view of `begun`, `sent` and `received`: counters go up by one, `sent` not
beyond `begun`, `received` not beyond twice `begun`. Lost signals are stutters there.

### ProcSignaling

Processes keep their index in `procType`, with the ninth child as number `SUB_PROCESSES` and `main` behind it. A
process that died stays where it was (`dead`), so that a mutex it held is seen to stay locked.

| code | labels and actions |
|---|---|
| the fork loop, `sleep(1)` | `Fork`, `ForkFails`: the next fork comes when the children so far are ready, but for those in `Slow` |
| `maxCountReached` | `PollFirst`, `PollSecond` |
| the loop of `kill(procType[y], SIGINT)` | `KillChild`; `procType[y]` of a failed fork is -1, which means every process |
| totals and `exit` | `PrintTotals` |
| `sigprocmask`, then `signal` | `Unblock`, `Install`; a signal between the two is `DieOfDefault` |
| `pause` | `EnterPause`, the call itself; `PauseReturns`, once for all that is pending; anywhere else behind `signal`, also just before the call, `HandledOutsidePause` |
| SIGINT, by default action or by `exit` in the handler | `DieOfInterrupt` and, at once, in `KillChild` |
| counting and sending | `Choose`, `LockSent`, `CountSent`, `Kill` |
| counting what was received | `LockReceived`, `CountReceived` |
| the report | `OpenLog`, `LockOne`, `LockTwo`, `FirstLine`, `SecondLine` |

`sleep(1)` is modelled as what it is there for: a child that is not in `Slow` is at its loop before the next is
forked. `Lingering` children may go on for a while after a SIGINT was sent; the others are ended with the `kill`, which only removes
interleavings of steps nobody waits for. The module refines the same `CountedSignals` as the threads, by `begun`, `sent` and
`received`, with two receivers per signal.

### ShellParser and Shell

`Process` is a left fold of `Turn` over the tokens, with `process`'s local variables as a record; `ParsesAsWritten`
compares it with a declarative description of a line (a command, up to two redirections, a tail). `Shell` takes the parsed
lines from there.

A process of `Shell` is a slot with its descriptor table, its part of the batch buffer and its line. Free slots bound the number
of processes: a fork without one fails, as may `MaxForkFailures` more. A process has the descriptors `0..MaxDescriptor`; `open` without a
free one fails, and so does `pipe` without two.

| code | labels and actions |
|---|---|
| `fgets` in `main`'s loops | `ReadTyped`, `ReadPipe` (interactive); `ReadLine`, `FillBuffer`, `EndOfFile` (batch) |
| `process`, `checkBuiltins` for `quit` | `Starts`, `FirstStep` |
| `exit` | `Quit`, and `Exits` in children: the C library moves the batch file's offset back |
| built-ins in the shell | `Builtin`; `PressEnter` for a `pause` at the terminal |
| `executeNormally`, `executeBackground`, `executeRedirection` | `Fork`, `ForkFails`, then `Wait` unless in the background |
| `executePipe` | `ForkLeft`, `ForkRight` and their failures, then `Wait`; `PipeFails` when `pipe` does, whose result nobody looks at |
| `wait(NULL)` and the closes behind it | `Wait`: any child that has ended |
| `open`, `dup2`, `close(fdIn)`, `close(fdOut)` | `OpenFiles`, `OpenFails`; an unset variable holds any value of `Garbage` |
| a built-in in a child | `BuiltinInChild`, `PressEnterInChild` |
| `execvp` | `Exec`, `ExecFails` |
| the program | `ProgramEnds`: filters read to the end, producers write more than a pipe holds |

`owed` and `leaks` are bookkeeping for the properties: children the shell will not wait for, and pipes it leaves open.

### SpellChecker

`TakeJob`, `ServeConnections`, `WriteResults` and most of `LogWord` are compositions of `EchoServer`'s actions: the code has
the same calls in the same order. `CheckWord`, `CloseClient` and `WordLogged` are its own. The log entries say what was typed and what
came out (`Texts`, a constant of `EchoServer` that is empty for the echo server itself). The array of the dictionary has `DICTIONARY_LENGTH` entries
(lines 115, 313): a longer file is written past its end, which may end the server (`DictionaryOverflows`) or hit nothing, and its further words are
not looked at (`Found`); behind a shorter file the look-up of an unknown word reads a pointer nobody set (`CheckWordFaults`).

### Tups, Tucp, Tuls

`Tups` has one action per file or directory read: `Main`, `Option`, `OptionsEnd`, `CheckArgument`, `ParseStat`, `PrintStat`, `CheckVMem`,
`CheckAgain`, `GetVMem`, `GetCommandLine`, `EndLine`, and for all processes `ReadEntry`, `IsUserId`, `EndOfDirectory`; between any two, processes
start and end (`Starts`, `Ends`). A line printed is the kinds of fields it has, so that a field cut at the wrong space shows. A process has the four user
ids of its status file, of which `IsUserId` wants 1000 for each, and its files may be too long for the arrays they are read to, as a word may be for
the path made of it (`TooManyArguments`, `PathOverflows`, `IsUserId`): then the tool may crash, or not.

`Tucp` copies block by block: `ToFile`, `ToDirectory` choose the destination, `OpenSource`, `OpenTarget` (which empties the file), `CopyBlock`,
`EndOfSource`, `Close`, and `Killed` at any time. A block may look like the end of file. A word goes behind the directory whole, so that `a/x` behind `.` is
`a/x` again and behind `a/b` a file in a directory that may not be there (`PathIn`); a directory as a source reads as empty (`OpenSource`). `Tuls` keeps the recursion as a stack: `ListHere`,
`ListArgument`, `ReadEntry`, `EndOfDirectory`. A directory stays open until those below it are done, so the stack holds at most `MaxDirs`
(`Opens`); a path that does not fit in its 1000 bytes may end the tool at any later step (`PathOverflows`).

## 3. Runs

| run | instance | states | checks |
|---|---|---|---|
| `echo_safety` | 2 workers (symmetric), 1 cell, 3 connections, memory for every node | 244 000 | `TypeOK`, `OneThreadPerQueue`, `NoLostJobWakeup`, `NoLostLogWakeup`, `OnePlacePerClient`, `JobQueueIsFifo` |
| `echo_faults` | 1 worker, 1 cell, 3 connections of up to 2 entries, client 2 may leave, memory for 5 nodes, the log thread wakes up spuriously | 61 000 | `SocketsAreAccepted`, `BoundedOvershoot`, `QueuesIntact`, `LogKeepsOrder` |
| `echo_liveness` | 2 workers, 1 cell, 2 connections, one of 2 entries | 88 000 | `EveryClientServed`, `EveryEntryLogged` |
| `echo_empty_pop` | 1 worker, 1 connection | small | refutes `NowQueueIsNotEmpty` |
| `echo_overflow` | 1 worker, 1 cell, 3 connections | small | refutes `FixedSizedBuffer` |
| `echo_early_free` | 1 worker, 2 cells, 2 connections | small | refutes `QueuedNodesAreNotFreed` |
| `thread_signals` | 2 generators, 2 rounds, 2 signals to stop, a report every 2 signals | 248 000 | `TypeOK`, `NoLostUpdates`, `ReceivedWithinSent`, `LostSignalsAreCovered`, `ReportIsSnapshot`, `CountsSignals`, `MaxCountEnds` |
| `thread_report_race` | the same with a report for every signal | small | refutes `ExclusiveAccess` |
| `proc_signals` | 2 generators, 2 rounds in all, 2 signals to stop, a report every 2; a reporter that is slow or whose fork fails, a generator that outlives its SIGINT | 637 000 | `TypeOK`, `NoLostUpdates`, `ReportIsSnapshot`, `BothUpdatersCount`, `CountsSignals`, `EveryProcessEnds` |
| `shell` | 9 scripts, each typed or in a batch file; 4 children at a time, two more failing forks, 8 descriptors, 3 reads of the batch file | 29 100 | `TypeOK`, `UnreapedChildren`, `PipesClosed`, `RedirectionsHold`, `LinesRunOnce`, `PromptReturns`, `BatchEnds` |
| `tools` | lines of up to 6 tokens; 12 invocations of `tups` over 4 processes with 3 starts or ends; pairs of 15 invocations of `tucp`; 9 of `tuls` over a tree of depth 3, with 2 directories open at a time | 105 000 | `LinesParse`, `ListingsAreComplete`, `CrashesHaveReasons`, `CopiesAreComplete` |
| `spell` | 2 workers, 1 cell, 2 clients, one of two words that may leave and one that only says goodbye, memory for 4 nodes, the log thread wakes up spuriously, dictionaries of 1 and 3 lines for an array of 2 | 182 000 | `ResultsInOrder`, `EveryWordLogged` |

Why the bounds are enough. In the signalling runs, two generators are the least that race for a counter or send the same signal while it is
pending, and two rounds let one start while the other is anywhere in its own; the two updaters of a signal and the
reporter are always there. With two signals to stop, `main` may see any partial sum. A signal can be lost in the second round, while that of the first is
pending; that more rounds bring nothing new is what `LossesCovered` proves.

Between processes the two rounds may fall to one generator or to two, to one signal or both, and may meet a
reporter that is still unblocking its signals; a failed fork of the reporter sends SIGINT to every process; `Lingering` has one generator, which may
then hold a mutex that others wait for, and sends to receivers anywhere in their loops. A report after two returns of `pause` needs both rounds. The shell's scripts bring together what meets in the code: a background
job with each kind of foreground command, each side of a pipe with a program that reads, writes or fails, a built-in
on each side, one and two redirections, `pause` with a file, a pipe and the terminal, `quit` in a pipe. Four children are more than any script
keeps at once unless a second shell goes on, and then forks fail; eight descriptors are more than
they use until two forks of pipes have failed, after which `open` and `pipe` fail, too; the third read of the batch file shows that lines can run over and over.
Six tokens hold a command, both redirections with their names and one token behind them. `tups`'s processes are one with a one-digit number, one with a space in its name, one with
more arguments than its array has room for, one with an argument and a status file that are too long, one whose ids differ, and seven files to open are one too few for the longest listing. `tucp`'s disk has names of different
length, as line 150 confuses the lengths of two words, and a block that looks like the end of a file; its invocations have a file copied to itself under two names
and directories among the sources. `tuls`'s tree has a directory deeper than two directories may be open, whose path is also too long when
the listing begins above it. The `spell` run's words reach the log queue while it is full, behind one another, and from a client that has gone.

In the echo server's runs, two workers are the least that compete for a job, for a log cell and for a
signal; three connections with one cell make main find the buffer full, sleep, and be woken late, with
a job queued behind. One cell makes both queues full at the same time, the case in which main waits for a worker that
waits for the log thread. Memory for five nodes runs out in `echo_faults` after every kind of reuse has been
possible; the other passing runs have a node for every push. Deadlock checking is off in all
runs: with all connections served, or all rounds sent and main gone, nothing moves, and a dead process takes no step.

What they show:

* The server's synchronisation is right in what it must never do: exclusive access, and no lost wakeup
  although every signal is sent after its unlock. (A worker that sleeps while a job is queued always has a
  woken worker or a signal about to be sent to account for it.)
* Its tests are wrong in the other direction: a signal may wake a thread whose condition no longer holds
  (`echo_empty_pop`, `echo_overflow`). The overshoot is bounded by one node per worker
  (`BoundedOvershoot`); popping an empty queue ends in a null dereference.
* With a buffer of two cells, the first pop frees a node that is still queued (`echo_early_free`). As long
  as `malloc` does not reuse it nothing else goes wrong: sizes, order and contents stay intact. Reused for another node, it still has an accepted
  socket in it; reused for a text or a `FILE`, it has not.
* The signalling threads lose signals but never updates: `received` and `sent` are exact up to the threads between taking or
  sending and counting, and the implementation refines `CountedSignals`. The log shows "almost exactly
  double" (`resultsAnalysis.md`) because each round has two receivers; it may show up to two more per generator. A signal is lost only
  while one of its kind is pending, and so never the last one (`LostSignalsAreCovered`).
* The reporter reads the sent counters while a generator updates them (`thread_report_race`): the locks are one
  per kind of counter, and the reporter takes only the second. The received counters of a report belong to one moment.

* Processes: what `pause` misses is lost, but never an update, a mutex of a dead process included, since nobody who waits for it counts
  meanwhile. Both updaters count at least once each time all is quiet, if their children were ready within a second of their fork. The
  shutdown depends on no mutex, and a failed fork does not hinder it (it ends more than it should: `kill(-1, SIGINT)`).
* Shell: `wait(NULL)` may take the wrong child, so that a prompt comes early, but the number of children at the prompt is
  always the number of background jobs and pipes run. Pipe ends are closed, except after a failed fork. One
  redirection may be undone by the `close` of the variable of the other. A built-in that fails in a pipe leaves a second shell, which works on the same
  input; and any copy of the shell that leaves through `exit` (a built-in in a pipe, a program that does not exist) moves the batch file
  back, so that lines already worked on run again, possibly without end, where `readme_doc.md:33` says that it runs "until the end
  of the file is reached". `LinesRunOnce` and `BatchEnds` except exactly these cases (`copies`, `rewound`).
* Tools: `tups` is complete for the processes of user 1000 that stay, apart from one-digit numbers; for another user it lists those of 1000 all the same. It crashes when a process ends between
  check and use, and for five more reasons (`CrashesHaveReasons`). `tucp` never touches a file it was not told to, except in the directory above when line 150 looks for the slash at the wrong
  place; a source that is its own destination is lost, `tucp x a/x .` included. `tuls` stops at the first directory it cannot open, and in trees that
  are deeper than directories may be open.
* Spell checker: what holds of the echo server's queues holds here, too. Dictionary words are found although two bytes are cut off on both sides; as
  `words.txt` has line feeds only, that takes a letter along, and a word that differs only in its last letter is CORRECT. All this is for the first
  `DICTIONARY_LENGTH` lines; with a shorter file a word that is not in it ends the server.

The violated properties are what the programs' comments and assignments say; `PROJECT.json` quotes them under "findings".

### Fairness

`FairSpec` asks weak fairness of each thread: the scheduler runs every thread that can go on. A worker in
`recv` is enabled until its client has sent its terminating character, so fairness of the worker includes
that the client sends something sooner or later; a client may send at most `Lines[c]` lines before the terminator.
Mutexes are not assumed fair, but each is held for one action only. Strong fairness is not needed: the number of
connections and lines is finite, so a thread cannot be overtaken for ever. The liveness run has no
client that leaves: such a client keeps its worker at `recv` for good, as in the code (line 495 ff.), and the
other clients' progress then depends on the number of workers. Both liveness properties end in "or the process
died or its memory was recycled", which the runs above show to be possible.

`ThreadSignaling!FairSpec` asks weak fairness of `main`, of each updater, of the reporter and of each generator within a
round. A generator need not begin another round, as nothing says how long it is delayed; once the counters have reached the maximum,
`main` must stop the process whoever else does not move. Mutexes are held for at most three steps.

`ProcSignaling!FairSpec` asks the same of the processes: each runs on, and a signal that is not blocked is delivered; `Choose` is
not fair. `EveryProcessEnds` then needs no fairness of mutexes, because nobody on the way to the end takes one.

`Shell!FairSpec` asks weak fairness of each process, a program that can end included, and none of the user: `UserActs` (`ReadTyped` for a line at the prompt,
`PressEnter` and `PressEnterInChild` for the Enter that `exec_pause` waits for, line 977) is not in it. `PromptReturns` and `BatchEnds` therefore
hold unless in the end somebody waits for a user who does not type, be it a `pause` or a second shell, or is lost (`StuckForEver`). A run in which the user
does type is not excused by that.

`SpellChecker!FairSpellSpec` is the echo server's: each thread runs on, and a client sends a word or `-1` sooner or later.

## 4. Proofs

### Echo server

Assumptions: those on the constants in `NodeQueue` and `EchoServer` (a finite, non-empty set of
workers distinct from the other threads; at least one cell; natural bounds). Nothing is assumed of the sizes, so
the theorems hold for every number of workers, cells, connections, lines and nodes, with or without
spurious wakeups and clients that leave.

| theorem | statement |
|---|---|
| `TypeCorrect` | `Spec => []TypeOK`: no pointer leaves the memory `malloc` handed out, until a text or a `FILE` overwrites a node in use |
| `SocketsAccepted` | `Spec => []SocketsAreAccepted`: until then, no worker uses an uninitialised socket |
| `MutualExclusion` | `Spec => []OneThreadPerQueue` |
| `JobWakeups` | `Spec => []NoLostJobWakeup` |
| `LogWakeups` | `Spec => []NoLostLogWakeup` |
| `QueuesBounded` | `Spec => []BoundedOvershoot` |

The argument of the first two is one inductive invariant, `TypeInv`. `TypeOK` alone is not enough for sockets: a
worker may read its socket from a node that was freed, handed out again and refilled, so the invariant says of
*every* node ever handed out that its socket was accepted, and of every serving worker that its own is; main
holds a connection exactly while it is at one of `HoldingLabels`. Queue operations are covered by lemmas about one heap
(`CreateNodeOK`, `PushedHeapOK`, `PoppedHeapOK`, `PushOK`): pointers stay below `brk`.

The other four rest on `SyncInv`. Its conjuncts `JobSync` and `LogSync` speak of counts of threads at certain
calls: exactly the holder of a mutex is between lock and unlock (`JobsHeld`, `LogHeld`); the wakeup
properties, which are inductive once the roles are known (only main sleeps on `cond2`, only the log thread on
`cond3`); and the bounds, strengthened by the threads already let through and the signals that may let one through
(`JobsBounded`: size + pending `cond2` signals + main on its way to push <= cells + workers). `CountMove` and
`CountSignal` say how a step changes every count; each action is then linear arithmetic.

### Signalling between threads

Assumptions: at least six threads, a positive number of signals per report, natural bounds.

| theorem | statement |
|---|---|
| `ThreadTypes` | `Spec => []TypeOK` |
| `UpdatesKept` | `Spec => []NoLostUpdates` |
| `ReceivedBounded` | `Spec => []ReceivedWithinSent` |
| `ReportsBounded` | `Spec => []ReportsWithinSent`: in each line of a report received is at most `2 * (sent + Cardinality(Generators))` |
| `LossesCovered` | `Spec => []LostSignalsAreCovered` |
| `ReportsAreSnapshots` | `Spec => []ReportIsSnapshot` |
| `ImplementsCountedSignals` | `Spec => CountsSignals` |

`ThreadInv` is inductive: types and roles; `LockInv` (a thread between load and store holds the mutex, and the
value it loaded is still the counter's); `NoLostUpdates`, which needs `LockInv`; and `TakenWithinBegun`: signals
taken, pending and still to be sent by a round that has begun are at most two per round. `ReportsWithinSent`, stated in the proof module, says
something only for many rounds, so no run checks it. `ReceivedWithinSent` is
not inductive by itself, since it says nothing of what `sent` counts; it follows from the last two by splitting the
generators in a round by where they are (`CountsBound`). `SendingMove`, `CountingMove` and `NotifiedMove` say
how one thread's step changes each count. The refinement needs only that a thread about to store finds its
counter below the abstract bound, because it is itself one of those counted (`StepCounts`).

### Signalling between processes

Assumptions: at least one generator, a positive number of returns per report, natural bounds, any sets of slow,
failing and lingering children.

| theorem | statement |
|---|---|
| `ProcessTypes` | `Spec => []TypeOK` |
| `ProcessUpdatesKept` | `Spec => []NoLostUpdates` |
| `ProcessReportsAreSnapshots` | `Spec => []ReportIsSnapshot` |
| `ProcessesCountSignals` | `Spec => CountsSignals` |
| `BothUpdatersHaveCounted` | `Spec => []BothUpdatersCount` |

`ProcessInv` is inductive. `LockInv` says of dead processes, too, that one at a label between lock and unlock holds the mutex: a dead one
keeps it, and so nobody is ever again in its place. Its second part is that the value loaded is still the counter's, its third that the
first line of a report still holds. `TakenWithinSent` bounds, per signal, the pauses ended, plus the updaters to which it is pending, plus
two for each generator about to `kill`, by twice what was sent: here the count comes before the sending, so unlike between threads
no round need be added. With `NoLostUpdates` it bounds the received counter by twice the sent one at every moment, which
a report then inherits as its four numbers are of one moment; the refinement follows in the same way. Each step changes these
counts as `SendingMove`, `CountingMove` and `NotifiedMove` say.

`BothUpdatersCount` needs to know *which* updaters have counted, and nobody keeps a count for each. `HeardInv` says that there is a set `V`
of updaters (`Heard`) that has no more updaters of a signal than pauses it ended, has everybody who is counting now or goes back to `pause`, and of those ready in time
has everybody alive to whom a signal was sent, unless it is still pending. A return of `pause` puts its updater into the set
(`HeardMore`); a signal handled outside `pause` changes nothing, since it finds its updater counting, or on its way back to `pause`, and hence in the set already, or at its first
`pause`, before any generator was started; and a `kill` reaches all
that are ready in time, because `StartOK` has them at their loops, or dead, before the first generator is forked. That rests on
`sleep(1)` being long enough, hence `Slow`. At a quiet moment the set holds both updaters, so two pauses have ended, and with
`NoLostUpdates` two signals are counted.

### Echo server: contents of the queues

The properties about contents are stated for `~recycled`, since `free` of a node still in use (line 421) makes them false once `malloc`
hands it out again; that they hold until then, for every number of workers, cells, clients and nodes, is what is proved.

| theorem | statement |
|---|---|
| `ListsIntact` | `Spec => []QueuesIntact` |
| `ConnectionsInOnePlace` | `Spec => []OnePlacePerClient` |
| `EntriesInOrder` | `Spec => []LogKeepsOrder` |
| `ImplementsFifo` | `Spec => JobQueueIsFifo`: the job queue refines `Fifo` |

`QueueInv` is inductive, together with `TypeInv`. Its part `Lists` gives each queue a witness, the sequence of its nodes (`IsList`): `front`
is the first, each one's `next` the following, the last one's null, no address twice, as many as `size`; the two sequences share no node, and
no node behind a front is freed. That the operators of `NodeQueue`, which follow `next` pointers, agree with such a sequence
(`HopsOfList`, `ListOperators`) would be an induction over the list; instead the proof takes the least index at which the two would
differ (`LeastNumber`, from the well-foundedness of `<`), which gives the contradiction one step earlier. `PushTwoLists` and
`PopTwoLists` then say what a push and a pop do to both lists: nothing to the other one, and to its own `Append` and `Tail`.

`OnePlace` says that the connections in the job queue, with the workers, with `main` and closed are a partition of the accepted ones; four lemmas
(`PlaceAccepted`, `PlaceQueued`, `PlaceTaken`, `PlaceClosed`) are the four moves. `InTurn` says that the entries of a client on their way, in the
log queue and in the file are numbered `1, 2, ...` up to those composed (`Pushed`), and `EndInv` that after the terminator's there is
none. Since a client's entries are composed by its one worker, `OnePlace` is what makes `InTurn` inductive. For the refinement, a step of `main`, of a worker or of
anything else changes the job queue as `PushAppends` and `PopTakesFirst` say, or not at all (`JobsStill`).

### Spell checker

Assumptions: those of the echo server, and that lines have at least the two bytes that are cut off.

| theorem | statement |
|---|---|
| `SpellTypes` | `SpellSpec => [](TypeOK /\ SocketsAreAccepted)` |
| `SpellMutualExclusion` | `SpellSpec => []OneThreadPerQueue` |
| `SpellWakeups` | `SpellSpec => [](NoLostJobWakeup /\ NoLostLogWakeup)` |
| `SpellQueuesBounded` | `SpellSpec => []BoundedOvershoot` |
| `SpellResultsInOrder` | `SpellSpec => []ResultsInOrder` |
| `SpellConnections` | `SpellSpec => [](QueuesIntact /\ OnePlacePerClient)` |

The invariants are the echo server's `SyncInv` and `QueueInv`, and so are most steps; the three of its own are a lemma each. That a goodbye
signals nobody does no harm because it puts nothing in the log queue: the signal of the last word is still the one that counts. `WordsInv`
adds that every entry, on its way or logged, is a word with the result the dictionary gives it (`WordsFrom`), from which a word among those looked at is CORRECT
because both sides of the comparison lose the same bytes (`KnownWordIsCorrect`). The
`spell` run checks `ResultsInOrder`; `echo_safety` and `echo_faults` check the others on the echo server.

### Shell

Assumptions: scripts are sequences of lines, lines sequences of words; there are natural numbers of processes, descriptors, failing forks and reads, and
at least four descriptors, as the first process has with a batch file open. Nothing is assumed of the programs, of what lines say, or of `Garbage`.

| theorem | statement |
|---|---|
| `ShellTypes` | `Spec => []TypeOK` |
| `ChildrenCounted` | `Spec => []UnreapedChildren` |
| `PipesAreClosed` | `Spec => []PipesClosed` |
| `FilesAreInPlace` | `Spec => []RedirectionsHold` |
| `EachLineOnce` | `Spec => []LinesRunOnce` |

`ShellInv` is inductive. It has these parts:

* `Sound`, of each process by itself. Standard input and output are open in a shell and in a child until it has
  redirected them, hence `pipe` and `open` never hand out 0 or 1, which `OpenFiles` and `Plumbed` rely on; the
  shell has both ends of a pipe at hand from `pipe` to `Wait`, at different descriptors (`HasPipe`); and a child past
  its redirections has the files of its line (`Redirected`).
* `Reaping`: a shell has `owed` children, and one more between `fork` and `wait`. At the prompt that is `UnreapedChildren`; by itself it
  would not say what `Wait` finds. `Parents` adds that nobody is its own parent and only shells are parents, so that a slot is
  clean when a fork takes it.
* `FirstIsFirst`: the first shell's pipe ends are two for each leak, and two while it has a pipe.
* `LinesInv`: in a batch, a line was worked on as often, *plus* the shells that still have it in their buffer (`Readers`), as once more than there have been
  second shells; before the file is read nobody has any line. A second shell adds one to both sides; a line read moves one from
  the readers to the lines worked on.

`LocalStep`, `ForkStep`, `WaitStep` and `EndStep` say once what a step of one process, a fork, a `wait` and an end do to the counts of children of
everybody; each action is then a question about one or two records. `PipeHasName` shows that a free descriptor leaves a name for a
new pipe, so that the set `Pipes` bounds nothing.

### Tools

The four tools are one specification, `Tools`, which declares the constants and instantiates `Tups`, `Tucp` and `Tuls`; what the theorems assume of the constants is
`ConstantsOK` of `Tups`, `Tucp` and `Tuls`, assumed in `Tools` (`TupsConstants`, `TucpConstants`, `TulsConstants`), so that TLC checks it of the instance, as it does
`ParserConstants`: no token is the empty word, since `strtok` finds none. For `tups`: process numbers are
positive, a process that is there has at least one word in its name, and words too long for a path are no process numbers. For `tucp`: each word names a file or a directory, one with a slash at its end
names the directory it does without, and a file behind `./` is that file. For `tuls`: what leads to a path are directories. Nothing is assumed of how many tokens, processes, words, files, blocks and
directories there are, nor of how deep they lie.

| theorem | statement |
|---|---|
| `LinesAreUnderstood` | `Spec => []LinesParse` |
| `CrashesExplained` | `Spec => []CrashesHaveReasons` |
| `ListingsComplete` | `Spec => []ListingsAreComplete` |
| `CopiesComplete` | `Spec => []CopiesAreComplete` |

`LinesParse` is about a loop, so its proof has an invariant for the loop and not for the steps of `Spec`, of which it only needs that a line is a sequence of tokens.
`ShapeOK(w, k, st)` says what `process`'s variables `st` know of the line `w` after `k` tokens: the words of the command are its first tokens (`CommandOK`), behind them
stand the redirections seen, in the order they came (`FilesOK`), the names are the tokens behind those (`NamesOK`), a redirection at the very end has no name yet (`PendingOK`), and
what comes after them is a second command, an ampersand, or the token for which the line was refused (`TailOK`). `ShapeGoesOn` keeps it over one turn, one
case for each thing the loop may do. That the loop is `FoldLeft`, a recursive function on the sets of positions, is `LoopBegins`, `LoopGoesOn` and `LoopIsFold`: they
say of `LoopsTo(w, k, st)` what a fold does with no token and with one more. The induction over `k` is `SetInduction`, which has a set where the library's
theorems have an operator: the least number that is missing from the set cannot be. At the end of the line there are two questions. `SplitIsFound`: a way to read the line is the
one the loop found, since the token behind each of its parts is never one that could have continued or left out that part. `FoundIsSplit`: what the loop did not
refuse is such a reading. `NamesAreFound` and `CommandsAreFound` then compare what it stored with what stands there.

`CrashInv` is inductive. A crash is one step, so the work is to know what the step before it checked: `Steady` (who was there all the
time still is), `ModeOK` (which parser is at which calls), `FoundOK` (a process that was found and is gone has ended since), `WordsOK` (where the word is of which the path is made) and `NumberOK`. The last says when there is a process to work on: if `main`
saw a `-p`, either it is still ahead of `getopt`, or there was a `--` before it. `ListInv` is about the listing: `PassedAreListed` has
every process behind `readdir`'s position listed or in work, `EachOnce` has those listed at or before that position, which is what keeps the next one
from being there, and `FieldsInPlace` follows the fields from `parseStat` to the line. `StatFields` computes the fields of a stat line, for any number of words in the
name and of fields behind it.

`TulsInv` is inductive. `NothingMissed` says that what is listed is what there is to list, but for what is `Pending`: left to read in one of the
directories the lister is in, or below that. For a step to take exactly one path out of `Pending`, no directory may have left what leads to the directories
further in, which is `StackOK`. Three lemmas say what reading an entry, going into it and coming back do to a stack (`EntryTaken`, `StackPush`, `StackPop`). That each line
stands under its directory (`InPlace`) needs `OpenLines`: behind the line of each directory the lister is in, all lines are indented more. The `CHOOSE` in
`Under` is settled last (`UnderInPlace`). When the tool fails or crashes, the step that does so tells which directory was to blame, and `StackOK` how deep it lies.

`TucpInv` is inductive. `TargetOK` says that the open destination is the one meant, one astray, or none, by cases of where a slash is found
(`TargetOfDestination`); `Untouched`, the first half of the property, follows step by step, as only the two steps that write change a file (`FilesChange`). For the
second half, `CopyUnderWay` says that what is copied and what is left to read are together what the source had (`Had`), from the opening of the destination on, which leaves nothing of a source that is the destination itself; `OpenedOnly`, that
no destination changes before it is opened, so that a source is what it was unless an earlier copy was made to it; `CopiesWhole`, that the earlier copies stay as they are until a source of the same name is begun.

### Out of the provers' reach

Liveness stays with TLC: `EveryClientServed`, `EveryEntryLogged`, `MaxCountEnds`, `EveryProcessEnds`, `PromptReturns`, `BatchEnds` and `EveryWordLogged` rest on fairness, and
so on ENABLED, which the prover does not handle. So stay the four violated properties, of which TLC has the counterexamples. All other properties of the passing runs, every invariant,
every action property and every refinement, are theorems. The library's induction theorems take an operator as a parameter, which the installed
provers cannot instantiate; where a proof needs induction over data, it goes by a least number (`LeastNumber`) or a set (`SetInduction`) instead.

## 5. Not modelled

* Text: prompts, formatting, time stamps, buffer sizes and the string handling around them. A log entry is the
  client, its number and whether it is the last one.
* Option parsing and `open_listenfd`: the model starts behind them, with options `main` accepted.
* `accept` that fails (the loop goes round), `fopen` that fails, reuse of a descriptor number after `close`
  (a socket is the connection it was accepted for), and tearing of a node while it is written (nodes
  are written under a mutex; the read at line 473 sees a whole socket).
* In `ThreadSignaling.cpp`: the delays between signals and the average times in a report (no step depends on
  them), and the branch for a fixed running time, which `TIME_TO_RUN` excludes at compile time.
* In `ProcSignaling.cpp`: failures of `shmget` and `shmat`, delays, average times, the branch for a fixed running time. The build that
  `testingDesign.md:17` gives puts `procType[8]` in padding of the stack; a build in which the ninth store does harm is not modelled. On Linux
  `kill(-1, ...)` spares the caller, as the model has it. `myProcesses.cpp` is an earlier copy that reports every ten signals.
* In the shell: what built-ins print, the environment table, buffering of output. The terminal has no end of file; a batch file fits in one buffer and
  its lines count as equally long (an offset in lines instead of bytes). A second shell that reads from a pipe is "lost": what it makes of the bytes
  of another program is anybody's guess; so is a shell whose `pipe` failed, which goes on with descriptors it never set. `cd` and `dir`
  compare an argument they never stored; both outcomes are modelled, a crash is not. `help` runs `more` through `system`; it counts as a built-in that ends.
* In `tups`: the text of the output, times in it; the reasons for which `opendir` of `/proc` itself could fail. Behind an array that was overrun the tool crashes or goes
  on as if nothing had happened; other effects are not modelled.
* In `tucp` and `tuls`: permissions other than directories that cannot be opened, full disks, links. In `tucp` also paths longer than `path[1000]` and the directory's name in
  `malloc(strlen(...))` bytes, without room for its end (lines 105, 148): both are taken to do no harm, but that the name may have something behind it is modelled
  (`Shortened`). In `tuls` the same `malloc` for the argument.
* In the spell checker: ports, `open_listenfd`, the text of messages, `recv` that returns part of a line, `job->client` (line 327), which is stored and
  never used.
* Not modelled at all: the echo client beyond what the server sees of it (a straight sequence of blocking calls), the other shells, the spell
  checker's test programs, earlier copies of `tups`, `myCode.c` (a draft of `tuls`), and the course's samples. They are superseded,
  or nothing the system uses.

## 6. Plan

Done so far: the echo server, both signalling programs, the shell, the spell checker and the tools, with proofs of all safety
properties.

What is left, in this order:

1. Larger instances: a second cell in `spell`, three rounds in the signalling runs, a `tucp` with paths that do not fit.
2. `tups` with its older copies as variants, and the echo client as a process of its own opposite the server.
