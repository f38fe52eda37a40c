---------------------------- MODULE ProcSignaling ----------------------------
(***************************************************************************)
(* The signal exchange between processes of Project 4 (ProcSignaling.cpp): *)
(* main forks updaters, a reporter and generators, which share counters.   *)
(* A generator counts a signal and sends it to the whole process group;    *)
(* updaters and the reporter have handlers for it and count the returns of *)
(* pause(); main ends everybody with SIGINT when enough signals were sent. *)
(*                                                                         *)
(* A value of pc names the next call the process makes.  A signal that is  *)
(* not blocked interrupts its process wherever that is: only a signal that *)
(* arrives in pause() makes pause() return.                                *)
(***************************************************************************)
EXTENDS Naturals, Sequences, FiniteSets

CONSTANTS
  SUB_PROCESSES,      \* 8 in the source; the loop forks one process more
  MAX_SIGNAL_COUNT,   \* 100000 in the source
  ReportEvery,        \* 20 in the source (line 355)
  MaxRounds,          \* how many signals the generators send (a bound)
  Slow,               \* children not ready one sleep(1) after their fork
  NotForked,          \* children whose fork may fail
  Lingering           \* children that may go on for a while after a SIGINT (a bound)

\* The indices in procType.  Processes 0 to 4 are the updaters and the
\* reporter; the rest generate, but for the last, one past the array.
Updaters == 0 .. 3
Reporter == 4
Generators == 5 .. SUB_PROCESSES - 1
Ninth == SUB_PROCESSES
Children == 0 .. SUB_PROCESSES
Killed == 0 .. SUB_PROCESSES - 1      \* the ones main's loop signals
Main == SUB_PROCESSES + 1
Processes == 0 .. SUB_PROCESSES + 1
NoProcess == SUB_PROCESSES + 2

ASSUME ProcessesAssumption == SUB_PROCESSES \in Nat /\ SUB_PROCESSES > 5
ASSUME CountsAssumption ==
  MAX_SIGNAL_COUNT \in Nat /\ ReportEvery \in Nat \ {0} /\ MaxRounds \in Nat
ASSUME FaultsAssumption ==
  Slow \subseteq Children /\ NotForked \subseteq Children /\ Lingering \subseteq Children

SIGUSR1 == "SIGUSR1"
SIGUSR2 == "SIGUSR2"
Signals == {SIGUSR1, SIGUSR2}
NoSignal == "none"

SignalOf(u) == IF u < 2 THEN SIGUSR1 ELSE SIGUSR2
UpdatersOf(s) == {u \in Updaters : SignalOf(u) = s}
Receivers == Updaters \cup {Reporter}
ReceiversOf(s) == UpdatersOf(s) \cup {Reporter}

VARIABLES
  pc,                   \* where each process is, or was when it died
  dead,                 \* the children a signal ended
  mutex,                \* per signal, who holds mutexOne or mutexTwo
  sent, received,       \* per signal, the shared counters
  pending,              \* per receiver, signals sent to it and not delivered
  interrupted,          \* the children SIGINT was sent to
  choice,               \* per generator, the signal of its round, if it is in one
  tmp,                  \* per process, the counter it loaded and still needs
  concurrentProcesses,  \* what the reporter counted since its last report
  log_open,             \* whether logP.txt could be opened
  log,                  \* the lines of logP.txt
  next,                 \* how many children main forked, then signalled
  unforked,             \* the children whose fork failed
  begun, taken          \* history: per signal, rounds begun and pauses ended by it

reporterVars == <<concurrentProcesses, log_open, log>>
mainVars == <<next, unforked>>
histories == <<begun, taken>>
counters == <<mutex, sent, received>>
vars == <<pc, dead, counters, pending, interrupted, choice, tmp, reporterVars, mainVars, histories>>

SetupLabels == {"unblock", "install", "enter"}
GeneratorLabels == {"choose", "lockSent", "countSent", "kill"}
UpdaterLabels == {"loop", "pause", "lockReceived", "countReceived"}
ReporterLabels == {"loop", "pause", "open", "lockOne", "lockTwo", "firstLine", "secondLine"}
MainLabels == {"fork", "poll", "pollSecond", "killAll", "print", "exited"}
ReadyLabels == UpdaterLabels \cup ReporterLabels \cup GeneratorLabels

Init ==
  /\ pc = [p \in Processes |-> IF p = Main THEN "fork" ELSE "unborn"]
  /\ dead = {}
  /\ mutex = [s \in Signals |-> NoProcess]
  /\ sent = [s \in Signals |-> 0]
  /\ received = [s \in Signals |-> 0]
  /\ pending = [r \in Receivers |-> {}]
  /\ interrupted = {}
  /\ choice = [g \in Generators |-> NoSignal]
  /\ tmp = [p \in Processes |-> 0]
  /\ concurrentProcesses = 0
  /\ log_open = FALSE
  /\ log = <<>>
  /\ next = 0
  /\ unforked = {}
  /\ begun = [s \in Signals |-> 0]
  /\ taken = [s \in Signals |-> 0]

-----------------------------------------------------------------------------
At(p, label) == pc[p] = label /\ p \notin dead

Goto(p, label) == pc' = [pc EXCEPT ![p] = label]

Alive(p) == pc[p] \notin {"unborn", "returned"} /\ p \notin dead

Die(p) ==
  /\ dead' = dead \cup {p}
  /\ UNCHANGED <<pc, counters, pending, interrupted, choice, tmp, reporterVars, mainVars, histories>>

(***************************************************************************)
(* main: the fork loop.  sleep(1) is its only synchronisation: every child *)
(* but the slow ones is ready before the next is forked.                   *)
(***************************************************************************)
Ready(p) == pc[p] \in ReadyLabels \/ p \in dead

StartLabel(p) ==
  IF p \in Receivers THEN "unblock" ELSE IF p \in Generators THEN "choose" ELSE "returned"

ForkTo(labels) ==
  /\ At(Main, "fork")
  /\ \A p \in 0 .. next - 1 : Ready(p) \/ p \in Slow \cup unforked
  /\ next' = next + 1
  /\ pc' = [pc EXCEPT ![next] = labels[next],
                      ![Main] = IF next = Ninth THEN "poll" ELSE "fork"]
  /\ UNCHANGED <<dead, counters, pending, interrupted, choice, tmp, reporterVars, histories>>

\* The ninth child leaves the loop and returns from main.
Fork ==
  /\ ForkTo([p \in Children |-> StartLabel(p)])
  /\ UNCHANGED unforked

\* fork returns -1: main prints a message and keeps -1 as the child's pid.
ForkFails ==
  /\ next \in NotForked
  /\ ForkTo([p \in Children |-> "unborn"])
  /\ unforked' = unforked \cup {next}

(***************************************************************************)
(* main: maxCountReached reads the counters without a lock, one after the  *)
(* other.  At the maximum, main sends SIGINT to the processes of procType. *)
(***************************************************************************)
PollFirst ==
  /\ At(Main, "poll")
  /\ tmp' = [tmp EXCEPT ![Main] = sent[SIGUSR1]]
  /\ Goto(Main, "pollSecond")
  /\ UNCHANGED <<dead, counters, pending, interrupted, choice, reporterVars, mainVars, histories>>

PollSecond ==
  /\ At(Main, "pollSecond")
  /\ tmp' = [tmp EXCEPT ![Main] = 0]
  /\ IF tmp[Main] + sent[SIGUSR2] >= MAX_SIGNAL_COUNT
     THEN Goto(Main, "killAll") /\ next' = 0
     ELSE Goto(Main, "poll") /\ UNCHANGED next
  /\ UNCHANGED <<dead, counters, pending, interrupted, choice, reporterVars, unforked, histories>>

Interrupt(targets) ==
  /\ interrupted' = interrupted \cup targets
  /\ dead' = dead \cup {p \in targets : p \notin Lingering}

\* Mutant of KillChild: stops one process short.
KillChildButLast ==
  /\ At(Main, "killAll")
  /\ Interrupt(IF next \in unforked THEN {p \in Children : Alive(p)} ELSE {next})
  /\ next' = next + 1
  /\ Goto(Main, IF next + 2 \in Killed THEN "killAll" ELSE "print")
  /\ UNCHANGED <<pending, counters, choice, tmp, reporterVars, unforked, histories>>

\* kill(procType[y], SIGINT); kill(-1, SIGINT) goes to every process there is,
\* those of other programs too.
KillChild ==
  /\ At(Main, "killAll")
  /\ Interrupt(IF next \in unforked THEN {p \in Children : Alive(p)} ELSE {next})
  /\ next' = next + 1
  /\ Goto(Main, IF next + 1 \in Killed THEN "killAll" ELSE "print")
  /\ UNCHANGED <<pending, counters, choice, tmp, reporterVars, unforked, histories>>

\* The totals, printed without a lock two seconds later, and exit(0).
PrintTotals ==
  /\ At(Main, "print")
  /\ Goto(Main, "exited")
  /\ UNCHANGED <<dead, counters, pending, interrupted, choice, tmp, reporterVars, mainVars, histories>>

-----------------------------------------------------------------------------
(***************************************************************************)
(* Signals.                                                                *)
(***************************************************************************)
\* SIGINT ends a child wherever it is: through the default action before
\* signal() and through exit(0) in the handler behind it.  A mutex it holds
\* stays locked.
DieOfInterrupt(p) ==
  /\ p \in interrupted
  /\ Alive(p)
  /\ Die(p)

\* A receiver unblocks its signals before it installs the handlers: a signal
\* that is pending, or comes in between, takes the default action.
Unblock(r) ==
  /\ At(r, "unblock")
  /\ pending[r] = {}
  /\ Goto(r, "install")
  /\ UNCHANGED <<dead, counters, pending, interrupted, choice, tmp, reporterVars, mainVars,
                 histories>>

DieOfDefault(r) ==
  /\ At(r, "unblock") \/ At(r, "install")
  /\ pending[r] # {}
  /\ Die(r)

Install(r) ==
  /\ At(r, "install")
  /\ Goto(r, "enter")
  /\ UNCHANGED <<dead, counters, pending, interrupted, choice, tmp, reporterVars, mainVars, histories>>

\* The call of pause(), behind signal() the first time, behind an unlock later:
\* a signal that comes just before it is handled and forgotten.
EnterPause(r) ==
  /\ At(r, "enter") \/ At(r, "loop")
  /\ Goto(r, "pause")
  /\ UNCHANGED <<dead, counters, pending, interrupted, choice, tmp, reporterVars, mainVars, histories>>

\* The handlers of what is pending run, and pause() returns, once for all.
PauseReturns(r) ==
  /\ At(r, "pause")
  /\ pending[r] # {}
  /\ pending' = [pending EXCEPT ![r] = {}]
  /\ IF r \in Updaters
     THEN /\ taken' = [taken EXCEPT ![SignalOf(r)] = @ + 1]
          /\ Goto(r, "lockReceived")
     ELSE /\ Goto(r, "open")
          /\ UNCHANGED taken
  /\ UNCHANGED <<dead, counters, interrupted, choice, tmp, reporterVars, mainVars, begun>>

\* Mutant of HandledOutsidePause: a handler that jumps back to the loop.
HandledAnewOutsidePause(r) ==
  /\ Alive(r)
  /\ pc[r] \notin {"unblock", "install", "pause"}
  /\ pending[r] # {}
  /\ pending' = [pending EXCEPT ![r] = {}]
  /\ Goto(r, "pause")
  /\ UNCHANGED <<dead, counters, interrupted, choice, tmp, reporterVars, mainVars, histories>>

\* Anywhere else behind signal() the handler runs and the process goes on: a
\* signal that comes then is not counted.
HandledOutsidePause(r) ==
  /\ Alive(r)
  /\ pc[r] \notin {"unblock", "install", "pause"}
  /\ pending[r] # {}
  /\ pending' = [pending EXCEPT ![r] = {}]
  /\ UNCHANGED <<pc, dead, counters, interrupted, choice, tmp, reporterVars, mainVars, histories>>

-----------------------------------------------------------------------------
(***************************************************************************)
(* The mutexes: an increment is a load and a store between lock and unlock.*)
(***************************************************************************)
Lock(p, s) == mutex[s] = NoProcess /\ mutex' = [mutex EXCEPT ![s] = p]

Unlock(s) == mutex' = [mutex EXCEPT ![s] = NoProcess]

(***************************************************************************)
(* The generators.                                                         *)
(***************************************************************************)
Choose(g) ==
  /\ At(g, "choose")
  /\ begun[SIGUSR1] + begun[SIGUSR2] < MaxRounds
  /\ \E s \in Signals :
       /\ choice' = [choice EXCEPT ![g] = s]
       /\ begun' = [begun EXCEPT ![s] = @ + 1]
  /\ Goto(g, "lockSent")
  /\ UNCHANGED <<dead, counters, pending, interrupted, tmp, reporterVars, mainVars, taken>>

\* Mutant of LockSent: does not wait for the mutex.
LockSentAnyway(g) ==
  /\ At(g, "lockSent")
  /\ mutex' = [mutex EXCEPT ![choice[g]] = g]
  /\ tmp' = [tmp EXCEPT ![g] = sent[choice[g]]]
  /\ Goto(g, "countSent")
  /\ UNCHANGED <<dead, sent, received, pending, interrupted, choice, reporterVars, mainVars, histories>>

LockSent(g) ==
  /\ At(g, "lockSent")
  /\ Lock(g, choice[g])
  /\ tmp' = [tmp EXCEPT ![g] = sent[choice[g]]]
  /\ Goto(g, "countSent")
  /\ UNCHANGED <<dead, sent, received, pending, interrupted, choice, reporterVars, mainVars, histories>>

CountSent(g) ==
  /\ At(g, "countSent")
  /\ sent' = [sent EXCEPT ![choice[g]] = tmp[g] + 1]
  /\ tmp' = [tmp EXCEPT ![g] = 0]
  /\ Unlock(choice[g])
  /\ Goto(g, "kill")
  /\ UNCHANGED <<dead, received, pending, interrupted, choice, reporterVars, mainVars, histories>>

\* kill(0, ...): the signal becomes pending for every process of the group; in
\* main, the generators and the other updaters it stays blocked for ever.
Kill(g) ==
  /\ At(g, "kill")
  /\ pending' = [r \in Receivers |->
       IF Alive(r) /\ r \in ReceiversOf(choice[g]) THEN pending[r] \cup {choice[g]}
       ELSE pending[r]]
  /\ choice' = [choice EXCEPT ![g] = NoSignal]
  /\ Goto(g, "choose")
  /\ UNCHANGED <<dead, counters, interrupted, tmp, reporterVars, mainVars, histories>>

(***************************************************************************)
(* The updaters.                                                           *)
(***************************************************************************)
LockReceived(u) ==
  /\ At(u, "lockReceived")
  /\ Lock(u, SignalOf(u))
  /\ tmp' = [tmp EXCEPT ![u] = received[SignalOf(u)]]
  /\ Goto(u, "countReceived")
  /\ UNCHANGED <<dead, sent, received, pending, interrupted, choice, reporterVars, mainVars, histories>>

\* Mutant of CountReceived: counts the signal for both updaters at once.
CountReceivedTwice(u) ==
  /\ At(u, "countReceived")
  /\ received' = [received EXCEPT ![SignalOf(u)] = tmp[u] + 2]
  /\ tmp' = [tmp EXCEPT ![u] = 0]
  /\ Unlock(SignalOf(u))
  /\ Goto(u, "loop")
  /\ UNCHANGED <<dead, sent, pending, interrupted, choice, reporterVars, mainVars, histories>>

CountReceived(u) ==
  /\ At(u, "countReceived")
  /\ received' = [received EXCEPT ![SignalOf(u)] = tmp[u] + 1]
  /\ tmp' = [tmp EXCEPT ![u] = 0]
  /\ Unlock(SignalOf(u))
  /\ Goto(u, "loop")
  /\ UNCHANGED <<dead, sent, pending, interrupted, choice, reporterVars, mainVars, histories>>

(***************************************************************************)
(* The reporter, behind pause().  It opens the log file anew for every     *)
(* signal; what it writes to one it could not open is dropped.  Whether    *)
(* the file is open matters only for a report.                             *)
(***************************************************************************)
OpenLog ==
  /\ At(Reporter, "open")
  /\ concurrentProcesses' = concurrentProcesses + 1
  /\ \/ concurrentProcesses' # ReportEvery /\ Goto(Reporter, "loop") /\ UNCHANGED log_open
     \/ concurrentProcesses' = ReportEvery /\ Goto(Reporter, "lockOne") /\ log_open' \in BOOLEAN
  /\ UNCHANGED <<dead, counters, pending, interrupted, choice, tmp, log, mainVars, histories>>

LockOne ==
  /\ At(Reporter, "lockOne")
  /\ Lock(Reporter, SIGUSR1)
  /\ Goto(Reporter, "lockTwo")
  /\ UNCHANGED <<dead, sent, received, pending, interrupted, choice, tmp, reporterVars, mainVars,
                 histories>>

\* Mutant of LockTwo: takes the first mutex for both.
LockTwoNot ==
  /\ At(Reporter, "lockTwo")
  /\ concurrentProcesses' = 0
  /\ Goto(Reporter, "firstLine")
  /\ UNCHANGED <<dead, counters, pending, interrupted, choice, tmp, log_open, log, mainVars, histories>>

\* Mutant of LockTwo: counts on from the last report.
LockTwoCountsOn ==
  /\ At(Reporter, "lockTwo")
  /\ Lock(Reporter, SIGUSR2)
  /\ Goto(Reporter, "firstLine")
  /\ UNCHANGED <<dead, sent, received, pending, interrupted, choice, tmp, reporterVars, mainVars,
                 histories>>

LockTwo ==
  /\ At(Reporter, "lockTwo")
  /\ Lock(Reporter, SIGUSR2)
  /\ concurrentProcesses' = 0
  /\ Goto(Reporter, "firstLine")
  /\ UNCHANGED <<dead, sent, received, pending, interrupted, choice, tmp, log_open, log, mainVars,
                 histories>>

Line(s) == [signal |-> s, sent |-> sent[s], received |-> received[s]]

Written(line) == IF log_open THEN Append(log, line) ELSE log

FirstLine ==
  /\ At(Reporter, "firstLine")
  /\ log' = Written(Line(SIGUSR1))
  /\ Goto(Reporter, "secondLine")
  /\ UNCHANGED <<dead, counters, pending, interrupted, choice, tmp, concurrentProcesses, log_open,
                 mainVars, histories>>

SecondLine ==
  /\ At(Reporter, "secondLine")
  /\ log' = Written(Line(SIGUSR2))
  /\ mutex' = [s \in Signals |-> NoProcess]
  /\ Goto(Reporter, "loop")
  /\ UNCHANGED <<dead, sent, received, pending, interrupted, choice, tmp, concurrentProcesses, log_open,
                 mainVars, histories>>

-----------------------------------------------------------------------------
MainProcess == Fork \/ ForkFails \/ PollFirst \/ PollSecond \/ KillChild \/ PrintTotals

SendsRound(g) == LockSent(g) \/ CountSent(g) \/ Kill(g)

Receiver(r) ==
  Unblock(r) \/ DieOfDefault(r) \/ Install(r) \/ EnterPause(r) \/ PauseReturns(r) \/ HandledOutsidePause(r)

SignalUpdater(u) == LockReceived(u) \/ CountReceived(u)

ReporterProcess == OpenLog \/ LockOne \/ LockTwo \/ FirstLine \/ SecondLine

Next ==
  \/ MainProcess
  \/ \E p \in Children : DieOfInterrupt(p)
  \/ \E r \in Receivers : Receiver(r)
  \/ \E g \in Generators : Choose(g) \/ SendsRound(g)
  \/ \E u \in Updaters : SignalUpdater(u)
  \/ ReporterProcess

Spec == Init /\ [][Next]_vars

\* Every process runs on, whatever the others do, and a signal that is not
\* blocked is delivered.  Generators need not begin another round, but finish
\* the one they are in.
FairSpec ==
  /\ Spec
  /\ WF_vars(MainProcess)
  /\ \A p \in Children : WF_vars(DieOfInterrupt(p))
  /\ \A r \in Receivers : WF_vars(Receiver(r))
  /\ \A g \in Generators : WF_vars(SendsRound(g))
  /\ \A u \in Updaters : WF_vars(SignalUpdater(u))
  /\ WF_vars(ReporterProcess)

-----------------------------------------------------------------------------
(***************************************************************************)
(* Properties.                                                             *)
(***************************************************************************)
\* Generators, dead ones too, in a round of s that are at one of some labels.
Sending(s, labels) == {g \in Generators : choice[g] = s /\ pc[g] \in labels}

\* Updaters of s whose pause() returned and that did not count that.
Counting(s) == {u \in UpdatersOf(s) : pc[u] \in {"lockReceived", "countReceived"}}

PcOf(p) ==
  {"unborn"} \cup
  ( IF p = Main THEN MainLabels
    ELSE IF p \in Updaters THEN SetupLabels \cup UpdaterLabels
    ELSE IF p = Reporter THEN SetupLabels \cup ReporterLabels
    ELSE IF p = Ninth THEN {"returned"} ELSE GeneratorLabels )

\* Every variable keeps its type; a mutex is only ever with the processes that
\* use its counters, and the reporter reports exactly at a full count.
TypeOK ==
  /\ \A p \in Processes : pc[p] \in PcOf(p)
  /\ DOMAIN pc = Processes
  /\ dead \subseteq Children
  /\ mutex \in [Signals -> Generators \cup Receivers \cup {NoProcess}]
  /\ sent \in [Signals -> Nat]
  /\ received \in [Signals -> Nat]
  /\ pending \in [Receivers -> SUBSET Signals]
  /\ interrupted \subseteq Children
  /\ choice \in [Generators -> Signals \cup {NoSignal}]
  /\ tmp \in [Processes -> Nat]
  /\ concurrentProcesses \in 0 .. ReportEvery
  /\ concurrentProcesses = ReportEvery <=> pc[Reporter] \in {"lockOne", "lockTwo"}
  /\ log_open \in BOOLEAN
  /\ log \in Seq([signal : Signals, sent : Nat, received : Nat])
  /\ next \in 0 .. SUB_PROCESSES + 1
  /\ unforked \subseteq Children
  /\ begun \in [Signals -> Nat]
  /\ taken \in [Signals -> Nat]

\* No increment of a shared counter is lost (lines 260, 268, 441, 450), also
\* when processes die with a mutex: each counter is the number of rounds begun,
\* or of pauses ended, but for those whose process has yet to store its
\* increment or died before.
NoLostUpdates ==
  \A s \in Signals :
    /\ sent[s] + Cardinality(Sending(s, {"lockSent", "countSent"})) = begun[s]
    /\ received[s] + Cardinality(Counting(s)) = taken[s]

\* A report shows the counters of one moment (lines 359-386): while it is
\* written no process is changing a counter, the first line still holds when the
\* second is written, and as a generator counts a signal before it sends it, no
\* line shows more than two received for each one sent.
ReportIsSnapshot ==
  /\ pc[Reporter] \in {"firstLine", "secondLine"} =>
       \A p \in Generators \cup Updaters : pc[p] \notin {"countSent", "countReceived"}
  /\ pc[Reporter] = "secondLine" /\ log_open => log[Len(log)] = Line(SIGUSR1)
  /\ \A i \in DOMAIN log : log[i].received <= 2 * log[i].sent

Abstract == INSTANCE CountedSignals WITH ReceiversPerSignal <- 2

\* The processes implement counted signals as the threads do: each counter goes
\* up by one at a time, the sent one after its round began, the received one at
\* most twice per round, whatever pause() misses.
CountsSignals == Abstract!Spec

\* The signals of kind s have been delivered to updaters that were ready in time.
Quiet(s) ==
  /\ Sending(s, {"kill"}) = {}
  /\ \A u \in UpdatersOf(s) : u \notin Slow /\ At(u, "pause") /\ pending[u] = {}

\* A signal that does not end a pause() is not counted (line 253), but then an
\* earlier one was: when all is quiet again both updaters have counted.
BothUpdatersCount ==
  \A s \in Signals : Quiet(s) /\ sent[s] > 0 => received[s] >= 2

\* At the maximum every child ends and main exits, although SIGINT may end a
\* process that holds a mutex others wait for (lines 204, 295, 410), and
\* although the ninth child is not in the array main goes through.
EveryProcessEnds ==
  (sent[SIGUSR1] + sent[SIGUSR2] >= MAX_SIGNAL_COUNT)
    ~> pc[Main] = "exited" /\ \A p \in Children : ~Alive(p)
=============================================================================
