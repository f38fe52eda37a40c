--------------------------- MODULE ThreadSignaling ---------------------------
(***************************************************************************)
(* The signal exchange between threads of Project 4 (ThreadSignaling.cpp): *)
(* generators pick SIGUSR1 or SIGUSR2 at random, send it to its two        *)
(* updaters and to the reporter, and count it; updaters and the reporter   *)
(* take signals with sigwait, updaters count them, the reporter writes all *)
(* four counters to a log file after every ReportEvery signals.  main      *)
(* creates the threads and ends the process when enough signals were sent. *)
(*                                                                         *)
(* A value of pc names the next call the thread makes.  Both signals are   *)
(* blocked in every thread (lines 47-48), so a signal sent to a thread     *)
(* stays pending until its sigwait; one that is pending already is lost.   *)
(***************************************************************************)
EXTENDS Naturals, Sequences, FiniteSets

CONSTANTS
  SUB_PROCESSES,      \* the threads main creates: 8 in the source
  MAX_SIGNAL_COUNT,   \* 100000 in the source
  ReportEvery,        \* 20 in the source (line 305)
  MaxRounds           \* how many rounds the generators begin (a bound)

\* Threads 0 to 4 are the updaters and the reporter; the rest generate.
ASSUME ThreadsAssumption == SUB_PROCESSES \in Nat /\ SUB_PROCESSES > 5
ASSUME CountsAssumption ==
  MAX_SIGNAL_COUNT \in Nat /\ ReportEvery \in Nat \ {0} /\ MaxRounds \in Nat

SIGUSR1 == "SIGUSR1"
SIGUSR2 == "SIGUSR2"
Signals == {SIGUSR1, SIGUSR2}
NoSignal == "none"

\* The indices in processType.  main is no member of it.
Updaters == 0 .. 3
Reporter == 4
Generators == 5 .. SUB_PROCESSES - 1
Created == 0 .. SUB_PROCESSES - 1
Main == SUB_PROCESSES
Threads == 0 .. SUB_PROCESSES
NoThread == SUB_PROCESSES + 1

\* Which signal an updater waits for, and the two updaters of a signal.
SignalOf(u) == IF u < 2 THEN SIGUSR1 ELSE SIGUSR2
First(s) == IF s = SIGUSR1 THEN 0 ELSE 2
Second(s) == IF s = SIGUSR1 THEN 1 ELSE 3
UpdatersOf(s) == {First(s), Second(s)}

VARIABLES
  pc,                     \* where each thread is
  mutexOne, mutexTwo,     \* who holds count->mutexOne and count->mutexTwo
  sent,                   \* count->sentSIGUSR1 and count->sentSIGUSR2
  received,               \* count->receivedSIGUSR1 and count->receivedSIGUSR2
  pending,                \* per thread, the signals sent to it and not taken
  choice,                 \* per generator, the signal of its round, if it is in one
  tmp,                    \* per thread, the counter it loaded and still needs
  concurrentProcesses,    \* what the reporter counted since its last report
  log_open,               \* whether logT.txt could be opened
  log,                    \* the lines of logT.txt
  halted,                 \* whether SIGINT has ended the process
  begun,                  \* history: per signal, the rounds begun
  taken                   \* history: per signal, the signals updaters took

reporterVars == <<concurrentProcesses, log_open, log>>
histories == <<begun, taken>>
vars == <<pc, mutexOne, mutexTwo, sent, received, pending, choice, tmp, reporterVars,
          halted, histories>>

GeneratorLabels == {"choose", "killFirst", "killSecond", "killReporter", "lockSent", "countSent"}
UpdaterLabels == {"sigwait", "lockReceived", "countReceived"}
ReporterLabels == {"open", "sigwait", "lockReport", "firstLine", "secondLine"}
MainLabels == {"create", "poll", "pollSecond"}
StartLabel(t) ==
  IF t \in Updaters THEN "sigwait" ELSE IF t = Reporter THEN "open" ELSE "choose"

\* count comes from malloc, which runs no member initialiser; it is the first
\* memory of its size the process asks for, so the system has zeroed it.
Init ==
  /\ pc = [t \in Threads |-> IF t = Main THEN "create" ELSE "unborn"]
  /\ mutexOne = NoThread
  /\ mutexTwo = NoThread
  /\ sent = [s \in Signals |-> 0]
  /\ received = [s \in Signals |-> 0]
  /\ pending = [t \in Created |-> {}]
  /\ choice = [g \in Generators |-> NoSignal]
  /\ tmp = [t \in Threads |-> 0]
  /\ concurrentProcesses = 0
  /\ log_open = FALSE
  /\ log = <<>>
  /\ halted = FALSE
  /\ begun = [s \in Signals |-> 0]
  /\ taken = [s \in Signals |-> 0]

-----------------------------------------------------------------------------
At(t, label) == ~halted /\ pc[t] = label

Goto(t, label) == pc' = [pc EXCEPT ![t] = label]

(***************************************************************************)
(* main.                                                                   *)
(***************************************************************************)
CreateThread(t) ==
  /\ At(Main, "create")
  /\ pc[t] = "unborn"
  /\ \A u \in 0 .. t - 1 : pc[u] # "unborn"
  /\ pc' = [pc EXCEPT ![t] = StartLabel(t),
                      ![Main] = IF t = SUB_PROCESSES - 1 THEN "poll" ELSE "create"]
  /\ UNCHANGED <<mutexOne, mutexTwo, sent, received, pending, choice, tmp, reporterVars,
                 halted, histories>>

\* maxCountReached adds the counters without a lock, one load after the other.
PollFirst ==
  /\ At(Main, "poll")
  /\ tmp' = [tmp EXCEPT ![Main] = sent[SIGUSR1]]
  /\ Goto(Main, "pollSecond")
  /\ UNCHANGED <<mutexOne, mutexTwo, sent, received, pending, choice, reporterVars,
                 halted, histories>>

\* Mutant of PollSecond: stops only when the maximum is exceeded.
PollForMore ==
  /\ At(Main, "pollSecond")
  /\ tmp' = [tmp EXCEPT ![Main] = 0]
  /\ halted' = (tmp[Main] + sent[SIGUSR2] > MAX_SIGNAL_COUNT)
  /\ Goto(Main, "poll")
  /\ UNCHANGED <<mutexOne, mutexTwo, sent, received, pending, choice, reporterVars, histories>>

\* At the maximum main sends SIGINT to processType[0].  No thread blocks or
\* handles SIGINT: the first one sent ends all threads, and main among them
\* before it signals the others and prints the totals (lines 103-108).
PollSecond ==
  /\ At(Main, "pollSecond")
  /\ tmp' = [tmp EXCEPT ![Main] = 0]
  /\ halted' = (tmp[Main] + sent[SIGUSR2] >= MAX_SIGNAL_COUNT)
  /\ Goto(Main, "poll")
  /\ UNCHANGED <<mutexOne, mutexTwo, sent, received, pending, choice, reporterVars, histories>>

(***************************************************************************)
(* The generators.                                                         *)
(***************************************************************************)
Choose(g) ==
  /\ At(g, "choose")
  /\ begun[SIGUSR1] + begun[SIGUSR2] < MaxRounds
  /\ \E s \in Signals :
       /\ choice' = [choice EXCEPT ![g] = s]
       /\ begun' = [begun EXCEPT ![s] = @ + 1]
  /\ Goto(g, "killFirst")
  /\ UNCHANGED <<mutexOne, mutexTwo, sent, received, pending, tmp, reporterVars,
                 halted, taken>>

\* pthread_kill of a standard signal: one that is pending already is lost.
PthreadKill(g, t, next) ==
  /\ pending' = [pending EXCEPT ![t] = @ \cup {choice[g]}]
  /\ Goto(g, next)
  /\ UNCHANGED <<mutexOne, mutexTwo, sent, received, choice, tmp, reporterVars,
                 halted, histories>>

KillFirst(g) == At(g, "killFirst") /\ PthreadKill(g, First(choice[g]), "killSecond")

\* Mutant of KillSecond: signals the first updater twice.
KillFirstAgain(g) ==
  At(g, "killSecond") /\ PthreadKill(g, First(choice[g]), "killReporter")

KillSecond(g) == At(g, "killSecond") /\ PthreadKill(g, Second(choice[g]), "killReporter")

KillReporter(g) == At(g, "killReporter") /\ PthreadKill(g, Reporter, "lockSent")

\* Mutant of LockSent: increments without waiting for the mutex.
LoadSentUnlocked(g) ==
  /\ At(g, "lockSent")
  /\ tmp' = [tmp EXCEPT ![g] = sent[choice[g]]]
  /\ Goto(g, "countSent")
  /\ UNCHANGED <<mutexOne, mutexTwo, sent, received, pending, choice, reporterVars, halted,
                 histories>>

\* The increment is a load and a store, made under mutexOne.
LockSent(g) ==
  /\ At(g, "lockSent")
  /\ mutexOne = NoThread
  /\ mutexOne' = g
  /\ tmp' = [tmp EXCEPT ![g] = sent[choice[g]]]
  /\ Goto(g, "countSent")
  /\ UNCHANGED <<mutexTwo, sent, received, pending, choice, reporterVars, halted, histories>>

\* Mutant of CountSent: both branches increment sentSIGUSR1.
CountSentAsFirst(g) ==
  /\ At(g, "countSent")
  /\ sent' = [sent EXCEPT ![SIGUSR1] = tmp[g] + 1]
  /\ tmp' = [tmp EXCEPT ![g] = 0]
  /\ choice' = [choice EXCEPT ![g] = NoSignal]
  /\ mutexOne' = NoThread
  /\ Goto(g, "choose")
  /\ UNCHANGED <<mutexTwo, received, pending, reporterVars, halted, histories>>

CountSent(g) ==
  /\ At(g, "countSent")
  /\ sent' = [sent EXCEPT ![choice[g]] = tmp[g] + 1]
  /\ tmp' = [tmp EXCEPT ![g] = 0]
  /\ choice' = [choice EXCEPT ![g] = NoSignal]
  /\ mutexOne' = NoThread
  /\ Goto(g, "choose")
  /\ UNCHANGED <<mutexTwo, received, pending, reporterVars, halted, histories>>

(***************************************************************************)
(* The updaters (signalUpdater).                                           *)
(***************************************************************************)
\* Mutant of TakeSignal: leaves the signal pending.
TakeSignalKeepsPending(u) ==
  /\ At(u, "sigwait")
  /\ SignalOf(u) \in pending[u]
  /\ taken' = [taken EXCEPT ![SignalOf(u)] = @ + 1]
  /\ Goto(u, "lockReceived")
  /\ UNCHANGED <<mutexOne, mutexTwo, sent, received, pending, choice, tmp, reporterVars, halted,
                 begun>>

TakeSignal(u) ==
  /\ At(u, "sigwait")
  /\ SignalOf(u) \in pending[u]
  /\ pending' = [pending EXCEPT ![u] = @ \ {SignalOf(u)}]
  /\ taken' = [taken EXCEPT ![SignalOf(u)] = @ + 1]
  /\ Goto(u, "lockReceived")
  /\ UNCHANGED <<mutexOne, mutexTwo, sent, received, choice, tmp, reporterVars, halted, begun>>

\* Mutant of LockReceived: increments without the mutex.
LoadReceivedUnlocked(u) ==
  /\ At(u, "lockReceived")
  /\ tmp' = [tmp EXCEPT ![u] = received[SignalOf(u)]]
  /\ Goto(u, "countReceived")
  /\ UNCHANGED <<mutexOne, mutexTwo, sent, received, pending, choice, reporterVars, halted,
                 histories>>

LockReceived(u) ==
  /\ At(u, "lockReceived")
  /\ mutexTwo = NoThread
  /\ mutexTwo' = u
  /\ tmp' = [tmp EXCEPT ![u] = received[SignalOf(u)]]
  /\ Goto(u, "countReceived")
  /\ UNCHANGED <<mutexOne, sent, received, pending, choice, reporterVars, halted, histories>>

CountReceived(u) ==
  /\ At(u, "countReceived")
  /\ received' = [received EXCEPT ![SignalOf(u)] = tmp[u] + 1]
  /\ tmp' = [tmp EXCEPT ![u] = 0]
  /\ mutexTwo' = NoThread
  /\ Goto(u, "sigwait")
  /\ UNCHANGED <<mutexOne, sent, pending, choice, reporterVars, halted, histories>>

(***************************************************************************)
(* The reporter.  When the log file cannot be opened it goes on, and what  *)
(* it writes is dropped.                                                   *)
(***************************************************************************)
OpenLog ==
  /\ At(Reporter, "open")
  /\ log_open' \in BOOLEAN
  /\ Goto(Reporter, "sigwait")
  /\ UNCHANGED <<mutexOne, mutexTwo, sent, received, pending, choice, tmp,
                 concurrentProcesses, log, halted, histories>>

ReporterTakesSignal ==
  /\ At(Reporter, "sigwait")
  /\ \E s \in pending[Reporter] : pending' = [pending EXCEPT ![Reporter] = @ \ {s}]
  /\ concurrentProcesses' = concurrentProcesses + 1
  /\ Goto(Reporter, IF concurrentProcesses + 1 = ReportEvery THEN "lockReport" ELSE "sigwait")
  /\ UNCHANGED <<mutexOne, mutexTwo, sent, received, choice, tmp, log_open, log,
                 halted, histories>>

LockReport ==
  /\ At(Reporter, "lockReport")
  /\ mutexTwo = NoThread
  /\ mutexTwo' = Reporter
  /\ Goto(Reporter, "firstLine")
  /\ UNCHANGED <<mutexOne, sent, received, pending, choice, tmp, reporterVars, halted,
                 histories>>

Line(s) == [signal |-> s, sent |-> sent[s], received |-> received[s]]

Written(line) == IF log_open THEN Append(log, line) ELSE log

FirstLine ==
  /\ At(Reporter, "firstLine")
  /\ log' = Written(Line(SIGUSR1))
  /\ Goto(Reporter, "secondLine")
  /\ UNCHANGED <<mutexOne, mutexTwo, sent, received, pending, choice, tmp,
                 concurrentProcesses, log_open, halted, histories>>

\* Mutant of SecondLine: does not reset concurrentProcesses.
SecondLineKeepsCount ==
  /\ At(Reporter, "secondLine")
  /\ log' = Written(Line(SIGUSR2))
  /\ mutexTwo' = NoThread
  /\ Goto(Reporter, "sigwait")
  /\ UNCHANGED <<mutexOne, sent, received, pending, choice, tmp, concurrentProcesses, log_open,
                 halted, histories>>

SecondLine ==
  /\ At(Reporter, "secondLine")
  /\ log' = Written(Line(SIGUSR2))
  /\ concurrentProcesses' = 0
  /\ mutexTwo' = NoThread
  /\ Goto(Reporter, "sigwait")
  /\ UNCHANGED <<mutexOne, sent, received, pending, choice, tmp, log_open, halted, histories>>

-----------------------------------------------------------------------------
MainThread == (\E t \in Created : CreateThread(t)) \/ PollFirst \/ PollSecond

SendsRound(g) ==
  KillFirst(g) \/ KillSecond(g) \/ KillReporter(g) \/ LockSent(g) \/ CountSent(g)

Generator(g) == Choose(g) \/ SendsRound(g)

SignalUpdater(u) == TakeSignal(u) \/ LockReceived(u) \/ CountReceived(u)

ReporterThread == OpenLog \/ ReporterTakesSignal \/ LockReport \/ FirstLine \/ SecondLine

Next ==
  \/ MainThread
  \/ \E g \in Generators : Generator(g)
  \/ \E u \in Updaters : SignalUpdater(u)
  \/ ReporterThread

Spec == Init /\ [][Next]_vars

\* The scheduler runs every thread that can go on.  Generators need not begin
\* another round, but finish the one they are in.
FairSpec ==
  /\ Spec
  /\ WF_vars(MainThread)
  /\ \A g \in Generators : WF_vars(SendsRound(g))
  /\ \A u \in Updaters : WF_vars(SignalUpdater(u))
  /\ WF_vars(ReporterThread)

-----------------------------------------------------------------------------
(***************************************************************************)
(* Properties.                                                             *)
(***************************************************************************)
\* The threads of a set that are at one of some labels.
Among(T, labels) == {t \in T : pc[t] \in labels}

\* Generators in a round of s that are at one of some labels.
Sending(s, labels) == {g \in Among(Generators, labels) : choice[g] = s}

\* Updaters of s that took a signal they have not counted.
Counting(s) == Among(UpdatersOf(s), {"lockReceived", "countReceived"})

\* Updaters of s that a signal is pending for.
Notified(s) == {u \in UpdatersOf(s) : s \in pending[u]}

TypeOK ==
  /\ pc \in [Threads -> {"unborn"} \cup GeneratorLabels \cup UpdaterLabels
                         \cup ReporterLabels \cup MainLabels]
  /\ mutexOne \in Generators \cup {NoThread}
  /\ mutexTwo \in Updaters \cup {Reporter, NoThread}
  /\ sent \in [Signals -> Nat]
  /\ received \in [Signals -> Nat]
  /\ pending \in [Created -> SUBSET Signals]
  /\ \A u \in Updaters : pending[u] \subseteq {SignalOf(u)}
  /\ choice \in [Generators -> Signals \cup {NoSignal}]
  /\ tmp \in [Threads -> Nat]
  /\ concurrentProcesses \in 0 .. ReportEvery
  /\ (concurrentProcesses = ReportEvery) <=> (pc[Reporter] \in {"lockReport", "firstLine", "secondLine"})
  /\ log_open \in BOOLEAN
  /\ log \in Seq([signal : Signals, sent : Nat, received : Nat])
  /\ halted \in BOOLEAN
  /\ begun \in [Signals -> Nat]
  /\ taken \in [Signals -> Nat]

\* No increment of a shared counter is lost (lines 170-172, 230-232): each
\* counter is the number of rounds begun, or of signals taken, but for those
\* whose thread has yet to store its increment.
NoLostUpdates ==
  \A s \in Signals :
    /\ sent[s] + Cardinality(Sending(s, GeneratorLabels)) = begun[s]
    /\ received[s] + Cardinality(Counting(s)) = taken[s]

\* Signals are counted by their receivers before their sender counts them, but
\* never more than once per receiver and round: what was received, taken or is
\* still pending is twice what was sent, plus one for each pthread_kill of a
\* round under way (lines 166-172).
ReceivedWithinSent ==
  \A s \in Signals :
    received[s] + Cardinality(Counting(s)) + Cardinality(Notified(s))
      <= 2 * sent[s] + Cardinality(Sending(s, {"killSecond", "killReporter", "lockSent", "countSent"}))
         + Cardinality(Sending(s, {"killReporter", "lockSent", "countSent"}))

\* A signal sent while the same is pending for a thread is lost, but never the
\* last one: once a round of s was counted by its sender, its receivers have
\* counted two, or are about to, or have one pending that they have yet to take
\* (lines 166-172 and 223-233).
LostSignalsAreCovered ==
  \A s \in Signals :
    sent[s] > 0 => received[s] + Cardinality(Counting(s)) + Cardinality(Notified(s)) >= 2

\* The two lines of a report show the received counters of one moment: from
\* the first line to the unlock no updater changes them (lines 308-329).
ReportIsSnapshot ==
  pc[Reporter] = "secondLine" /\ log_open =>
    log[Len(log)].received = received[SIGUSR1]

\* Each thread has exclusive access to what it reads and writes: the reporter
\* does not read the sent counters while a generator is updating them.
ExclusiveAccess ==
  pc[Reporter] \in {"firstLine", "secondLine"} => Among(Generators, {"countSent"}) = {}

Abstract == INSTANCE CountedSignals WITH ReceiversPerSignal <- 2

\* The threads implement counted signals: each counter goes up by one at a
\* time, the sent one after its round began, the received one at most twice
\* per round, whatever pthread_kill loses.
CountsSignals == Abstract!Spec

\* When the counters reach the maximum, main ends the process, although it
\* reads them without a lock and they go on (lines 91-111, 391-392).
MaxCountEnds ==
  (sent[SIGUSR1] + sent[SIGUSR2] >= MAX_SIGNAL_COUNT) ~> halted
=============================================================================
