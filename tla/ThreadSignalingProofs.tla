----------------------- MODULE ThreadSignalingProofs -----------------------
(***************************************************************************)
(* The counters of ThreadSignaling, for every number of generators, rounds *)
(* and signals per report: no update is lost, no signal is invented, and   *)
(* the reports are as exact as the program's locks make them.              *)
(***************************************************************************)
EXTENDS ThreadSignaling, FiniteSetTheorems, TLAPS

-----------------------------------------------------------------------------
(***************************************************************************)
(* Sets that gain or lose one element.                                     *)
(***************************************************************************)
Member(x, S) == IF x \in S THEN 1 ELSE 0

\* Two sets that differ in one element at most.
LEMMA CardinalityMove ==
  ASSUME NEW S, NEW T, NEW x, IsFiniteSet(S), S \ {x} = T \ {x}
  PROVE  /\ IsFiniteSet(T)
         /\ Cardinality(S) \in Nat
         /\ Cardinality(T) \in Nat
         /\ Cardinality(T) = Cardinality(S) + Member(x, T) - Member(x, S)
<1> DEFINE R == S \ {x}
<1>1. IsFiniteSet(R) /\ Cardinality(R) = Cardinality(S) - Member(x, S)
  <2>1. CASE x \in S
    BY <2>1, FS_RemoveElement DEF Member
  <2>2. CASE x \notin S
    <3>1. R = S
      BY <2>2
    <3>2. Cardinality(S) \in Nat
      BY FS_CardinalityType
    <3>3. Member(x, S) = 0
      BY <2>2 DEF Member
    <3> HIDE DEF R
    <3> QED BY <3>1, <3>2, <3>3
  <2> QED BY <2>1, <2>2
<1>2. Cardinality(S) \in Nat /\ Cardinality(R) \in Nat
  BY <1>1, FS_CardinalityType
<1>3. IsFiniteSet(T) /\ Cardinality(T) = Cardinality(R) + Member(x, T)
  <2>1. CASE x \in T
    <3>1. T = R \cup {x} /\ x \notin R
      BY <2>1
    <3> HIDE DEF R
    <3> QED BY <3>1, <2>1, <1>1, FS_AddElement DEF Member
  <2>2. CASE x \notin T
    <3>1. T = R
      BY <2>2
    <3> HIDE DEF R
    <3> QED BY <3>1, <2>2, <1>1, <1>2 DEF Member
  <2> QED BY <2>1, <2>2
<1>4. Cardinality(T) \in Nat
  BY <1>3, FS_CardinalityType
<1> HIDE DEF R
<1> QED BY <1>1, <1>2, <1>3, <1>4 DEF Member

LEMMA ThreadSets ==
  /\ IsFiniteSet(Generators)
  /\ Main \in Threads /\ Main \notin Created
  /\ Reporter \in Created /\ Reporter \notin Updaters /\ Reporter \notin Generators
  /\ Created = Updaters \cup {Reporter} \cup Generators
  /\ Threads = Created \cup {Main}
  /\ Updaters \cap Generators = {}
  /\ NoThread \notin Threads
<1>1. IsFiniteSet(Generators)
  BY ThreadsAssumption, FS_Interval DEF Generators
<1> QED
  BY <1>1, ThreadsAssumption
  DEF Generators, Main, Threads, Created, Reporter, Updaters, NoThread

\* The updaters of each signal.
LEMMA UpdaterSets ==
  /\ \A u \in Updaters : SignalOf(u) \in Signals /\ u \in UpdatersOf(SignalOf(u))
  /\ \A s \in Signals :
       /\ UpdatersOf(s) \subseteq Updaters
       /\ First(s) \in UpdatersOf(s) /\ Second(s) \in UpdatersOf(s)
       /\ \A u \in UpdatersOf(s) : SignalOf(u) = s
       /\ IsFiniteSet(UpdatersOf(s))
<1>1. ASSUME NEW s \in Signals
      PROVE  IsFiniteSet(UpdatersOf(s))
  <2>1. UpdatersOf(s) = {First(s)} \cup {Second(s)}
    BY DEF UpdatersOf
  <2>2. IsFiniteSet({First(s)})
    BY FS_Singleton
  <2>3. IsFiniteSet({First(s)} \cup {Second(s)})
    BY <2>2, FS_AddElement
  <2> QED BY <2>1, <2>3
<1> QED
  BY <1>1 DEF Updaters, SignalOf, Signals, UpdatersOf, First, Second, SIGUSR1, SIGUSR2

-----------------------------------------------------------------------------
(***************************************************************************)
(* Types, with the code each thread runs and when a generator is in a      *)
(* round.                                                                  *)
(***************************************************************************)
Outside == {"unborn", "choose"}
Reporting == {"firstLine", "secondLine"}

PcOK ==
  /\ pc \in [Threads -> {"unborn"} \cup GeneratorLabels \cup UpdaterLabels
                         \cup ReporterLabels \cup MainLabels]
  /\ \A g \in Generators : pc[g] \in {"unborn"} \cup GeneratorLabels
  /\ \A u \in Updaters : pc[u] \in {"unborn"} \cup UpdaterLabels
  /\ pc[Reporter] \in {"unborn"} \cup ReporterLabels
  /\ pc[Main] \in MainLabels

ChoiceOK ==
  \A g \in Generators : choice[g] \in Signals <=> pc[g] \notin Outside

TypeInv == TypeOK /\ PcOK /\ ChoiceOK

LEMMA InitTypeInv == Init => TypeInv
<1> SUFFICES ASSUME Init PROVE TypeInv
  OBVIOUS
<1>1. \A t \in Threads : pc[t] = IF t = Main THEN "create" ELSE "unborn"
  BY DEF Init
<1>2. PcOK
  BY <1>1, ThreadSets DEF Init, PcOK, MainLabels
<1>3. ChoiceOK
  BY <1>1, ThreadSets DEF Init, ChoiceOK, Outside, Signals, NoSignal, SIGUSR1, SIGUSR2
<1>4. \A u \in Updaters : pending[u] \subseteq {SignalOf(u)}
  BY ThreadSets DEF Init
<1>5. pc[Reporter] = "unborn"
  BY <1>1, ThreadSets
<1>6. concurrentProcesses \in 0 .. ReportEvery /\ concurrentProcesses # ReportEvery
  BY CountsAssumption DEF Init
<1>7. /\ mutexOne \in Generators \cup {NoThread} /\ mutexTwo \in Updaters \cup {Reporter, NoThread}
      /\ pending \in [Created -> SUBSET Signals]
      /\ choice \in [Generators -> Signals \cup {NoSignal}]
  BY DEF Init
<1>8. /\ sent \in [Signals -> Nat] /\ received \in [Signals -> Nat] /\ tmp \in [Threads -> Nat]
      /\ begun \in [Signals -> Nat] /\ taken \in [Signals -> Nat]
  BY DEF Init
<1>9. log_open \in BOOLEAN /\ halted \in BOOLEAN
  BY DEF Init
<1>10. log \in Seq([signal : Signals, sent : Nat, received : Nat])
  BY DEF Init
<1> QED
  BY <1>2, <1>3, <1>4, <1>5, <1>6, <1>7, <1>8, <1>9, <1>10 DEF TypeInv, TypeOK, PcOK

LEMMA MainTypeInv == TypeInv /\ MainThread => TypeInv'
<1> SUFFICES ASSUME TypeInv, MainThread PROVE TypeInv'
  OBVIOUS
<1> USE DEF TypeInv
<1>1. ASSUME NEW t \in Created, CreateThread(t)
      PROVE  TypeInv'
  <2>1. /\ PcOK' /\ ChoiceOK'
        /\ pc'[Reporter] \in {"lockReport", "firstLine", "secondLine"}
             <=> pc[Reporter] \in {"lockReport", "firstLine", "secondLine"}
    <3>1. t # Main /\ t \in Threads /\ Main \in Threads /\ pc[t] = "unborn"
      BY <1>1, ThreadSets DEF CreateThread
    <3>2. \A u \in Threads :
            pc'[u] = IF u = t THEN StartLabel(t)
                     ELSE IF u = Main THEN (IF t = SUB_PROCESSES - 1 THEN "poll" ELSE "create")
                     ELSE pc[u]
      BY <1>1, <3>1 DEF CreateThread, PcOK
    <3>3. /\ t \in Updaters => StartLabel(t) = "sigwait"
          /\ t = Reporter => StartLabel(t) = "open"
          /\ t \in Generators => StartLabel(t) = "choose"
      BY ThreadSets DEF StartLabel
    <3>4. PcOK'
      <4>1. \A g \in Generators : pc'[g] \in {"unborn"} \cup GeneratorLabels
        BY <3>2, <3>3, ThreadSets DEF PcOK, GeneratorLabels
      <4>2. \A u \in Updaters : pc'[u] \in {"unborn"} \cup UpdaterLabels
        BY <3>2, <3>3, ThreadSets DEF PcOK, UpdaterLabels
      <4>3. pc'[Reporter] \in {"unborn"} \cup ReporterLabels
        BY <3>2, <3>3, ThreadSets DEF PcOK, ReporterLabels
      <4>4. pc'[Main] \in MainLabels
        BY <3>1, <3>2 DEF MainLabels
      <4>5. pc' \in [Threads -> {"unborn"} \cup GeneratorLabels \cup UpdaterLabels
                                \cup ReporterLabels \cup MainLabels]
        <5>1. DOMAIN pc' = Threads /\ pc' = [u \in Threads |-> pc'[u]]
          BY <1>1 DEF CreateThread, PcOK
        <5> QED BY <5>1, <4>1, <4>2, <4>3, <4>4, ThreadSets
      <4> QED BY <4>1, <4>2, <4>3, <4>4, <4>5 DEF PcOK
    <3>5. ChoiceOK'
      BY <1>1, <3>1, <3>2, <3>3, ThreadSets DEF ChoiceOK, CreateThread, Outside
    <3>6. pc'[Reporter] \in {"lockReport", "firstLine", "secondLine"}
             <=> pc[Reporter] \in {"lockReport", "firstLine", "secondLine"}
      BY <3>1, <3>2, <3>3, ThreadSets
    <3> QED BY <3>4, <3>5, <3>6
  <2> QED BY <1>1, <2>1 DEF CreateThread, TypeOK, PcOK, reporterVars, histories
<1>2. CASE PollFirst
  <2>1. /\ PcOK' /\ ChoiceOK' /\ pc'[Reporter] = pc[Reporter]
    BY <1>2, ThreadSets DEF PollFirst, Goto, PcOK, ChoiceOK, MainLabels, TypeOK
  <2>2. tmp' \in [Threads -> Nat]
    BY <1>2 DEF PollFirst, TypeOK, Signals
  <2> QED BY <1>2, <2>1, <2>2 DEF PollFirst, TypeOK, PcOK, reporterVars, histories
<1>3. CASE PollSecond
  <2>1. /\ PcOK' /\ ChoiceOK' /\ pc'[Reporter] = pc[Reporter]
    BY <1>3, ThreadSets DEF PollSecond, Goto, PcOK, ChoiceOK, MainLabels, TypeOK
  <2>2. halted' \in BOOLEAN
    <3>1. halted' = (tmp[Main] + sent[SIGUSR2] >= MAX_SIGNAL_COUNT)
      BY <1>3 DEF PollSecond
    <3> QED BY ONLY <3>1
  <2>3. tmp' \in [Threads -> Nat]
    BY <1>3 DEF PollSecond, TypeOK
  <2> QED BY <1>3, <2>1, <2>2, <2>3 DEF PollSecond, TypeOK, PcOK, reporterVars, histories
<1> QED BY <1>1, <1>2, <1>3 DEF MainThread

\* A generator moves on within its round, or begins or ends one.
LEMMA GeneratorMove ==
  ASSUME TypeInv, NEW g \in Generators, NEW l \in GeneratorLabels, Goto(g, l),
         \/ /\ choice' = choice
            /\ pc[g] \notin Outside
            /\ l \notin Outside
         \/ /\ \E s \in Signals : choice' = [choice EXCEPT ![g] = s]
            /\ l \notin Outside
         \/ /\ choice' = [choice EXCEPT ![g] = NoSignal]
            /\ l \in Outside
  PROVE  /\ PcOK' /\ ChoiceOK' /\ pc'[Reporter] = pc[Reporter]
         /\ choice' \in [Generators -> Signals \cup {NoSignal}]
<1>1. PcOK' /\ pc'[Reporter] = pc[Reporter]
  BY ThreadSets DEF TypeInv, PcOK, Goto
<1>2. \A h \in Generators : pc'[h] = IF h = g THEN l ELSE pc[h]
  BY ThreadSets DEF TypeInv, PcOK, Goto
<1>3. NoSignal \notin Signals
  BY DEF NoSignal, Signals, SIGUSR1, SIGUSR2
<1> QED BY <1>1, <1>2, <1>3 DEF TypeInv, TypeOK, ChoiceOK

LEMMA GeneratorTypeInv ==
  ASSUME TypeInv, NEW g \in Generators, Generator(g)
  PROVE  TypeInv'
<1> USE DEF TypeInv
<1>1. CASE Choose(g)
  <2>1. /\ PcOK' /\ ChoiceOK' /\ pc'[Reporter] = pc[Reporter]
        /\ choice' \in [Generators -> Signals \cup {NoSignal}]
    BY <1>1, GeneratorMove DEF Choose, GeneratorLabels, Outside
  <2>2. begun' \in [Signals -> Nat]
    BY <1>1 DEF Choose, TypeOK
  <2> QED BY <1>1, <2>1, <2>2 DEF Choose, TypeOK, PcOK, reporterVars
<1>2. ASSUME NEW t \in {First(choice[g]), Second(choice[g]), Reporter}, NEW l \in GeneratorLabels,
             l \notin Outside, pc[g] \notin Outside, pc[g] # "unborn", PthreadKill(g, t, l)
      PROVE  TypeInv'
  <2>1. choice[g] \in Signals /\ t \in Created
        /\ (t \in Updaters => SignalOf(t) = choice[g])
    BY <1>2, ThreadSets, UpdaterSets DEF ChoiceOK
  <2>2. /\ PcOK' /\ ChoiceOK' /\ pc'[Reporter] = pc[Reporter]
        /\ choice' \in [Generators -> Signals \cup {NoSignal}]
    BY <1>2, GeneratorMove DEF PthreadKill
  <2>3. pending' \in [Created -> SUBSET Signals] /\ \A u \in Updaters : pending'[u] \subseteq {SignalOf(u)}
    BY <1>2, <2>1, ThreadSets DEF PthreadKill, TypeOK
  <2> QED BY <1>2, <2>2, <2>3 DEF PthreadKill, TypeOK, PcOK, reporterVars, histories
<1>3. CASE KillFirst(g)
  BY <1>2, <1>3 DEF KillFirst, At, Outside, GeneratorLabels
<1>4. CASE KillSecond(g)
  BY <1>2, <1>4 DEF KillSecond, At, Outside, GeneratorLabels
<1>5. CASE KillReporter(g)
  BY <1>2, <1>5 DEF KillReporter, At, Outside, GeneratorLabels
<1>6. CASE LockSent(g)
  <2>1. pc[g] = "lockSent" /\ choice[g] \in Signals
    BY <1>6 DEF LockSent, At, ChoiceOK, Outside
  <2>2. /\ PcOK' /\ ChoiceOK' /\ pc'[Reporter] = pc[Reporter]
        /\ choice' \in [Generators -> Signals \cup {NoSignal}]
    BY <1>6, <2>1, GeneratorMove DEF LockSent, GeneratorLabels, Outside
  <2>3. tmp' \in [Threads -> Nat] /\ mutexOne' \in Generators \cup {NoThread}
    BY <1>6, <2>1 DEF LockSent, TypeOK
  <2> QED BY <1>6, <2>2, <2>3 DEF LockSent, TypeOK, PcOK, reporterVars, histories
<1>7. CASE CountSent(g)
  <2>1. pc[g] = "countSent" /\ choice[g] \in Signals /\ tmp[g] \in Nat
    BY <1>7, ThreadSets DEF CountSent, At, ChoiceOK, Outside, TypeOK
  <2>2. /\ PcOK' /\ ChoiceOK' /\ pc'[Reporter] = pc[Reporter]
        /\ choice' \in [Generators -> Signals \cup {NoSignal}]
    BY <1>7, <2>1, GeneratorMove DEF CountSent, GeneratorLabels, Outside
  <2>3. tmp' \in [Threads -> Nat] /\ mutexOne' \in Generators \cup {NoThread}
    BY <1>7 DEF CountSent, TypeOK
  <2>4. sent' \in [Signals -> Nat]
    BY <1>7, <2>1 DEF CountSent, TypeOK
  <2> QED BY <1>7, <2>2, <2>3, <2>4 DEF CountSent, TypeOK, PcOK, reporterVars, histories
<1> QED BY <1>1, <1>3, <1>4, <1>5, <1>6, <1>7 DEF Generator, SendsRound

LEMMA UpdaterMove ==
  ASSUME TypeInv, NEW u \in Updaters, NEW l \in UpdaterLabels, Goto(u, l), choice' = choice
  PROVE  PcOK' /\ ChoiceOK' /\ pc'[Reporter] = pc[Reporter]
  BY ThreadSets DEF TypeInv, PcOK, ChoiceOK, Goto

LEMMA UpdaterTypeInv ==
  ASSUME TypeInv, NEW u \in Updaters, SignalUpdater(u)
  PROVE  TypeInv'
<1> USE DEF TypeInv
<1>1. SignalOf(u) \in Signals
  BY UpdaterSets
<1>2. CASE TakeSignal(u)
  <2>1. PcOK' /\ ChoiceOK' /\ pc'[Reporter] = pc[Reporter]
    BY <1>2, UpdaterMove DEF TakeSignal, UpdaterLabels
  <2>2. pending' \in [Created -> SUBSET Signals] /\ \A v \in Updaters : pending'[v] \subseteq {SignalOf(v)}
    BY <1>2, ThreadSets DEF TakeSignal, TypeOK
  <2>3. taken' \in [Signals -> Nat]
    BY <1>1, <1>2 DEF TakeSignal, TypeOK
  <2> QED BY <1>2, <2>1, <2>2, <2>3 DEF TakeSignal, TypeOK, PcOK, reporterVars
<1>3. CASE LockReceived(u)
  <2>1. PcOK' /\ ChoiceOK' /\ pc'[Reporter] = pc[Reporter]
    BY <1>3, UpdaterMove DEF LockReceived, UpdaterLabels
  <2>2. tmp' \in [Threads -> Nat] /\ mutexTwo' \in Updaters \cup {Reporter, NoThread}
    BY <1>1, <1>3 DEF LockReceived, TypeOK
  <2> QED BY <1>3, <2>1, <2>2 DEF LockReceived, TypeOK, PcOK, reporterVars, histories
<1>4. CASE CountReceived(u)
  <2>1. PcOK' /\ ChoiceOK' /\ pc'[Reporter] = pc[Reporter]
    BY <1>4, UpdaterMove DEF CountReceived, UpdaterLabels
  <2>2. tmp' \in [Threads -> Nat] /\ mutexTwo' \in Updaters \cup {Reporter, NoThread}
    BY <1>4 DEF CountReceived, TypeOK
  <2>3. tmp[u] \in Nat
    BY ThreadSets DEF TypeOK
  <2>4. received' \in [Signals -> Nat]
    BY <1>1, <1>4, <2>3 DEF CountReceived, TypeOK
  <2> QED BY <1>4, <2>1, <2>2, <2>4 DEF CountReceived, TypeOK, PcOK, reporterVars, histories
<1> QED BY <1>2, <1>3, <1>4 DEF SignalUpdater

LEMMA ReporterMove ==
  ASSUME TypeInv, NEW l \in ReporterLabels, Goto(Reporter, l), choice' = choice
  PROVE  PcOK' /\ ChoiceOK' /\ pc'[Reporter] = l
  BY ThreadSets DEF TypeInv, PcOK, ChoiceOK, Goto

\* What is written to the log file is a line of the report.
LEMMA WrittenType ==
  ASSUME TypeOK, NEW s \in Signals
  PROVE  Written(Line(s)) \in Seq([signal : Signals, sent : Nat, received : Nat])
<1>1. Line(s) \in [signal : Signals, sent : Nat, received : Nat]
  BY DEF Line, TypeOK
<1>2. Append(log, Line(s)) \in Seq([signal : Signals, sent : Nat, received : Nat])
  BY <1>1 DEF TypeOK
<1> QED BY <1>2 DEF Written, TypeOK

LEMMA ReporterTypeInv == TypeInv /\ ReporterThread => TypeInv'
<1> SUFFICES ASSUME TypeInv, ReporterThread PROVE TypeInv'
  OBVIOUS
<1> USE DEF TypeInv
<1>1. SIGUSR1 \in Signals /\ SIGUSR2 \in Signals
  BY DEF Signals
<1>2. CASE OpenLog
  <2>1. PcOK' /\ ChoiceOK' /\ pc'[Reporter] = "sigwait"
    BY <1>2, ReporterMove DEF OpenLog, ReporterLabels
  <2> QED BY <1>2, <2>1 DEF OpenLog, TypeOK, PcOK, At, histories
<1>3. CASE ReporterTakesSignal
  <2> DEFINE l == IF concurrentProcesses + 1 = ReportEvery THEN "lockReport" ELSE "sigwait"
  <2>1. PcOK' /\ ChoiceOK' /\ pc'[Reporter] = l
    BY <1>3, ReporterMove DEF ReporterTakesSignal, ReporterLabels
  <2>2. concurrentProcesses \in Nat /\ concurrentProcesses < ReportEvery
    BY <1>3, CountsAssumption DEF ReporterTakesSignal, At, TypeOK
  <2>3. /\ concurrentProcesses' \in 0 .. ReportEvery
        /\ (concurrentProcesses' = ReportEvery)
             <=> (pc'[Reporter] \in {"lockReport", "firstLine", "secondLine"})
    BY <1>3, <2>1, <2>2, CountsAssumption DEF ReporterTakesSignal
  <2>4. pending' \in [Created -> SUBSET Signals] /\ \A v \in Updaters : pending'[v] \subseteq {SignalOf(v)}
    BY <1>3, ThreadSets DEF ReporterTakesSignal, TypeOK
  <2> QED BY <1>3, <2>1, <2>3, <2>4 DEF ReporterTakesSignal, TypeOK, PcOK, histories
<1>4. CASE LockReport
  <2>1. PcOK' /\ ChoiceOK' /\ pc'[Reporter] = "firstLine"
    BY <1>4, ReporterMove DEF LockReport, ReporterLabels
  <2> QED BY <1>4, <2>1 DEF LockReport, TypeOK, PcOK, At, reporterVars, histories
<1>5. CASE FirstLine
  <2>1. PcOK' /\ ChoiceOK' /\ pc'[Reporter] = "secondLine"
    BY <1>5, ReporterMove DEF FirstLine, ReporterLabels
  <2>2. log' \in Seq([signal : Signals, sent : Nat, received : Nat])
    BY <1>1, <1>5, WrittenType DEF FirstLine
  <2> QED BY <1>5, <2>1, <2>2 DEF FirstLine, TypeOK, PcOK, At, histories
<1>6. CASE SecondLine
  <2>1. PcOK' /\ ChoiceOK' /\ pc'[Reporter] = "sigwait"
    BY <1>6, ReporterMove DEF SecondLine, ReporterLabels
  <2>2. log' \in Seq([signal : Signals, sent : Nat, received : Nat])
    BY <1>1, <1>6, WrittenType DEF SecondLine
  <2>3. concurrentProcesses' \in 0 .. ReportEvery /\ concurrentProcesses' # ReportEvery
    BY <1>6, CountsAssumption DEF SecondLine
  <2> QED BY <1>6, <2>1, <2>2, <2>3 DEF SecondLine, TypeOK, PcOK, histories
<1> QED BY <1>2, <1>3, <1>4, <1>5, <1>6 DEF ReporterThread

LEMMA NextTypeInv == TypeInv /\ [Next]_vars => TypeInv'
<1>1. TypeInv /\ UNCHANGED vars => TypeInv'
  BY DEF vars, reporterVars, histories, TypeInv, TypeOK, PcOK, ChoiceOK
<1> QED
  BY <1>1, MainTypeInv, GeneratorTypeInv, UpdaterTypeInv, ReporterTypeInv DEF Next

\* Every variable keeps its type, each thread runs its own code, and exactly a
\* full count makes the reporter report.
THEOREM ThreadTypes == Spec => []TypeOK
<1>1. Spec => []TypeInv
  BY InitTypeInv, NextTypeInv, PTL DEF Spec
<1> QED BY <1>1, PTL DEF TypeInv

-----------------------------------------------------------------------------
(***************************************************************************)
(* The mutexes: who is between lock and unlock holds them, and the counter *)
(* a thread has loaded has not changed since.                              *)
(***************************************************************************)
LockInv ==
  /\ \A g \in Generators : pc[g] = "countSent" <=> mutexOne = g
  /\ \A g \in Generators : pc[g] = "countSent" => tmp[g] = sent[choice[g]]
  /\ \A u \in Updaters : pc[u] = "countReceived" <=> mutexTwo = u
  /\ \A u \in Updaters : pc[u] = "countReceived" => tmp[u] = received[SignalOf(u)]
  /\ pc[Reporter] \in Reporting <=> mutexTwo = Reporter
  /\ pc[Reporter] = "secondLine" /\ log_open =>
       log # <<>> /\ log[Len(log)].received = received[SIGUSR1]

LEMMA InitLockInv == Init => LockInv
<1> SUFFICES ASSUME Init PROVE LockInv
  OBVIOUS
<1>1. \A t \in Created : pc[t] = "unborn"
  BY ThreadSets DEF Init
<1>2. mutexOne \notin Threads /\ mutexTwo \notin Threads
  BY ThreadSets DEF Init
<1> QED BY <1>1, <1>2, ThreadSets DEF LockInv, Reporting

\* What a step of one thread leaves alone.
LEMMA GotoOthers ==
  ASSUME TypeInv, NEW t \in Threads, NEW l, Goto(t, l)
  PROVE  pc'[t] = l /\ \A u \in Threads : u # t => pc'[u] = pc[u]
  BY DEF TypeInv, PcOK, Goto

LEMMA MainLockInv == TypeInv /\ LockInv /\ MainThread => LockInv'
<1> SUFFICES ASSUME TypeInv, LockInv, MainThread PROVE LockInv'
  OBVIOUS
<1>1. ASSUME NEW t \in Created, CreateThread(t)
      PROVE  LockInv'
  <2>1. t # Main /\ t \in Threads /\ Main \in Threads /\ pc[t] = "unborn"
    BY <1>1, ThreadSets DEF CreateThread
  <2>2. \A u \in Threads : u \notin {t, Main} => pc'[u] = pc[u]
    BY <1>1, <2>1 DEF CreateThread, TypeInv, PcOK
  <2>3. pc'[t] \in {"sigwait", "open", "choose"}
    BY <1>1, <2>1 DEF CreateThread, TypeInv, PcOK, StartLabel
  <2>4. \A u \in Created : \/ pc'[u] = pc[u]
                            \/ /\ pc[u] = "unborn"
                               /\ pc'[u] \in {"sigwait", "open", "choose"}
    BY <2>1, <2>2, <2>3, ThreadSets
  <2>5. \A u \in Created, l \in {"countSent", "countReceived", "firstLine", "secondLine"} :
          pc'[u] = l <=> pc[u] = l
    BY <2>4
  <2>6. UNCHANGED <<mutexOne, mutexTwo, sent, received, choice, tmp, log_open, log>>
    BY <1>1 DEF CreateThread, reporterVars
  <2>7. /\ \A g \in Generators : pc'[g] = "countSent" <=> pc[g] = "countSent"
        /\ \A u \in Updaters : pc'[u] = "countReceived" <=> pc[u] = "countReceived"
        /\ pc'[Reporter] \in Reporting <=> pc[Reporter] \in Reporting
        /\ pc'[Reporter] = "secondLine" <=> pc[Reporter] = "secondLine"
    BY <2>5, ThreadSets DEF Reporting
  <2> QED BY <2>6, <2>7 DEF LockInv
<1>2. ASSUME NEW l, Goto(Main, l), \A t \in Created : tmp'[t] = tmp[t],
             UNCHANGED <<mutexOne, mutexTwo, sent, received, choice, log_open, log>>
      PROVE  LockInv'
  <2>1. \A u \in Created : pc'[u] = pc[u]
    BY <1>2, GotoOthers, ThreadSets
  <2> QED BY <1>2, <2>1, ThreadSets DEF LockInv
<1>3. CASE PollFirst
  BY <1>2, <1>3, ThreadSets DEF PollFirst, reporterVars, TypeInv, TypeOK
<1>4. CASE PollSecond
  BY <1>2, <1>4, ThreadSets DEF PollSecond, reporterVars, TypeInv, TypeOK
<1> QED BY <1>1, <1>3, <1>4 DEF MainThread

LEMMA GeneratorLockInv ==
  ASSUME TypeInv, LockInv, NEW g \in Generators, Generator(g)
  PROVE  LockInv'
<1>1. g \in Threads /\ g \in Created /\ g \notin Updaters /\ g # Reporter
  BY ThreadSets
<1>2. ASSUME NEW l, l # "countSent", pc[g] # "countSent", Goto(g, l),
             \A h \in Generators : h # g => choice'[h] = choice[h],
             UNCHANGED <<mutexOne, mutexTwo, sent, received, tmp, log_open, log>>
      PROVE  LockInv'
  <2>1. pc'[g] = l /\ \A u \in Threads : u # g => pc'[u] = pc[u]
    BY <1>1, <1>2, GotoOthers
  <2> QED BY <1>1, <1>2, <2>1, ThreadSets DEF LockInv
<1>3. CASE Choose(g)
  BY <1>2, <1>3 DEF Choose, At, reporterVars, TypeInv, TypeOK
<1>4. CASE KillFirst(g)
  BY <1>2, <1>4 DEF KillFirst, PthreadKill, At, reporterVars
<1>5. CASE KillSecond(g)
  BY <1>2, <1>5 DEF KillSecond, PthreadKill, At, reporterVars
<1>6. CASE KillReporter(g)
  BY <1>2, <1>6 DEF KillReporter, PthreadKill, At, reporterVars
<1>7. CASE LockSent(g)
  <2>1. pc'[g] = "countSent" /\ \A u \in Threads : u # g => pc'[u] = pc[u]
    BY <1>1, <1>7, GotoOthers DEF LockSent
  <2>2. tmp'[g] = sent[choice[g]] /\ \A u \in Threads : u # g => tmp'[u] = tmp[u]
    BY <1>1, <1>7 DEF LockSent, TypeInv, TypeOK
  <2>3. \A h \in Generators : h # g => pc[h] # "countSent"
    BY <1>7, ThreadSets DEF LockSent, LockInv
  <2> QED
    BY <1>1, <1>7, <2>1, <2>2, <2>3, ThreadSets DEF LockSent, LockInv, reporterVars
<1>8. CASE CountSent(g)
  <2>1. pc'[g] = "choose" /\ \A u \in Threads : u # g => pc'[u] = pc[u]
    BY <1>1, <1>8, GotoOthers DEF CountSent
  <2>2. \A u \in Threads : u # g => tmp'[u] = tmp[u]
    BY <1>1, <1>8 DEF CountSent, TypeInv, TypeOK
  <2>3. \A h \in Generators : h # g => pc[h] # "countSent"
    BY <1>8 DEF CountSent, At, LockInv
  <2> QED
    BY <1>1, <1>8, <2>1, <2>2, <2>3, ThreadSets DEF CountSent, LockInv, reporterVars
<1> QED BY <1>3, <1>4, <1>5, <1>6, <1>7, <1>8 DEF Generator, SendsRound

LEMMA UpdaterLockInv ==
  ASSUME TypeInv, LockInv, NEW u \in Updaters, SignalUpdater(u)
  PROVE  LockInv'
<1>1. u \in Threads /\ u \notin Generators /\ u # Reporter
  BY ThreadSets
<1>2. CASE TakeSignal(u)
  <2>1. pc'[u] = "lockReceived" /\ \A v \in Threads : v # u => pc'[v] = pc[v]
    BY <1>1, <1>2, GotoOthers DEF TakeSignal
  <2> QED BY <1>1, <1>2, <2>1, ThreadSets DEF TakeSignal, At, LockInv, reporterVars
<1>3. CASE LockReceived(u)
  <2>1. pc'[u] = "countReceived" /\ \A v \in Threads : v # u => pc'[v] = pc[v]
    BY <1>1, <1>3, GotoOthers DEF LockReceived
  <2>2. tmp'[u] = received[SignalOf(u)] /\ \A v \in Threads : v # u => tmp'[v] = tmp[v]
    BY <1>1, <1>3 DEF LockReceived, TypeInv, TypeOK
  <2>3. pc[Reporter] \notin Reporting /\ \A v \in Updaters : pc[v] # "countReceived"
    BY <1>3, ThreadSets DEF LockReceived, LockInv
  <2> QED
    BY <1>1, <1>3, <2>1, <2>2, <2>3, ThreadSets DEF LockReceived, LockInv, reporterVars
<1>4. CASE CountReceived(u)
  <2>1. pc'[u] = "sigwait" /\ \A v \in Threads : v # u => pc'[v] = pc[v]
    BY <1>1, <1>4, GotoOthers DEF CountReceived
  <2>2. \A v \in Threads : v # u => tmp'[v] = tmp[v]
    BY <1>1, <1>4 DEF CountReceived, TypeInv, TypeOK
  <2>3. pc[Reporter] \notin Reporting /\ \A v \in Updaters : v # u => pc[v] # "countReceived"
    BY <1>1, <1>4 DEF CountReceived, At, LockInv
  <2>4. pc[Reporter] # "secondLine"
    BY <2>3 DEF Reporting
  <2> QED
    BY <1>1, <1>4, <2>1, <2>2, <2>3, <2>4, ThreadSets DEF CountReceived, LockInv, reporterVars
<1> QED BY <1>2, <1>3, <1>4 DEF SignalUpdater

LEMMA ReporterLockInv == TypeInv /\ LockInv /\ ReporterThread => LockInv'
<1> SUFFICES ASSUME TypeInv, LockInv, ReporterThread PROVE LockInv'
  OBVIOUS
<1>1. Reporter \in Threads /\ Reporter \notin Generators /\ Reporter \notin Updaters
  BY ThreadSets
<1>2. ASSUME NEW l, l \notin Reporting, pc[Reporter] \notin Reporting, Goto(Reporter, l),
             UNCHANGED <<mutexOne, mutexTwo, sent, received, choice, tmp>>
      PROVE  LockInv'
  <2>1. pc'[Reporter] = l /\ \A u \in Threads : u # Reporter => pc'[u] = pc[u]
    BY <1>1, <1>2, GotoOthers
  <2>2. l # "secondLine"
    BY <1>2 DEF Reporting
  <2> QED BY <1>1, <1>2, <2>1, <2>2, ThreadSets DEF LockInv
<1>3. CASE OpenLog
  BY <1>2, <1>3 DEF OpenLog, At, Reporting
<1>4. CASE ReporterTakesSignal
  BY <1>2, <1>4 DEF ReporterTakesSignal, At, Reporting
<1>5. CASE LockReport
  <2>1. pc'[Reporter] = "firstLine" /\ \A u \in Threads : u # Reporter => pc'[u] = pc[u]
    BY <1>1, <1>5, GotoOthers DEF LockReport
  <2>2. \A v \in Updaters : pc[v] # "countReceived"
    BY <1>5, ThreadSets DEF LockReport, LockInv
  <2> QED
    BY <1>1, <1>5, <2>1, <2>2, ThreadSets DEF LockReport, LockInv, Reporting, reporterVars
<1>6. CASE FirstLine
  <2>1. pc'[Reporter] = "secondLine" /\ \A u \in Threads : u # Reporter => pc'[u] = pc[u]
    BY <1>1, <1>6, GotoOthers DEF FirstLine
  <2>2. log_open => log' # <<>> /\ log'[Len(log')].received = received[SIGUSR1]
    <3>1. log \in Seq([signal : Signals, sent : Nat, received : Nat])
      BY DEF TypeInv, TypeOK
    <3>2. SUFFICES ASSUME log_open, log' = Append(log, Line(SIGUSR1))
          PROVE  log' # <<>> /\ log'[Len(log')].received = received[SIGUSR1]
      BY <1>6 DEF FirstLine, Written
    <3>3. Len(log') = Len(log) + 1 /\ log'[Len(log) + 1] = Line(SIGUSR1) /\ Len(log) \in Nat
      BY <3>1, <3>2
    <3>4. Line(SIGUSR1).received = received[SIGUSR1]
      BY DEF Line
    <3>5. Len(log') # 0
      BY <3>3
    <3> QED BY <3>3, <3>4, <3>5
  <2> QED
    BY <1>1, <1>6, <2>1, <2>2, ThreadSets DEF FirstLine, At, LockInv, Reporting
<1>7. CASE SecondLine
  <2>1. pc'[Reporter] = "sigwait" /\ \A u \in Threads : u # Reporter => pc'[u] = pc[u]
    BY <1>1, <1>7, GotoOthers DEF SecondLine
  <2>2. mutexTwo = Reporter
    BY <1>7 DEF SecondLine, At, LockInv, Reporting
  <2> QED
    BY <1>1, <1>7, <2>1, <2>2, ThreadSets DEF SecondLine, LockInv, Reporting
<1> QED BY <1>3, <1>4, <1>5, <1>6, <1>7 DEF ReporterThread

LEMMA NextLockInv == TypeInv /\ LockInv /\ [Next]_vars => LockInv'
<1>1. LockInv /\ UNCHANGED vars => LockInv'
  BY DEF vars, reporterVars, histories, LockInv
<1> QED
  BY <1>1, MainLockInv, GeneratorLockInv, UpdaterLockInv, ReporterLockInv DEF Next

-----------------------------------------------------------------------------
(***************************************************************************)
(* The counts.  ReceivedWithinSent is not inductive: that generators count *)
(* what they send, and receivers what they take, has to be known exactly.  *)
(***************************************************************************)
InRound(s) == Cardinality(Sending(s, GeneratorLabels))
AtFirst(s) == Cardinality(Sending(s, {"killFirst"}))
AtSecond(s) == Cardinality(Sending(s, {"killSecond"}))

\* Twice the rounds begun pays for every signal taken, pending or still to be
\* sent by a round that has begun.
TakenWithinBegun ==
  \A s \in Signals :
    taken[s] + Cardinality(Notified(s)) + 2 * AtFirst(s) + AtSecond(s) <= 2 * begun[s]

\* A line of the report may show more signals received than twice those sent,
\* by one round of each generator at most (lines 315-320).
ReportsWithinSent ==
  \A i \in 1 .. Len(log) :
    log[i].received <= 2 * (log[i].sent + Cardinality(Generators))

CountInv == NoLostUpdates /\ TakenWithinBegun

\* The counted sets are finite.
LEMMA CountTypes ==
  ASSUME NEW s \in Signals
  PROVE  /\ \A labels : IsFiniteSet(Sending(s, labels)) /\ Cardinality(Sending(s, labels)) \in Nat
         /\ IsFiniteSet(Counting(s)) /\ Cardinality(Counting(s)) \in Nat
         /\ IsFiniteSet(Notified(s)) /\ Cardinality(Notified(s)) \in Nat
<1>1. ASSUME NEW labels
      PROVE  IsFiniteSet(Sending(s, labels))
  <2>1. Sending(s, labels) \in SUBSET Generators
    BY DEF Sending, Among
  <2> QED BY <2>1, ThreadSets, FS_Subset
<1>2. IsFiniteSet(Counting(s)) /\ IsFiniteSet(Notified(s))
  <2>1. Counting(s) \in SUBSET UpdatersOf(s) /\ Notified(s) \in SUBSET UpdatersOf(s)
    BY DEF Counting, Notified, Among
  <2> QED BY <2>1, UpdaterSets, FS_Subset
<1> QED BY <1>1, <1>2, FS_CardinalityType

\* The counts of generators, when one of them moves.
LEMMA SendingMove ==
  ASSUME NEW g \in Generators,
         \A h \in Generators : h # g => pc'[h] = pc[h] /\ choice'[h] = choice[h],
         NEW s \in Signals, NEW labels
  PROVE  Cardinality(Sending(s, labels)') =
           Cardinality(Sending(s, labels))
             + (IF pc'[g] \in labels /\ choice'[g] = s THEN 1 ELSE 0)
             - (IF pc[g] \in labels /\ choice[g] = s THEN 1 ELSE 0)
<1> DEFINE S == Sending(s, labels)
           T == Sending(s, labels)'
<1>1. S \ {g} = T \ {g}
  BY DEF Sending, Among
<1>2. g \in S <=> pc[g] \in labels /\ choice[g] = s
  BY DEF Sending, Among
<1>3. g \in T <=> pc'[g] \in labels /\ choice'[g] = s
  BY DEF Sending, Among
<1>4. IsFiniteSet(S)
  BY CountTypes
<1> HIDE DEF S, T
<1>5. Cardinality(T) = Cardinality(S) + Member(g, T) - Member(g, S)
  BY <1>1, <1>4, CardinalityMove
<1>6. Cardinality(T) = Cardinality(S)
             + (IF pc'[g] \in labels /\ choice'[g] = s THEN 1 ELSE 0)
             - (IF pc[g] \in labels /\ choice[g] = s THEN 1 ELSE 0)
  BY <1>2, <1>3, <1>5 DEF Member
<1> QED BY <1>6 DEF S, T

\* The counts of updaters, when one of them moves.
LEMMA CountingMove ==
  ASSUME NEW u \in Updaters, \A v \in Updaters : v # u => pc'[v] = pc[v],
         NEW s \in Signals
  PROVE  Cardinality(Counting(s)') =
           Cardinality(Counting(s))
             + (IF SignalOf(u) = s /\ pc'[u] \in {"lockReceived", "countReceived"} THEN 1 ELSE 0)
             - (IF SignalOf(u) = s /\ pc[u] \in {"lockReceived", "countReceived"} THEN 1 ELSE 0)
<1> DEFINE L == {"lockReceived", "countReceived"}
           S == Counting(s)
           T == Counting(s)'
<1>1. S \ {u} = T \ {u}
  BY UpdaterSets DEF Counting, Among
<1>2. u \in S <=> SignalOf(u) = s /\ pc[u] \in L
  BY UpdaterSets DEF Counting, Among
<1>3. u \in T <=> SignalOf(u) = s /\ pc'[u] \in L
  BY UpdaterSets DEF Counting, Among
<1>4. IsFiniteSet(S)
  BY CountTypes
<1> HIDE DEF S, T, L
<1>5. Cardinality(T) = Cardinality(S) + Member(u, T) - Member(u, S)
  BY <1>1, <1>4, CardinalityMove
<1>6. Cardinality(T) = Cardinality(S) + (IF SignalOf(u) = s /\ pc'[u] \in L THEN 1 ELSE 0)
                                      - (IF SignalOf(u) = s /\ pc[u] \in L THEN 1 ELSE 0)
  BY <1>2, <1>3, <1>5 DEF Member
<1> QED BY <1>6 DEF S, T, L

\* The updaters notified, when pending changes for one thread.
LEMMA NotifiedMove ==
  ASSUME NEW u \in Updaters, \A v \in Updaters : v # u => pending'[v] = pending[v],
         NEW s \in Signals
  PROVE  Cardinality(Notified(s)') =
           Cardinality(Notified(s))
             + (IF SignalOf(u) = s /\ s \in pending'[u] THEN 1 ELSE 0)
             - (IF SignalOf(u) = s /\ s \in pending[u] THEN 1 ELSE 0)
<1> DEFINE S == Notified(s)
           T == Notified(s)'
<1>1. S \ {u} = T \ {u}
  BY UpdaterSets DEF Notified
<1>2. u \in S <=> SignalOf(u) = s /\ s \in pending[u]
  BY UpdaterSets DEF Notified
<1>3. u \in T <=> SignalOf(u) = s /\ s \in pending'[u]
  BY UpdaterSets DEF Notified
<1>4. IsFiniteSet(S)
  BY CountTypes
<1> HIDE DEF S, T
<1>5. Cardinality(T) = Cardinality(S) + Member(u, T) - Member(u, S)
  BY <1>1, <1>4, CardinalityMove
<1>6. Cardinality(T) = Cardinality(S)
             + (IF SignalOf(u) = s /\ s \in pending'[u] THEN 1 ELSE 0)
             - (IF SignalOf(u) = s /\ s \in pending[u] THEN 1 ELSE 0)
  BY <1>2, <1>3, <1>5 DEF Member
<1> QED BY <1>6 DEF S, T

\* Steps that no count looks at.
LEMMA SendingSame ==
  ASSUME \A g \in Generators : pc'[g] = pc[g] \/ {pc[g], pc'[g]} \subseteq {"unborn", "choose"},
         ChoiceOK, ChoiceOK', UNCHANGED choice
  PROVE  \A s \in Signals : \A labels : Sending(s, labels)' = Sending(s, labels)
  BY DEF Sending, Among, ChoiceOK, Outside

LEMMA CountingSame ==
  ASSUME \A u \in Updaters : pc'[u] = pc[u] \/ {pc[u], pc'[u]} \subseteq {"unborn", "sigwait"}
  PROVE  \A s \in Signals : Counting(s)' = Counting(s)
  BY UpdaterSets DEF Counting, Among

LEMMA NotifiedSame ==
  ASSUME \A u \in Updaters : pending'[u] = pending[u]
  PROVE  \A s \in Signals : Notified(s)' = Notified(s)
  BY UpdaterSets DEF Notified

\* A step of main or of the reporter.
LEMMA OthersCountInv == TypeInv /\ CountInv /\ (MainThread \/ ReporterThread) => CountInv'
<1> SUFFICES ASSUME TypeInv, CountInv, MainThread \/ ReporterThread PROVE CountInv'
  OBVIOUS
<1>1. ChoiceOK /\ ChoiceOK'
  BY MainTypeInv, ReporterTypeInv DEF TypeInv
<1>2. UNCHANGED <<choice, sent, received, begun, taken>>
  BY DEF MainThread, ReporterThread, CreateThread, PollFirst, PollSecond, OpenLog,
         ReporterTakesSignal, LockReport, FirstLine, SecondLine, histories
<1>3. \A u \in Updaters : pending'[u] = pending[u]
  BY ThreadSets
  DEF MainThread, ReporterThread, CreateThread, PollFirst, PollSecond, OpenLog,
      ReporterTakesSignal, LockReport, FirstLine, SecondLine, TypeInv, TypeOK
<1>4. \A t \in Updaters \cup Generators :
        \/ pc'[t] = pc[t]
        \/ pc[t] = "unborn" /\ pc'[t] = StartLabel(t)
  <2>1. ASSUME NEW u \in Created, CreateThread(u)
        PROVE  \A t \in Created : pc'[t] = pc[t] \/ (pc[t] = "unborn" /\ pc'[t] = StartLabel(t))
    BY <2>1, ThreadSets DEF CreateThread, TypeInv, PcOK
  <2>2. ASSUME NEW r \in {Main, Reporter}, NEW l, Goto(r, l)
        PROVE  \A t \in Updaters \cup Generators : pc'[t] = pc[t]
    BY <2>2, GotoOthers, ThreadSets
  <2> QED
    BY <2>1, <2>2, ThreadSets
    DEF MainThread, ReporterThread, PollFirst, PollSecond, OpenLog, ReporterTakesSignal,
        LockReport, FirstLine, SecondLine
<1>5. /\ \A u \in Updaters : StartLabel(u) = "sigwait"
      /\ \A g \in Generators : StartLabel(g) = "choose"
  BY ThreadSets DEF StartLabel
<1>6. /\ \A s \in Signals : \A labels : Sending(s, labels)' = Sending(s, labels)
      /\ \A s \in Signals : Counting(s)' = Counting(s) /\ Notified(s)' = Notified(s)
  BY <1>1, <1>2, <1>3, <1>4, <1>5, SendingSame, CountingSame, NotifiedSame
<1> QED
  BY <1>2, <1>6 DEF CountInv, NoLostUpdates, TakenWithinBegun, AtFirst, AtSecond

LEMMA GeneratorCountInv ==
  ASSUME TypeInv, LockInv, CountInv, NEW g \in Generators, Generator(g)
  PROVE  CountInv'
<1> SUFFICES ASSUME NEW s \in Signals
             PROVE  /\ sent'[s] + InRound(s)' = begun'[s]
                    /\ received'[s] + Cardinality(Counting(s)') = taken'[s]
                    /\ taken'[s] + Cardinality(Notified(s)') + 2 * AtFirst(s)' + AtSecond(s)'
                         <= 2 * begun'[s]
  BY DEF CountInv, NoLostUpdates, TakenWithinBegun, InRound
<1>1. /\ sent[s] + InRound(s) = begun[s]
      /\ received[s] + Cardinality(Counting(s)) = taken[s]
      /\ taken[s] + Cardinality(Notified(s)) + 2 * AtFirst(s) + AtSecond(s) <= 2 * begun[s]
  BY DEF CountInv, NoLostUpdates, TakenWithinBegun, InRound
<1>2. /\ InRound(s) \in Nat /\ AtFirst(s) \in Nat /\ AtSecond(s) \in Nat
      /\ Cardinality(Counting(s)) \in Nat /\ Cardinality(Notified(s)) \in Nat
      /\ sent[s] \in Nat /\ received[s] \in Nat /\ taken[s] \in Nat /\ begun[s] \in Nat
  BY CountTypes DEF InRound, AtFirst, AtSecond, TypeInv, TypeOK
<1>3. g \in Threads /\ g \notin Updaters
  BY ThreadSets
<1>4. NoSignal \notin Signals
  BY DEF NoSignal, Signals, SIGUSR1, SIGUSR2
\* A generator goes to l, in a round of c.
<1>5. ASSUME NEW l, Goto(g, l), NEW c, choice' = [choice EXCEPT ![g] = c], c = choice'[g]
      PROVE  /\ \A labels : Cardinality(Sending(s, labels)') =
                  Cardinality(Sending(s, labels)) + (IF l \in labels /\ c = s THEN 1 ELSE 0)
                    - (IF pc[g] \in labels /\ choice[g] = s THEN 1 ELSE 0)
             /\ Counting(s)' = Counting(s)
  <2>1. pc'[g] = l /\ \A u \in Threads : u # g => pc'[u] = pc[u]
    BY <1>3, <1>5, GotoOthers
  <2>2. \A h \in Generators : h # g => pc'[h] = pc[h] /\ choice'[h] = choice[h]
    BY <1>5, <2>1, ThreadSets DEF TypeInv, TypeOK
  <2>3. Counting(s)' = Counting(s)
    BY <1>3, <2>1, CountingSame, ThreadSets
  <2> QED BY <1>5, <2>1, <2>2, <2>3, SendingMove
<1>6. CASE Choose(g)
  <2>1. PICK c \in Signals : /\ choice' = [choice EXCEPT ![g] = c]
                             /\ begun' = [begun EXCEPT ![c] = @ + 1]
    BY <1>6 DEF Choose
  <2>2. c = choice'[g] /\ Goto(g, "killFirst") /\ pc[g] = "choose" /\ choice[g] \notin Signals
    BY <1>6, <2>1 DEF Choose, At, TypeInv, TypeOK, ChoiceOK, Outside
  <2>3. /\ InRound(s)' = InRound(s) + (IF c = s THEN 1 ELSE 0)
        /\ AtFirst(s)' = AtFirst(s) + (IF c = s THEN 1 ELSE 0)
        /\ AtSecond(s)' = AtSecond(s)
        /\ Counting(s)' = Counting(s)
    <3>1. choice[g] # s
      BY <2>2
    <3>2. /\ \A labels : Cardinality(Sending(s, labels)') =
               Cardinality(Sending(s, labels)) + (IF "killFirst" \in labels /\ c = s THEN 1 ELSE 0)
                 - (IF pc[g] \in labels /\ choice[g] = s THEN 1 ELSE 0)
          /\ Counting(s)' = Counting(s)
      BY <1>5, <2>1, <2>2
    <3>3. /\ Cardinality(Sending(s, GeneratorLabels)') = InRound(s) + (IF c = s THEN 1 ELSE 0)
          /\ Cardinality(Sending(s, {"killFirst"})') = AtFirst(s) + (IF c = s THEN 1 ELSE 0)
          /\ Cardinality(Sending(s, {"killSecond"})') = AtSecond(s)
      BY <1>2, <3>1, <3>2 DEF InRound, AtFirst, AtSecond, GeneratorLabels
    <3> QED BY <3>2, <3>3 DEF InRound, AtFirst, AtSecond
  <2>4. /\ begun'[s] = begun[s] + (IF c = s THEN 1 ELSE 0)
        /\ sent'[s] = sent[s] /\ received'[s] = received[s] /\ taken'[s] = taken[s]
        /\ Notified(s)' = Notified(s)
    <3>1. UNCHANGED <<sent, received, taken, pending>>
      BY <1>6 DEF Choose
    <3>2. begun'[s] = begun[s] + (IF c = s THEN 1 ELSE 0)
      BY <1>2, <2>1 DEF TypeInv, TypeOK
    <3> QED BY <3>1, <3>2 DEF Notified
  <2> QED BY <1>1, <1>2, <2>3, <2>4
\* The steps within a round.
<1>7. ASSUME NEW l \in GeneratorLabels, Goto(g, l), choice' = choice, pc[g] \in GeneratorLabels,
             choice[g] \in Signals
      PROVE  /\ InRound(s)' = InRound(s)
             /\ AtFirst(s)' = AtFirst(s) + (IF l = "killFirst" /\ choice[g] = s THEN 1 ELSE 0)
                                - (IF pc[g] = "killFirst" /\ choice[g] = s THEN 1 ELSE 0)
             /\ AtSecond(s)' = AtSecond(s) + (IF l = "killSecond" /\ choice[g] = s THEN 1 ELSE 0)
                                - (IF pc[g] = "killSecond" /\ choice[g] = s THEN 1 ELSE 0)
             /\ Counting(s)' = Counting(s)
  <2>1. choice' = [choice EXCEPT ![g] = choice[g]] /\ choice[g] = choice'[g]
    BY <1>7 DEF TypeInv, TypeOK
  <2>2. /\ \A labels : Cardinality(Sending(s, labels)') =
             Cardinality(Sending(s, labels)) + (IF l \in labels /\ choice[g] = s THEN 1 ELSE 0)
               - (IF pc[g] \in labels /\ choice[g] = s THEN 1 ELSE 0)
        /\ Counting(s)' = Counting(s)
    BY <1>5, <1>7, <2>1
  <2>3. /\ Cardinality(Sending(s, GeneratorLabels)') = InRound(s)
        /\ Cardinality(Sending(s, {"killFirst"})') =
             AtFirst(s) + (IF l = "killFirst" /\ choice[g] = s THEN 1 ELSE 0)
               - (IF pc[g] = "killFirst" /\ choice[g] = s THEN 1 ELSE 0)
        /\ Cardinality(Sending(s, {"killSecond"})') =
             AtSecond(s) + (IF l = "killSecond" /\ choice[g] = s THEN 1 ELSE 0)
               - (IF pc[g] = "killSecond" /\ choice[g] = s THEN 1 ELSE 0)
    BY <1>2, <1>7, <2>2 DEF InRound, AtFirst, AtSecond
  <2> QED BY <2>2, <2>3 DEF InRound, AtFirst, AtSecond
\* A pthread_kill adds at most one updater to those notified.
<1>8. ASSUME NEW u \in Updaters, NEW l \in GeneratorLabels, SignalOf(u) = choice[g],
             PthreadKill(g, u, l)
      PROVE  /\ Cardinality(Notified(s)') <= Cardinality(Notified(s)) + (IF choice[g] = s THEN 1 ELSE 0)
             /\ Cardinality(Notified(s)') \in Nat
  <2>1. pending'[u] = pending[u] \cup {choice[g]} /\ \A v \in Updaters : v # u => pending'[v] = pending[v]
    BY <1>8, ThreadSets DEF PthreadKill, TypeInv, TypeOK
  <2>2. Cardinality(Notified(s)') =
           Cardinality(Notified(s))
             + (IF SignalOf(u) = s /\ s \in pending'[u] THEN 1 ELSE 0)
             - (IF SignalOf(u) = s /\ s \in pending[u] THEN 1 ELSE 0)
    BY <2>1, NotifiedMove
  <2>3. choice[g] = s \/ Cardinality(Notified(s)') = Cardinality(Notified(s))
    BY <1>2, <1>8, <2>2
  <2>4. s \in pending[u] => s \in pending'[u]
    BY <2>1
  <2> QED BY <1>2, <1>8, <2>2, <2>3, <2>4
<1>9. pc[g] \notin Outside => choice[g] \in Signals
  BY DEF TypeInv, ChoiceOK
<1>10. CASE KillFirst(g)
  <2>1. pc[g] = "killFirst" /\ choice[g] \in Signals /\ PthreadKill(g, First(choice[g]), "killSecond")
    BY <1>9, <1>10 DEF KillFirst, At, Outside
  <2>2. Goto(g, "killSecond") /\ UNCHANGED <<choice, sent, received, begun, taken>>
    BY <2>1 DEF PthreadKill, histories
  <2>3. /\ InRound(s)' = InRound(s)
        /\ AtFirst(s)' = AtFirst(s) - (IF choice[g] = s THEN 1 ELSE 0)
        /\ AtSecond(s)' = AtSecond(s) + (IF choice[g] = s THEN 1 ELSE 0)
        /\ Counting(s)' = Counting(s)
    BY <1>2, <1>7, <2>1, <2>2 DEF GeneratorLabels
  <2>4. /\ Cardinality(Notified(s)') <= Cardinality(Notified(s)) + (IF choice[g] = s THEN 1 ELSE 0)
        /\ Cardinality(Notified(s)') \in Nat
    BY <1>8, <2>1, UpdaterSets DEF GeneratorLabels
  <2> QED BY <1>1, <1>2, <2>2, <2>3, <2>4
<1>11. CASE KillSecond(g)
  <2>1. pc[g] = "killSecond" /\ choice[g] \in Signals /\ PthreadKill(g, Second(choice[g]), "killReporter")
    BY <1>9, <1>11 DEF KillSecond, At, Outside
  <2>2. Goto(g, "killReporter") /\ UNCHANGED <<choice, sent, received, begun, taken>>
    BY <2>1 DEF PthreadKill, histories
  <2>3. /\ InRound(s)' = InRound(s)
        /\ AtFirst(s)' = AtFirst(s)
        /\ AtSecond(s)' = AtSecond(s) - (IF choice[g] = s THEN 1 ELSE 0)
        /\ Counting(s)' = Counting(s)
    BY <1>2, <1>7, <2>1, <2>2 DEF GeneratorLabels
  <2>4. /\ Cardinality(Notified(s)') <= Cardinality(Notified(s)) + (IF choice[g] = s THEN 1 ELSE 0)
        /\ Cardinality(Notified(s)') \in Nat
    BY <1>8, <2>1, UpdaterSets DEF GeneratorLabels
  <2> QED BY <1>1, <1>2, <2>2, <2>3, <2>4
<1>12. CASE KillReporter(g) \/ LockSent(g)
  <2> DEFINE l == IF KillReporter(g) THEN "lockSent" ELSE "countSent"
  <2>1. pc[g] \in {"killReporter", "lockSent"} /\ choice[g] \in Signals
    BY <1>9, <1>12 DEF KillReporter, LockSent, At, Outside
  <2>2. Goto(g, l) /\ UNCHANGED <<choice, sent, received, begun, taken>>
    BY <1>12 DEF KillReporter, LockSent, PthreadKill, At, histories
  <2>3. \A u \in Updaters : pending'[u] = pending[u]
    BY <1>12, ThreadSets DEF KillReporter, LockSent, PthreadKill, TypeInv, TypeOK
  <2>4. Notified(s)' = Notified(s)
    BY <2>3, NotifiedSame
  <2>5. /\ InRound(s)' = InRound(s) /\ AtFirst(s)' = AtFirst(s) /\ AtSecond(s)' = AtSecond(s)
        /\ Counting(s)' = Counting(s)
    BY <1>2, <1>7, <2>1, <2>2 DEF GeneratorLabels
  <2> QED BY <1>1, <2>2, <2>4, <2>5
<1>13. CASE CountSent(g)
  <2>1. pc[g] = "countSent" /\ choice[g] \in Signals
    BY <1>9, <1>13 DEF CountSent, At, Outside
  <2>2. /\ Goto(g, "choose") /\ choice' = [choice EXCEPT ![g] = NoSignal]
        /\ UNCHANGED <<received, begun, taken, pending>>
    BY <1>13 DEF CountSent, histories
  <2>3. choice'[g] = NoSignal /\ NoSignal # s
    BY <1>4, <2>2 DEF TypeInv, TypeOK
  <2>4. sent'[s] = sent[s] + (IF choice[g] = s THEN 1 ELSE 0)
    <3>1. tmp[g] = sent[choice[g]]
      BY <2>1 DEF LockInv
    <3> QED BY <1>13, <2>1, <3>1 DEF CountSent, TypeInv, TypeOK
  <2>5. /\ \A labels : Cardinality(Sending(s, labels)') =
             Cardinality(Sending(s, labels)) + (IF "choose" \in labels /\ NoSignal = s THEN 1 ELSE 0)
               - (IF pc[g] \in labels /\ choice[g] = s THEN 1 ELSE 0)
        /\ Counting(s)' = Counting(s)
    BY <1>5, <2>2, <2>3
  <2>6. /\ Cardinality(Sending(s, GeneratorLabels)') = InRound(s) - (IF choice[g] = s THEN 1 ELSE 0)
        /\ Cardinality(Sending(s, {"killFirst"})') = AtFirst(s)
        /\ Cardinality(Sending(s, {"killSecond"})') = AtSecond(s)
    BY <1>2, <2>1, <2>3, <2>5 DEF InRound, AtFirst, AtSecond, GeneratorLabels
  <2>7. Notified(s)' = Notified(s)
    BY <2>2 DEF Notified
  <2>8. /\ InRound(s)' = InRound(s) - (IF choice[g] = s THEN 1 ELSE 0)
        /\ AtFirst(s)' = AtFirst(s) /\ AtSecond(s)' = AtSecond(s)
    BY <2>6 DEF InRound, AtFirst, AtSecond
  <2> QED BY <1>1, <1>2, <2>2, <2>4, <2>5, <2>7, <2>8
<1> QED BY <1>6, <1>10, <1>11, <1>12, <1>13 DEF Generator, SendsRound

LEMMA UpdaterCountInv ==
  ASSUME TypeInv, LockInv, CountInv, NEW u \in Updaters, SignalUpdater(u)
  PROVE  CountInv'
<1> SUFFICES ASSUME NEW s \in Signals
             PROVE  /\ sent'[s] + InRound(s)' = begun'[s]
                    /\ received'[s] + Cardinality(Counting(s)') = taken'[s]
                    /\ taken'[s] + Cardinality(Notified(s)') + 2 * AtFirst(s)' + AtSecond(s)'
                         <= 2 * begun'[s]
  BY DEF CountInv, NoLostUpdates, TakenWithinBegun, InRound
<1>1. /\ sent[s] + InRound(s) = begun[s]
      /\ received[s] + Cardinality(Counting(s)) = taken[s]
      /\ taken[s] + Cardinality(Notified(s)) + 2 * AtFirst(s) + AtSecond(s) <= 2 * begun[s]
  BY DEF CountInv, NoLostUpdates, TakenWithinBegun, InRound
<1>2. /\ AtFirst(s) \in Nat /\ AtSecond(s) \in Nat
      /\ Cardinality(Counting(s)) \in Nat /\ Cardinality(Notified(s)) \in Nat
      /\ received[s] \in Nat /\ taken[s] \in Nat /\ begun[s] \in Nat
  BY CountTypes DEF AtFirst, AtSecond, TypeInv, TypeOK
<1>3. u \in Threads /\ u \in Created /\ u \notin Generators /\ SignalOf(u) \in Signals
  BY ThreadSets, UpdaterSets
<1>4. UNCHANGED <<choice, sent, begun>>
  BY DEF SignalUpdater, TakeSignal, LockReceived, CountReceived, histories
<1>5. ASSUME NEW l, Goto(u, l)
      PROVE  /\ pc'[u] = l
             /\ Cardinality(Counting(s)') =
                  Cardinality(Counting(s))
                    + (IF SignalOf(u) = s /\ l \in {"lockReceived", "countReceived"} THEN 1 ELSE 0)
                    - (IF SignalOf(u) = s /\ pc[u] \in {"lockReceived", "countReceived"} THEN 1 ELSE 0)
  <2>1. pc'[u] = l /\ \A v \in Threads : v # u => pc'[v] = pc[v]
    BY <1>3, <1>5, GotoOthers
  <2>2. \A v \in Updaters : v # u => pc'[v] = pc[v]
    BY <2>1, ThreadSets
  <2> QED BY <2>1, <2>2, CountingMove
<1>6. InRound(s)' = InRound(s) /\ AtFirst(s)' = AtFirst(s) /\ AtSecond(s)' = AtSecond(s)
  <2>1. \A h \in Generators : pc'[h] = pc[h]
    BY <1>3, GotoOthers, ThreadSets DEF SignalUpdater, TakeSignal, LockReceived, CountReceived
  <2>2. ChoiceOK /\ ChoiceOK'
    BY UpdaterTypeInv DEF TypeInv
  <2>3. \A labels : Sending(s, labels)' = Sending(s, labels)
    BY <1>4, <2>1, <2>2, SendingSame
  <2> QED BY <2>3 DEF InRound, AtFirst, AtSecond
<1>7. CASE TakeSignal(u)
  <2>1. Goto(u, "lockReceived") /\ pc[u] = "sigwait" /\ SignalOf(u) \in pending[u]
        /\ received' = received
    BY <1>7 DEF TakeSignal, At
  <2>2. Cardinality(Counting(s)') = Cardinality(Counting(s)) + (IF SignalOf(u) = s THEN 1 ELSE 0)
    BY <1>2, <1>5, <2>1
  <2>3. taken'[s] = taken[s] + (IF SignalOf(u) = s THEN 1 ELSE 0)
    BY <1>3, <1>7 DEF TakeSignal, TypeInv, TypeOK
  <2>4. /\ pending'[u] = pending[u] \ {SignalOf(u)}
        /\ \A v \in Updaters : v # u => pending'[v] = pending[v]
    BY <1>3, <1>7, ThreadSets DEF TakeSignal, TypeInv, TypeOK
  <2>5. Cardinality(Notified(s)') =
           Cardinality(Notified(s))
             + (IF SignalOf(u) = s /\ s \in pending'[u] THEN 1 ELSE 0)
             - (IF SignalOf(u) = s /\ s \in pending[u] THEN 1 ELSE 0)
    BY <2>4, NotifiedMove
  <2>6. Cardinality(Notified(s)') = Cardinality(Notified(s)) - (IF SignalOf(u) = s THEN 1 ELSE 0)
    BY <1>2, <2>1, <2>4, <2>5
  <2> QED BY <1>1, <1>2, <1>4, <1>6, <2>1, <2>2, <2>3, <2>6
<1>8. CASE LockReceived(u)
  <2>1. Goto(u, "countReceived") /\ pc[u] = "lockReceived" /\ UNCHANGED <<received, taken, pending>>
    BY <1>8 DEF LockReceived, At, histories
  <2>2. Cardinality(Counting(s)') = Cardinality(Counting(s)) /\ Notified(s)' = Notified(s)
    BY <1>2, <1>5, <2>1 DEF Notified
  <2> QED BY <1>1, <1>4, <1>6, <2>1, <2>2
<1>9. CASE CountReceived(u)
  <2>1. Goto(u, "sigwait") /\ pc[u] = "countReceived" /\ UNCHANGED <<taken, pending>>
    BY <1>9 DEF CountReceived, At, histories
  <2>2. /\ Cardinality(Counting(s)') = Cardinality(Counting(s)) - (IF SignalOf(u) = s THEN 1 ELSE 0)
        /\ Notified(s)' = Notified(s)
    BY <1>2, <1>5, <2>1 DEF Notified
  <2>3. received'[s] = received[s] + (IF SignalOf(u) = s THEN 1 ELSE 0)
    <3>1. tmp[u] = received[SignalOf(u)]
      BY <2>1 DEF LockInv
    <3> QED BY <1>3, <1>9, <3>1 DEF CountReceived, TypeInv, TypeOK
  <2>4. received'[s] + Cardinality(Counting(s)') = received[s] + Cardinality(Counting(s))
    BY <1>2, <2>2, <2>3
  <2> QED BY <1>1, <1>4, <1>6, <2>1, <2>2, <2>4
<1> QED BY <1>7, <1>8, <1>9 DEF SignalUpdater

LEMMA NextCountInv == TypeInv /\ LockInv /\ CountInv /\ [Next]_vars => CountInv'
<1>1. CountInv /\ UNCHANGED vars => CountInv'
  BY DEF vars, histories, CountInv, NoLostUpdates, TakenWithinBegun, AtFirst, AtSecond,
         Sending, Counting, Notified, Among
<1> QED
  BY <1>1, OthersCountInv, GeneratorCountInv, UpdaterCountInv DEF Next

LEMMA InitCountInv == Init => CountInv
<1> SUFFICES ASSUME Init, NEW s \in Signals
             PROVE  /\ sent[s] + Cardinality(Sending(s, GeneratorLabels)) = begun[s]
                    /\ received[s] + Cardinality(Counting(s)) = taken[s]
                    /\ taken[s] + Cardinality(Notified(s)) + 2 * AtFirst(s) + AtSecond(s)
                         <= 2 * begun[s]
  BY DEF CountInv, NoLostUpdates, TakenWithinBegun
<1>1. \A t \in Created : pc[t] = "unborn" /\ pending[t] = {}
  BY ThreadSets DEF Init
<1>2. /\ Sending(s, GeneratorLabels) = {} /\ Sending(s, {"killFirst"}) = {}
      /\ Sending(s, {"killSecond"}) = {}
  BY <1>1, ThreadSets DEF Sending, Among, GeneratorLabels
<1>3. Counting(s) = {} /\ Notified(s) = {}
  BY <1>1, ThreadSets, UpdaterSets DEF Counting, Notified, Among
<1>4. sent[s] = 0 /\ received[s] = 0 /\ begun[s] = 0 /\ taken[s] = 0
  BY DEF Init
<1> QED BY <1>2, <1>3, <1>4, FS_EmptySet DEF AtFirst, AtSecond

-----------------------------------------------------------------------------
(***************************************************************************)
(* What a lost signal leaves.  Behind a round's first pthread_kill there   *)
(* is a signal that was taken or is pending, behind its second a pair of   *)
(* them, whichever rounds they belong to.                                  *)
(***************************************************************************)
PastSecond == {"killReporter", "lockSent", "countSent"}

OneCovered(s) == taken[s] >= 1 \/ First(s) \in Notified(s)

BothCovered(s) ==
  \/ taken[s] >= 2
  \/ taken[s] >= 1 /\ Notified(s) # {}
  \/ UpdatersOf(s) \subseteq Notified(s)

CoverInv ==
  \A s \in Signals :
    /\ Sending(s, {"killSecond"}) # {} => OneCovered(s)
    /\ Sending(s, PastSecond) # {} \/ sent[s] > 0 => BothCovered(s)

\* A step of a thread that sends and takes nothing keeps what is covered.
LEMMA CoverGrows ==
  ASSUME NEW s \in Signals, Notified(s) \subseteq Notified(s)', taken' = taken
  PROVE  /\ OneCovered(s) => OneCovered(s)'
         /\ BothCovered(s) => BothCovered(s)'
  BY DEF OneCovered, BothCovered

LEMMA OthersCoverInv ==
  ASSUME TypeInv, CoverInv, MainThread \/ ReporterThread
  PROVE  CoverInv'
<1>1. ChoiceOK /\ ChoiceOK'
  BY MainTypeInv, ReporterTypeInv DEF TypeInv
<1>2. UNCHANGED <<choice, sent, taken>>
  BY DEF MainThread, ReporterThread, CreateThread, PollFirst, PollSecond, OpenLog,
         ReporterTakesSignal, LockReport, FirstLine, SecondLine, histories
<1>3. \A u \in Updaters : pending'[u] = pending[u]
  BY ThreadSets
  DEF MainThread, ReporterThread, CreateThread, PollFirst, PollSecond, OpenLog,
      ReporterTakesSignal, LockReport, FirstLine, SecondLine, TypeInv, TypeOK
<1>4. \A g \in Generators : pc'[g] = pc[g] \/ {pc[g], pc'[g]} \subseteq {"unborn", "choose"}
  <2>1. ASSUME NEW u \in Created, CreateThread(u), NEW g \in Generators
        PROVE  pc'[g] = pc[g] \/ {pc[g], pc'[g]} \subseteq {"unborn", "choose"}
    BY <2>1, ThreadSets DEF CreateThread, TypeInv, PcOK, StartLabel
  <2>2. ASSUME NEW t \in {Main, Reporter}, NEW l, Goto(t, l)
        PROVE  \A g \in Generators : pc'[g] = pc[g]
    BY <2>2, GotoOthers, ThreadSets
  <2> QED
    BY <2>1, <2>2, ThreadSets
    DEF MainThread, ReporterThread, PollFirst, PollSecond, OpenLog, ReporterTakesSignal,
        LockReport, FirstLine, SecondLine
<1>5. \A s \in Signals : Notified(s)' = Notified(s) /\ \A labels : Sending(s, labels)' = Sending(s, labels)
  BY <1>1, <1>2, <1>3, <1>4, SendingSame, NotifiedSame
<1> QED BY <1>2, <1>5 DEF CoverInv, OneCovered, BothCovered

LEMMA GeneratorCoverInv ==
  ASSUME TypeInv, CoverInv, NEW g \in Generators, Generator(g)
  PROVE  CoverInv'
<1> SUFFICES ASSUME NEW s \in Signals
             PROVE  /\ Sending(s, {"killSecond"})' # {} => OneCovered(s)'
                    /\ Sending(s, PastSecond)' # {} \/ sent'[s] > 0 => BothCovered(s)'
  BY DEF CoverInv
<1>0. /\ Sending(s, {"killSecond"}) # {} => OneCovered(s)
      /\ Sending(s, PastSecond) # {} \/ sent[s] > 0 => BothCovered(s)
  BY DEF CoverInv
<1>1. /\ taken' = taken /\ taken[s] \in Nat
      /\ \A u \in Updaters : pending[u] \subseteq pending'[u]
  <2>1. taken' = taken
    BY DEF Generator, SendsRound, Choose, KillFirst, KillSecond, KillReporter, PthreadKill, LockSent,
           CountSent, histories
  <2>2. taken[s] \in Nat
    BY DEF TypeInv, TypeOK
  <2>3. pending' = pending \/ \E t : pending' = [pending EXCEPT ![t] = @ \cup {choice[g]}]
    BY DEF Generator, SendsRound, Choose, KillFirst, KillSecond, KillReporter, PthreadKill, LockSent, CountSent
  <2>4. DOMAIN pending = Created /\ Updaters \subseteq Created
    BY ThreadSets DEF TypeInv, TypeOK
  <2> QED BY <2>1, <2>2, <2>3, <2>4
<1>2. Notified(s) \subseteq Notified(s)'
  BY <1>1, UpdaterSets DEF Notified
<1>3. (OneCovered(s) => OneCovered(s)') /\ (BothCovered(s) => BothCovered(s)')
  BY <1>1, <1>2, CoverGrows
\* The other generators stay where they are.
<1>4. ASSUME NEW l, Goto(g, l), NEW labels, Sending(s, labels)' # {}, Sending(s, labels) = {},
             \A h \in Generators : h # g => choice'[h] = choice[h]
      PROVE  l \in labels /\ choice'[g] = s /\ (pc[g] \notin labels \/ choice[g] # s)
  <2>1. pc'[g] = l /\ \A h \in Generators : h # g => pc'[h] = pc[h]
    BY <1>4, GotoOthers, ThreadSets
  <2> QED BY <1>4, <2>1 DEF Sending, Among
<1>5. CASE Choose(g)
  <2>1. /\ Goto(g, "killFirst") /\ sent' = sent
        /\ \A h \in Generators : h # g => choice'[h] = choice[h]
    BY <1>5 DEF Choose, TypeInv, TypeOK
  <2> QED BY <1>0, <1>3, <1>4, <2>1 DEF PastSecond
<1>6. CASE KillFirst(g)
  <2>1. /\ Goto(g, "killSecond") /\ UNCHANGED <<sent, choice>>
        /\ choice[g] \in Signals /\ First(choice[g]) \in Created
        /\ pending' = [pending EXCEPT ![First(choice[g])] = @ \cup {choice[g]}]
    BY <1>6, ThreadSets, UpdaterSets DEF KillFirst, PthreadKill, At, TypeInv, ChoiceOK, Outside
  <2>2. choice[g] = s => OneCovered(s)'
    BY <2>1, UpdaterSets DEF OneCovered, Notified, UpdatersOf, TypeInv, TypeOK
  <2> QED BY <1>0, <1>3, <1>4, <2>1, <2>2 DEF PastSecond
<1>7. CASE KillSecond(g)
  <2>1. /\ Goto(g, "killReporter") /\ pc[g] = "killSecond" /\ UNCHANGED <<sent, choice>>
        /\ choice[g] \in Signals /\ Second(choice[g]) \in Created
        /\ pending' = [pending EXCEPT ![Second(choice[g])] = @ \cup {choice[g]}]
    BY <1>7, ThreadSets, UpdaterSets DEF KillSecond, PthreadKill, At, TypeInv, ChoiceOK, Outside
  <2>2. choice[g] = s => OneCovered(s)
    BY <1>0, <2>1 DEF Sending, Among
  <2>3. choice[g] = s => Second(s) \in Notified(s)'
    BY <2>1, UpdaterSets DEF Notified, UpdatersOf, TypeInv, TypeOK
  <2>4. choice[g] = s => BothCovered(s)'
    BY <1>1, <1>2, <2>2, <2>3 DEF OneCovered, BothCovered, UpdatersOf
  <2> QED BY <1>0, <1>3, <1>4, <2>1, <2>4 DEF PastSecond
<1>8. CASE KillReporter(g) \/ LockSent(g)
  <2>1. PICK l \in {"lockSent", "countSent"} : Goto(g, l)
    BY <1>8 DEF KillReporter, LockSent, PthreadKill
  <2>2. pc[g] \in PastSecond /\ UNCHANGED <<sent, choice>>
    BY <1>8 DEF KillReporter, LockSent, PthreadKill, At, PastSecond
  <2> QED BY <1>0, <1>3, <1>4, <2>1, <2>2 DEF PastSecond
<1>9. CASE CountSent(g)
  <2>1. /\ Goto(g, "choose") /\ pc[g] \in PastSecond
        /\ \A h \in Generators : h # g => choice'[h] = choice[h]
        /\ sent' = [sent EXCEPT ![choice[g]] = tmp[g] + 1]
    BY <1>9 DEF CountSent, At, PastSecond, TypeInv, TypeOK
  <2>2. sent'[s] = sent[s] \/ choice[g] = s
    BY <2>1 DEF TypeInv, TypeOK
  <2>3. choice[g] = s => BothCovered(s)
    BY <1>0, <2>1 DEF Sending, Among
  <2> QED BY <1>0, <1>3, <1>4, <2>1, <2>2, <2>3 DEF PastSecond
<1> QED BY <1>5, <1>6, <1>7, <1>8, <1>9 DEF Generator, SendsRound

\* A signal that is taken covers as much as it did while it was pending.
LEMMA UpdaterCoverInv ==
  ASSUME TypeInv, CoverInv, NEW u \in Updaters, SignalUpdater(u)
  PROVE  CoverInv'
<1> SUFFICES ASSUME NEW s \in Signals
             PROVE  /\ Sending(s, {"killSecond"})' # {} => OneCovered(s)'
                    /\ Sending(s, PastSecond)' # {} \/ sent'[s] > 0 => BothCovered(s)'
  BY DEF CoverInv
<1>0. /\ Sending(s, {"killSecond"}) # {} => OneCovered(s)
      /\ Sending(s, PastSecond) # {} \/ sent[s] > 0 => BothCovered(s)
  BY DEF CoverInv
<1>1. UNCHANGED <<choice, sent>> /\ u \in Created /\ SignalOf(u) \in Signals /\ taken[s] \in Nat
  BY ThreadSets, UpdaterSets
  DEF SignalUpdater, TakeSignal, LockReceived, CountReceived, TypeInv, TypeOK
<1>2. \A labels : Sending(s, labels)' = Sending(s, labels)
  <2>1. \A h \in Generators : pc'[h] = pc[h]
    BY GotoOthers, ThreadSets DEF SignalUpdater, TakeSignal, LockReceived, CountReceived
  <2> QED BY <1>1, <2>1 DEF Sending, Among
<1>3. (OneCovered(s) => OneCovered(s)') /\ (BothCovered(s) => BothCovered(s)')
  <2>1. CASE TakeSignal(u) /\ SignalOf(u) = s
    <3>1. taken'[s] = taken[s] + 1 /\ pending' = [pending EXCEPT ![u] = @ \ {s}]
      BY <1>1, <2>1 DEF TakeSignal, TypeInv, TypeOK
    <3>2. Notified(s) \ {u} \subseteq Notified(s)'
      BY <1>1, <3>1, UpdaterSets, ThreadSets DEF Notified, TypeInv, TypeOK
    <3>3. BothCovered(s) => BothCovered(s)'
      <4>1. First(s) # Second(s) /\ UpdatersOf(s) = {First(s), Second(s)}
        BY DEF First, Second, UpdatersOf
      <4> QED BY <1>1, <3>1, <3>2, <4>1 DEF BothCovered
    <3> QED BY <1>1, <3>1, <3>3 DEF OneCovered
  <2>2. CASE ~(TakeSignal(u) /\ SignalOf(u) = s)
    <3>1. taken'[s] = taken[s] /\ \A v \in Updaters : s \in pending[v] => s \in pending'[v]
      BY <1>1, <2>2, ThreadSets
      DEF SignalUpdater, TakeSignal, LockReceived, CountReceived, histories, TypeInv, TypeOK
    <3>2. Notified(s) \subseteq Notified(s)'
      BY <3>1, UpdaterSets DEF Notified
    <3> QED BY <3>1, <3>2 DEF OneCovered, BothCovered
  <2> QED BY <2>1, <2>2
<1> QED BY <1>0, <1>1, <1>2, <1>3

LEMMA NextCoverInv == TypeInv /\ CoverInv /\ [Next]_vars => CoverInv'
<1>1. CoverInv /\ UNCHANGED vars => CoverInv'
  BY DEF vars, histories, CoverInv, OneCovered, BothCovered, Sending, Notified, Among
<1> QED
  BY <1>1, OthersCoverInv, GeneratorCoverInv, UpdaterCoverInv DEF Next

LEMMA InitCoverInv == Init => CoverInv
<1> SUFFICES ASSUME Init, NEW s \in Signals
             PROVE  /\ Sending(s, {"killSecond"}) = {} /\ Sending(s, PastSecond) = {}
                    /\ sent[s] = 0
  BY DEF CoverInv
<1>1. \A g \in Generators : pc[g] = "unborn"
  BY ThreadSets DEF Init
<1> QED BY <1>1 DEF Init, Sending, Among, PastSecond

-----------------------------------------------------------------------------
(***************************************************************************)
(* The theorems.                                                           *)
(***************************************************************************)
ThreadInv == TypeInv /\ LockInv /\ CountInv /\ CoverInv /\ ReportsWithinSent

\* What NoLostUpdates and TakenWithinBegun make of the rounds under way.
LEMMA CountsBound ==
  ASSUME TypeInv, CountInv
  PROVE  /\ ReceivedWithinSent
         /\ \A s \in Signals :
              received[s] + Cardinality(Counting(s)) + 2 * AtFirst(s) <= 2 * begun[s]
<1> SUFFICES ASSUME NEW s \in Signals
             PROVE  /\ received[s] + Cardinality(Counting(s)) + Cardinality(Notified(s))
                         <= 2 * sent[s]
                              + Cardinality(Sending(s, {"killSecond", "killReporter", "lockSent", "countSent"}))
                              + Cardinality(Sending(s, {"killReporter", "lockSent", "countSent"}))
                    /\ received[s] + Cardinality(Counting(s)) + 2 * AtFirst(s) <= 2 * begun[s]
  BY DEF ReceivedWithinSent
<1> DEFINE Rest == Sending(s, {"killReporter", "lockSent", "countSent"})
           Sent1 == Sending(s, {"killSecond", "killReporter", "lockSent", "countSent"})
           A == Sending(s, {"killFirst"})
           B == Sending(s, {"killSecond"})
           All == Sending(s, GeneratorLabels)
<1>1. /\ IsFiniteSet(Rest) /\ IsFiniteSet(Sent1) /\ IsFiniteSet(A) /\ IsFiniteSet(B) /\ IsFiniteSet(All)
      /\ Cardinality(Rest) \in Nat /\ Cardinality(Sent1) \in Nat /\ Cardinality(A) \in Nat
      /\ Cardinality(B) \in Nat /\ Cardinality(All) \in Nat
  BY CountTypes
<1>2. Sent1 = B \cup Rest /\ B \cap Rest = {}
  BY DEF Sending, Among
<1>3. All = A \cup Sent1 /\ A \cap Sent1 = {}
  BY DEF Sending, Among, GeneratorLabels, TypeInv, ChoiceOK, Outside
<1>4. /\ received[s] + Cardinality(Counting(s)) = taken[s]
      /\ taken[s] + Cardinality(Notified(s)) + 2 * Cardinality(A) + Cardinality(B) <= 2 * begun[s]
      /\ sent[s] + Cardinality(All) = begun[s]
  BY DEF CountInv, NoLostUpdates, TakenWithinBegun, AtFirst, AtSecond
<1>5. /\ sent[s] \in Nat /\ received[s] \in Nat /\ taken[s] \in Nat /\ begun[s] \in Nat
      /\ Cardinality(Counting(s)) \in Nat /\ Cardinality(Notified(s)) \in Nat
  BY CountTypes DEF TypeInv, TypeOK
<1>6. Cardinality(A) = AtFirst(s)
  BY DEF AtFirst
<1> HIDE DEF Rest, Sent1, A, B, All
<1>7. Cardinality(Sent1) = Cardinality(B) + Cardinality(Rest)
  <2>1. Cardinality(B \cap Rest) = 0
    BY <1>2, FS_EmptySet
  <2>2. Cardinality(B \cup Rest) = Cardinality(B) + Cardinality(Rest) - Cardinality(B \cap Rest)
    BY <1>1, FS_Union
  <2> QED BY <1>1, <1>2, <2>1, <2>2
<1>8. Cardinality(All) = Cardinality(A) + Cardinality(Sent1)
  <2>1. Cardinality(A \cap Sent1) = 0
    BY <1>3, FS_EmptySet
  <2>2. Cardinality(A \cup Sent1) = Cardinality(A) + Cardinality(Sent1) - Cardinality(A \cap Sent1)
    BY <1>1, FS_Union
  <2> QED BY <1>1, <1>3, <2>1, <2>2
<1>9. received[s] + Cardinality(Counting(s)) + Cardinality(Notified(s))
        <= 2 * sent[s] + Cardinality(Sent1) + Cardinality(Rest)
  BY <1>1, <1>4, <1>5, <1>7, <1>8
<1>10. received[s] + Cardinality(Counting(s)) + 2 * AtFirst(s) <= 2 * begun[s]
  BY <1>1, <1>4, <1>5, <1>6
<1> QED BY <1>9, <1>10 DEF Sent1, Rest

\* Hence a line written now shows at most one round per generator too few.
LEMMA LineWithinSent ==
  ASSUME TypeInv, CountInv, NEW s \in Signals
  PROVE  Line(s).received <= 2 * (Line(s).sent + Cardinality(Generators))
<1>1. ASSUME NEW labels
      PROVE  Cardinality(Sending(s, labels)) <= Cardinality(Generators)
  <2>1. Sending(s, labels) \in SUBSET Generators
    BY DEF Sending, Among
  <2> QED BY <2>1, ThreadSets, FS_Subset
<1>2. received[s] + Cardinality(Counting(s)) + Cardinality(Notified(s))
        <= 2 * sent[s]
             + Cardinality(Sending(s, {"killSecond", "killReporter", "lockSent", "countSent"}))
             + Cardinality(Sending(s, {"killReporter", "lockSent", "countSent"}))
  BY CountsBound DEF ReceivedWithinSent
<1>3. /\ sent[s] \in Nat /\ received[s] \in Nat /\ Cardinality(Generators) \in Nat
      /\ Cardinality(Counting(s)) \in Nat /\ Cardinality(Notified(s)) \in Nat
      /\ \A labels : Cardinality(Sending(s, labels)) \in Nat
  BY CountTypes, ThreadSets, FS_CardinalityType DEF TypeInv, TypeOK
<1>4. received[s] <= 2 * (sent[s] + Cardinality(Generators))
  BY <1>1, <1>2, <1>3
<1> QED BY <1>4 DEF Line

LEMMA NextReports ==
  TypeInv /\ CountInv /\ ReportsWithinSent /\ [Next]_vars => ReportsWithinSent'
<1> SUFFICES ASSUME TypeInv, CountInv, ReportsWithinSent, [Next]_vars
             PROVE  ReportsWithinSent'
  OBVIOUS
<1>1. log \in Seq([signal : Signals, sent : Nat, received : Nat])
  BY DEF TypeInv, TypeOK
<1>2. log' = log \/ \E s \in Signals : log' = Append(log, Line(s))
  BY DEF Next, MainThread, Generator, SendsRound, SignalUpdater, ReporterThread, CreateThread,
         PollFirst, PollSecond, Choose, KillFirst, KillSecond, KillReporter, PthreadKill, LockSent,
         CountSent, TakeSignal, LockReceived, CountReceived, OpenLog, ReporterTakesSignal,
         LockReport, FirstLine, SecondLine, Written, Signals, vars, reporterVars
<1>3. ASSUME NEW s \in Signals, log' = Append(log, Line(s))
      PROVE  ReportsWithinSent'
  <2>1. Len(log') = Len(log) + 1 /\ log'[Len(log) + 1] = Line(s) /\ Len(log) \in Nat
        /\ \A i \in 1 .. Len(log) : log'[i] = log[i]
    BY <1>1, <1>3
  <2>2. Line(s).received <= 2 * (Line(s).sent + Cardinality(Generators))
    BY LineWithinSent
  <2>3. ASSUME NEW i \in 1 .. Len(log')
        PROVE  log'[i].received <= 2 * (log'[i].sent + Cardinality(Generators))
    <3>1. CASE i = Len(log) + 1
      BY <2>1, <2>2, <3>1
    <3>2. CASE i \in 1 .. Len(log)
      BY <2>1, <3>2 DEF ReportsWithinSent
    <3> QED BY <2>1, <3>1, <3>2
  <2> QED BY <2>3 DEF ReportsWithinSent
<1> QED BY <1>2, <1>3 DEF ReportsWithinSent

LEMMA InitThreadInv == Init => ThreadInv
<1>1. Init => ReportsWithinSent
  BY DEF Init, ReportsWithinSent
<1> QED BY <1>1, InitTypeInv, InitLockInv, InitCountInv, InitCoverInv DEF ThreadInv

LEMMA NextThreadInv == ThreadInv /\ [Next]_vars => ThreadInv'
  BY NextTypeInv, NextLockInv, NextCountInv, NextCoverInv, NextReports DEF ThreadInv

LEMMA ThreadInvariant == Spec => []ThreadInv
  BY InitThreadInv, NextThreadInv, PTL DEF Spec

\* Every increment of a sent or received counter takes effect.
THEOREM UpdatesKept == Spec => []NoLostUpdates
<1>1. ThreadInv => NoLostUpdates
  BY DEF ThreadInv, CountInv
<1> QED BY <1>1, ThreadInvariant, PTL

\* What receivers count, hold and are about to take never exceeds what was sent
\* to them.
THEOREM ReceivedBounded == Spec => []ReceivedWithinSent
<1>1. ThreadInv => ReceivedWithinSent
  BY CountsBound DEF ThreadInv
<1> QED BY <1>1, ThreadInvariant, PTL

\* No line of any report shows more received than the sent rounds account for,
\* give or take one round of each generator.
THEOREM ReportsBounded == Spec => []ReportsWithinSent
<1>1. ThreadInv => ReportsWithinSent
  BY DEF ThreadInv
<1> QED BY <1>1, ThreadInvariant, PTL

\* However many signals are lost, both receivers of a signal that was sent and
\* counted have one to count, or have counted it.
THEOREM LossesCovered == Spec => []LostSignalsAreCovered
<1>1. ThreadInv => LostSignalsAreCovered
  <2> SUFFICES ASSUME TypeInv, CountInv, CoverInv, NEW s \in Signals, sent[s] > 0
               PROVE  received[s] + Cardinality(Counting(s)) + Cardinality(Notified(s)) >= 2
    BY DEF ThreadInv, LostSignalsAreCovered
  <2>1. /\ received[s] + Cardinality(Counting(s)) = taken[s]
        /\ BothCovered(s)
    BY DEF CountInv, NoLostUpdates, CoverInv
  <2>2. /\ taken[s] \in Nat /\ received[s] \in Nat /\ Cardinality(Counting(s)) \in Nat
        /\ IsFiniteSet(Notified(s)) /\ Cardinality(Notified(s)) \in Nat
    BY CountTypes DEF TypeInv, TypeOK
  <2>3. Notified(s) # {} => Cardinality(Notified(s)) >= 1
    BY <2>2, FS_EmptySet
  <2>4. UpdatersOf(s) \subseteq Notified(s) => Cardinality(Notified(s)) >= 2
    <3>1. Cardinality(UpdatersOf(s)) = 2
      <4>1. UpdatersOf(s) = First(s) .. Second(s) /\ Second(s) - First(s) = 1
            /\ First(s) \in Int /\ Second(s) \in Int /\ First(s) <= Second(s)
        BY DEF UpdatersOf, First, Second
      <4> QED BY <4>1, FS_Interval
    <3>2. UpdatersOf(s) \subseteq Notified(s) => Cardinality(UpdatersOf(s)) <= Cardinality(Notified(s))
      BY <2>2, FS_Subset
    <3> QED BY <2>2, <3>1, <3>2
  <2>5. taken[s] + Cardinality(Notified(s)) >= 2
    BY <2>1, <2>2, <2>3, <2>4 DEF BothCovered
  <2> QED BY <2>1, <2>2, <2>5
<1> QED BY <1>1, ThreadInvariant, PTL

\* The received counters of a report are those of one moment.
THEOREM ReportsAreSnapshots == Spec => []ReportIsSnapshot
<1>1. ThreadInv => ReportIsSnapshot
  BY DEF ThreadInv, LockInv, ReportIsSnapshot
<1> QED BY <1>1, ThreadInvariant, PTL

\* Every step that changes a counter is a step of CountedSignals.
LEMMA StepCounts ==
  ThreadInv /\ [Next]_vars => [Abstract!Next]_(Abstract!vars)
<1> SUFFICES ASSUME ThreadInv, [Next]_vars
             PROVE  Abstract!Next \/ UNCHANGED <<begun, sent, received>>
  BY DEF Abstract!vars
<1> USE DEF ThreadInv
<1>1. ASSUME NEW g \in Generators, Choose(g)
      PROVE  Abstract!Next
  <2>1. PICK s \in Signals : begun' = [begun EXCEPT ![s] = @ + 1]
    BY <1>1 DEF Choose
  <2>2. Abstract!Begin(s)
    BY <1>1, <2>1 DEF Choose, Abstract!Begin
  <2> QED BY <2>2 DEF Abstract!Next
<1>2. ASSUME NEW g \in Generators, CountSent(g)
      PROVE  Abstract!Next
  <2>1. pc[g] = "countSent" /\ choice[g] \in Signals /\ tmp[g] = sent[choice[g]]
    BY <1>2 DEF CountSent, At, TypeInv, ChoiceOK, Outside, LockInv
  <2>2. g \in Sending(choice[g], GeneratorLabels)
    BY <2>1 DEF Sending, Among, GeneratorLabels
  <2>3. InRound(choice[g]) \in Nat /\ InRound(choice[g]) # 0
    BY <2>1, <2>2, CountTypes, FS_EmptySet DEF InRound
  <2>4. sent[choice[g]] + InRound(choice[g]) = begun[choice[g]] /\ sent[choice[g]] \in Nat
    BY <2>1 DEF CountInv, NoLostUpdates, InRound, TypeInv, TypeOK
  <2>5. sent[choice[g]] < begun[choice[g]]
    BY <2>3, <2>4
  <2>6. Abstract!CountSent(choice[g])
    BY <1>2, <2>1, <2>5 DEF CountSent, histories, Abstract!CountSent
  <2> QED BY <2>1, <2>6 DEF Abstract!Next
<1>3. ASSUME NEW u \in Updaters, CountReceived(u)
      PROVE  Abstract!Next
  <2> DEFINE s == SignalOf(u)
  <2>1. pc[u] = "countReceived" /\ s \in Signals /\ u \in UpdatersOf(s) /\ tmp[u] = received[s]
    BY <1>3, UpdaterSets DEF CountReceived, At, LockInv
  <2>2. u \in Counting(s)
    BY <2>1 DEF Counting, Among
  <2>3. Cardinality(Counting(s)) \in Nat /\ Cardinality(Counting(s)) # 0
    BY <2>1, <2>2, CountTypes, FS_EmptySet
  <2>4. /\ received[s] + Cardinality(Counting(s)) + 2 * AtFirst(s) <= 2 * begun[s]
        /\ AtFirst(s) \in Nat /\ received[s] \in Nat /\ begun[s] \in Nat
    BY <2>1, CountsBound, CountTypes DEF AtFirst, TypeInv, TypeOK
  <2>5. received[s] < 2 * begun[s]
    BY <2>3, <2>4
  <2>6. Abstract!CountReceived(s)
    BY <1>3, <2>1, <2>5 DEF CountReceived, histories, Abstract!CountReceived
  <2> QED BY <2>1, <2>6 DEF Abstract!Next
<1>4. ASSUME ~ \E g \in Generators : Choose(g) \/ CountSent(g),
             ~ \E u \in Updaters : CountReceived(u)
      PROVE  UNCHANGED <<begun, sent, received>>
  BY <1>4
  DEF Next, MainThread, Generator, SendsRound, SignalUpdater, ReporterThread, CreateThread,
      PollFirst, PollSecond, KillFirst, KillSecond, KillReporter, PthreadKill, LockSent, TakeSignal,
      LockReceived, OpenLog, ReporterTakesSignal, LockReport, FirstLine, SecondLine, vars, histories
<1> QED BY <1>1, <1>2, <1>3, <1>4

\* The threads implement CountedSignals: counters go up by one, the sent one
\* after its round began, the received one at most twice per round.
THEOREM ImplementsCountedSignals == Spec => CountsSignals
<1>1. Init => Abstract!Init
  BY DEF Init, Abstract!Init
<1>2. Spec => [][Abstract!Next]_(Abstract!vars)
  BY ThreadInvariant, StepCounts, PTL DEF Spec
<1> QED BY <1>1, <1>2, PTL DEF Spec, CountsSignals, Abstract!Spec
=============================================================================
