------------------------ MODULE ProcSignalingProofs ------------------------
(***************************************************************************)
(* The counters of ProcSignaling, for every number of generators, rounds   *)
(* and signals per report, and whichever processes are slow, cannot be     *)
(* forked or die: no update is lost, no signal is invented, a report shows *)
(* the counters of one moment, and both updaters of a signal count it.     *)
(***************************************************************************)
EXTENDS ProcSignaling, FiniteSetTheorems, TLAPS

-----------------------------------------------------------------------------
(***************************************************************************)
(* The kinds of processes and the labels each goes through.                *)
(***************************************************************************)
LEMMA ProcessSets ==
  /\ IsFiniteSet(Generators)
  /\ Main \in Processes /\ Main \notin Children /\ Reporter \in Children
  /\ Ninth \in Children /\ Ninth \notin Receivers /\ Ninth \notin Generators
  /\ Reporter \notin Updaters /\ Reporter \notin Generators
  /\ Receivers = Updaters \cup {Reporter}
  /\ Children = Receivers \cup Generators \cup {Ninth}
  /\ Processes = Children \cup {Main}
  /\ Updaters \cap Generators = {}
  /\ Killed \subseteq Children
  /\ NoProcess \notin Processes
<1>1. IsFiniteSet(Generators)
  BY ProcessesAssumption, FS_Interval DEF Generators
<1> QED
  BY <1>1, ProcessesAssumption
  DEF Generators, Main, Processes, Children, Reporter, Ninth, Updaters, Receivers, Killed, NoProcess

\* The updaters of each signal.
LEMMA UpdaterSets ==
  /\ \A u \in Updaters : SignalOf(u) \in Signals
  /\ \A s \in Signals :
       /\ UpdatersOf(s) = {u \in Updaters : SignalOf(u) = s}
       /\ IsFiniteSet(UpdatersOf(s))
       /\ Cardinality(UpdatersOf(s)) = 2
<1>1. UpdatersOf(SIGUSR1) = 0 .. 1 /\ UpdatersOf(SIGUSR2) = 2 .. 3
  BY DEF UpdatersOf, SignalOf, Updaters, SIGUSR1, SIGUSR2
<1>2. /\ IsFiniteSet(0 .. 1) /\ Cardinality(0 .. 1) = 2
      /\ IsFiniteSet(2 .. 3) /\ Cardinality(2 .. 3) = 2
  <2>1. \A i, j \in Int : i <= j => IsFiniteSet(i .. j) /\ Cardinality(i .. j) = j - i + 1
    BY FS_Interval
  <2>2. 0 \in Int /\ 1 \in Int /\ 2 \in Int /\ 3 \in Int /\ 0 <= 1 /\ 2 <= 3
    OBVIOUS
  <2>3. /\ IsFiniteSet(0 .. 1) /\ Cardinality(0 .. 1) = 1 - 0 + 1
        /\ IsFiniteSet(2 .. 3) /\ Cardinality(2 .. 3) = 3 - 2 + 1
    BY <2>1, <2>2, Zenon
  <2> QED BY <2>3
<1>3. \A s \in Signals : IsFiniteSet(UpdatersOf(s)) /\ Cardinality(UpdatersOf(s)) = 2
  BY <1>1, <1>2 DEF Signals
<1> QED
  BY <1>3 DEF Updaters, SignalOf, Signals, UpdatersOf

Labels ==
  {"unborn", "returned"} \cup SetupLabels \cup GeneratorLabels \cup UpdaterLabels
    \cup ReporterLabels \cup MainLabels

LEMMA PcOfKinds ==
  /\ PcOf(Main) = {"unborn"} \cup MainLabels
  /\ PcOf(Reporter) = {"unborn"} \cup SetupLabels \cup ReporterLabels
  /\ PcOf(Ninth) = {"unborn", "returned"}
  /\ \A u \in Updaters : PcOf(u) = {"unborn"} \cup SetupLabels \cup UpdaterLabels
  /\ \A g \in Generators : PcOf(g) = {"unborn"} \cup GeneratorLabels
  /\ \A p \in Processes : PcOf(p) \subseteq Labels
<1>1. /\ Main \notin Updaters /\ Main # Reporter /\ Main # Ninth /\ Main \notin Generators
      /\ Ninth \notin Updaters /\ Ninth # Reporter
  BY ProcessSets
<1>2. PcOf(Main) = {"unborn"} \cup MainLabels
  BY <1>1 DEF PcOf
<1>3. PcOf(Reporter) = {"unborn"} \cup SetupLabels \cup ReporterLabels
  BY <1>1, ProcessSets DEF PcOf
<1>4. PcOf(Ninth) = {"unborn", "returned"}
  BY <1>1 DEF PcOf
<1>5. \A u \in Updaters : PcOf(u) = {"unborn"} \cup SetupLabels \cup UpdaterLabels
  BY <1>1 DEF PcOf
<1>6. \A g \in Generators : PcOf(g) = {"unborn"} \cup GeneratorLabels
  BY <1>1, ProcessSets DEF PcOf
<1>7. \A p \in Processes : PcOf(p) \subseteq Labels
  BY <1>2, <1>3, <1>4, <1>5, <1>6, ProcessSets DEF Labels
<1> QED BY <1>2, <1>3, <1>4, <1>5, <1>6, <1>7

-----------------------------------------------------------------------------
(***************************************************************************)
(* Types, with when a generator is in a round, what can be pending for an  *)
(* updater and how far main has come in its loops.                         *)
(***************************************************************************)
Outside == {"unborn", "choose"}
Locking == {"lockOne", "lockTwo"}

PcOK ==
  /\ pc \in [Processes -> Labels]
  /\ \A p \in Processes : pc[p] \in PcOf(p)

ChoiceOK ==
  \A g \in Generators : choice[g] \in Signals <=> pc[g] \notin Outside

PendingOK ==
  /\ pending \in [Receivers -> SUBSET Signals]
  /\ \A u \in Updaters : pending[u] \subseteq {SignalOf(u)}

MainOK ==
  /\ next \in 0 .. SUB_PROCESSES + 1
  /\ pc[Main] = "fork" => next \in Children /\ \A p \in next .. SUB_PROCESSES : pc[p] = "unborn"
  /\ pc[Main] = "killAll" => next \in Killed

ReporterOK ==
  /\ concurrentProcesses \in 0 .. ReportEvery
  /\ concurrentProcesses = ReportEvery <=> pc[Reporter] \in Locking

ControlOK == PcOK /\ ChoiceOK /\ PendingOK /\ MainOK /\ ReporterOK

\* The variables that only hold data.
DataOK ==
  /\ dead \subseteq Children
  /\ mutex \in [Signals -> Generators \cup Receivers \cup {NoProcess}]
  /\ sent \in [Signals -> Nat]
  /\ received \in [Signals -> Nat]
  /\ interrupted \subseteq Children
  /\ choice \in [Generators -> Signals \cup {NoSignal}]
  /\ tmp \in [Processes -> Nat]
  /\ log_open \in BOOLEAN
  /\ log \in Seq([signal : Signals, sent : Nat, received : Nat])
  /\ unforked \subseteq Children
  /\ begun \in [Signals -> Nat]
  /\ taken \in [Signals -> Nat]

TypeInv == ControlOK /\ DataOK

LEMMA TypeInvTypes == TypeInv => TypeOK
<1> SUFFICES ASSUME TypeInv PROVE TypeOK
  OBVIOUS
<1>1. DOMAIN pc = Processes /\ \A p \in Processes : pc[p] \in PcOf(p)
  BY DEF TypeInv, ControlOK, PcOK
<1>2. pending \in [Receivers -> SUBSET Signals] /\ next \in 0 .. SUB_PROCESSES + 1
  BY DEF TypeInv, ControlOK, PendingOK, MainOK
<1>3. /\ concurrentProcesses \in 0 .. ReportEvery
      /\ concurrentProcesses = ReportEvery <=> pc[Reporter] \in {"lockOne", "lockTwo"}
  BY DEF TypeInv, ControlOK, ReporterOK, Locking
<1> QED BY <1>1, <1>2, <1>3 DEF TypeInv, DataOK, TypeOK

LEMMA InitTypeInv == Init => TypeInv
<1> SUFFICES ASSUME Init PROVE TypeInv
  OBVIOUS
<1>1. \A p \in Processes : pc[p] = IF p = Main THEN "fork" ELSE "unborn"
  BY DEF Init
<1>2. pc[Main] = "fork" /\ \A p \in Children : pc[p] = "unborn"
  BY <1>1, ProcessSets
<1>3. PcOK
  <2>1. \A p \in Processes : pc[p] \in PcOf(p)
    BY <1>2, PcOfKinds, ProcessSets DEF PcOf, MainLabels
  <2> QED BY <2>1, PcOfKinds DEF Init, PcOK
<1>4. ChoiceOK
  BY <1>2, ProcessSets DEF Init, ChoiceOK, Outside, Signals, NoSignal, SIGUSR1, SIGUSR2
<1>5. PendingOK
  BY ProcessSets DEF Init, PendingOK
<1>6. MainOK
  BY <1>2, ProcessSets, ProcessesAssumption DEF Init, MainOK, Children
<1>7. ReporterOK
  BY <1>2, ProcessSets, CountsAssumption DEF Init, ReporterOK, Locking
<1>8. DataOK
  <2>1. log \in Seq([signal : Signals, sent : Nat, received : Nat])
    BY DEF Init
  <2> QED BY <2>1 DEF Init, DataOK
<1> QED BY <1>3, <1>4, <1>5, <1>6, <1>7, <1>8 DEF TypeInv, ControlOK

\* A process goes to one of its own labels.
LEMMA GotoOthers ==
  ASSUME TypeInv, NEW p \in Processes, NEW l \in PcOf(p), Goto(p, l)
  PROVE  PcOK' /\ pc'[p] = l /\ \A q \in Processes : q # p => pc'[q] = pc[q]
  BY PcOfKinds DEF TypeInv, ControlOK, PcOK, Goto

\* What stays as it is when a child goes on.
LEMMA ChildGoes ==
  ASSUME TypeInv, NEW p \in Children, NEW l \in PcOf(p), Goto(p, l), pc[p] # "unborn", next' = next
  PROVE  /\ PcOK' /\ MainOK' /\ pc'[p] = l
         /\ p \notin Generators /\ choice' = choice => ChoiceOK'
         /\ p # Reporter /\ concurrentProcesses' = concurrentProcesses => ReporterOK'
<1>1. p \in Processes /\ p # Main /\ Main \in Processes
  BY ProcessSets
<1>2. PcOK' /\ pc'[p] = l /\ \A q \in Processes : q # p => pc'[q] = pc[q]
  BY <1>1, GotoOthers
<1>3. MainOK'
  <2>1. pc'[Main] = pc[Main]
    BY <1>1, <1>2
  <2>2. ASSUME pc[Main] = "fork", NEW q \in next .. SUB_PROCESSES
        PROVE  pc'[q] = "unborn"
    <3>1. next \in Children /\ pc[q] = "unborn"
      BY <2>2 DEF TypeInv, ControlOK, MainOK
    <3>2. q \in Processes
      BY <3>1, ProcessesAssumption DEF Processes, Children
    <3> QED BY <1>2, <3>1, <3>2
  <2> QED BY <2>1, <2>2 DEF TypeInv, ControlOK, MainOK
<1>4. ASSUME p \notin Generators, choice' = choice
      PROVE  ChoiceOK'
  <2>1. \A g \in Generators : pc'[g] = pc[g]
    BY <1>2, <1>4, ProcessSets
  <2> QED BY <1>4, <2>1 DEF TypeInv, ControlOK, ChoiceOK
<1>5. ASSUME p # Reporter, concurrentProcesses' = concurrentProcesses
      PROVE  ReporterOK'
  <2>1. pc'[Reporter] = pc[Reporter]
    BY <1>2, <1>5, ProcessSets
  <2> QED BY <1>5, <2>1 DEF TypeInv, ControlOK, ReporterOK
<1> QED BY <1>2, <1>3, <1>4, <1>5

LEMMA ForkTypeInv ==
  ASSUME TypeInv, NEW labels, ForkTo(labels), labels[next] \in PcOf(next),
         next \in Generators => labels[next] \in Outside,
         next = Reporter => labels[next] \notin Locking,
         unforked' \subseteq Children
  PROVE  TypeInv'
<1>1. /\ next \in Children /\ Main \notin Children /\ Main \in Processes /\ next \in Processes
      /\ \A p \in next .. SUB_PROCESSES : pc[p] = "unborn"
  BY ProcessSets DEF TypeInv, ControlOK, MainOK, ForkTo, At
<1>2. /\ pc'[next] = labels[next] /\ pc'[Main] = IF next = Ninth THEN "poll" ELSE "fork"
      /\ \A p \in Children : p # next => pc'[p] = pc[p]
      /\ pc' \in [Processes -> Labels]
  <2>1. labels[next] \in Labels /\ {"poll", "fork"} \subseteq Labels
    BY <1>1, PcOfKinds DEF Labels, MainLabels
  <2> QED BY <1>1, <2>1, ProcessSets DEF ForkTo, TypeInv, ControlOK, PcOK
<1>3. next' = next + 1 /\ next \in 0 .. SUB_PROCESSES
  BY <1>1 DEF ForkTo, Children
<1>4. pc[next] = "unborn"
  BY <1>1, <1>3, ProcessesAssumption
<1>5. PcOK'
  <2>1. pc'[Main] \in PcOf(Main)
    BY <1>2, PcOfKinds DEF MainLabels
  <2>2. \A p \in Children : pc'[p] \in PcOf(p)
    BY <1>2, ProcessSets DEF TypeInv, ControlOK, PcOK
  <2> QED BY <1>2, <2>1, <2>2, ProcessSets DEF PcOK
<1>6. ChoiceOK'
  <2>1. choice' = choice
    BY DEF ForkTo
  <2> QED BY <1>2, <1>4, <2>1, ProcessSets DEF TypeInv, ControlOK, ChoiceOK, Outside
<1>7. MainOK'
  <2>1. next' \in 0 .. SUB_PROCESSES + 1
    BY <1>3, ProcessesAssumption
  <2>2. ASSUME pc'[Main] = "fork"
        PROVE  next' \in Children /\ \A p \in next' .. SUB_PROCESSES : pc'[p] = "unborn"
    <3>1. next # SUB_PROCESSES
      BY <1>2, <2>2 DEF Ninth
    <3>2. next' \in Children
      BY <1>3, <3>1, ProcessesAssumption DEF Children
    <3>3. ASSUME NEW p \in next' .. SUB_PROCESSES
          PROVE  pc'[p] = "unborn"
      <4>1. p \in Children /\ p # next /\ p \in next .. SUB_PROCESSES
        BY <1>3, <3>3, ProcessesAssumption DEF Children
      <4> QED BY <1>1, <1>2, <4>1
    <3> QED BY <3>2, <3>3
  <2>3. pc'[Main] # "killAll"
    BY <1>2
  <2> QED BY <2>1, <2>2, <2>3 DEF MainOK
<1>8. ReporterOK'
  <2>1. concurrentProcesses' = concurrentProcesses
    BY DEF ForkTo, reporterVars
  <2>2. pc'[Reporter] \in Locking <=> pc[Reporter] \in Locking
    BY <1>2, <1>4, ProcessSets DEF Locking
  <2> QED BY <2>1, <2>2 DEF TypeInv, ControlOK, ReporterOK
<1>9. PendingOK' /\ DataOK'
  BY DEF TypeInv, ControlOK, PendingOK, DataOK, ForkTo, counters, reporterVars, histories
<1> QED BY <1>5, <1>6, <1>7, <1>8, <1>9 DEF TypeInv, ControlOK

LEMMA MainTypeInv == TypeInv /\ MainProcess => TypeInv'
<1> SUFFICES ASSUME TypeInv, MainProcess PROVE TypeInv'
  OBVIOUS
<1>1. Main \in Processes /\ Main \notin Generators /\ Main # Reporter /\ Main \notin Children
  BY ProcessSets
<1>2. CASE Fork
  <2> DEFINE labels == [p \in Children |-> StartLabel(p)]
  <2>1. next \in Children
    BY <1>2 DEF Fork, ForkTo, At, TypeInv, ControlOK, MainOK
  <2>2. labels[next] = StartLabel(next)
    BY <2>1
  <2>3. /\ StartLabel(next) \in PcOf(next)
        /\ next \in Generators => StartLabel(next) \in Outside
        /\ next = Reporter => StartLabel(next) \notin Locking
    BY <2>1, PcOfKinds, ProcessSets
    DEF StartLabel, SetupLabels, GeneratorLabels, Outside, Locking
  <2>4. unforked' \subseteq Children
    BY <1>2 DEF Fork, TypeInv, DataOK
  <2>5. ForkTo(labels)
    BY <1>2 DEF Fork
  <2> HIDE DEF labels
  <2> QED BY <2>2, <2>3, <2>4, <2>5, ForkTypeInv
<1>3. CASE ForkFails
  <2> DEFINE labels == [p \in Children |-> "unborn"]
  <2>1. next \in Children
    BY <1>3 DEF ForkFails, ForkTo, At, TypeInv, ControlOK, MainOK
  <2>2. labels[next] = "unborn"
    BY <2>1
  <2>3. "unborn" \in PcOf(next)
    BY DEF PcOf
  <2>4. unforked' \subseteq Children
    BY <1>3, <2>1 DEF ForkFails, TypeInv, DataOK
  <2>5. ForkTo(labels)
    BY <1>3 DEF ForkFails
  <2> HIDE DEF labels
  <2> QED BY <2>2, <2>3, <2>4, <2>5, ForkTypeInv DEF Outside, Locking
\* The steps after the fork loop.
<1>4. ASSUME NEW l \in MainLabels, l # "fork", Goto(Main, l), next' \in 0 .. SUB_PROCESSES + 1,
             l = "killAll" => next' \in Killed, UNCHANGED <<pending, choice, reporterVars>>
      PROVE  ControlOK'
  <2>1. l \in PcOf(Main)
    BY <1>4, PcOfKinds
  <2>2. PcOK' /\ pc'[Main] = l /\ \A q \in Processes : q # Main => pc'[q] = pc[q]
    BY <1>1, <1>4, <2>1, GotoOthers
  <2>3. ChoiceOK' /\ ReporterOK'
    BY <1>1, <1>4, <2>2, ProcessSets
    DEF TypeInv, ControlOK, ChoiceOK, ReporterOK, reporterVars
  <2>4. PendingOK' /\ MainOK'
    BY <1>4, <2>2 DEF TypeInv, ControlOK, PendingOK, MainOK
  <2> QED BY <2>2, <2>3, <2>4 DEF ControlOK
<1>5. CASE PollFirst
  <2>1. ControlOK'
    BY <1>4, <1>5 DEF PollFirst, mainVars, TypeInv, ControlOK, MainOK, MainLabels
  <2>2. DataOK'
    BY <1>5 DEF PollFirst, TypeInv, DataOK, Signals, counters, reporterVars, mainVars, histories
  <2> QED BY <2>1, <2>2 DEF TypeInv
<1>6. CASE PollSecond
  <2>1. 0 \in Killed
    BY ProcessesAssumption DEF Killed
  <2>2. ControlOK'
    BY <1>4, <1>6, <2>1, ProcessesAssumption
    DEF PollSecond, TypeInv, ControlOK, MainOK, MainLabels
  <2>3. DataOK'
    BY <1>6 DEF PollSecond, TypeInv, DataOK, counters, reporterVars, histories
  <2> QED BY <2>2, <2>3 DEF TypeInv
<1>7. CASE KillChild
  <2>1. next \in Killed
    BY <1>7 DEF KillChild, At, TypeInv, ControlOK, MainOK
  <2>2. next' = next + 1 /\ next' \in 0 .. SUB_PROCESSES + 1
    BY <1>7, <2>1, ProcessesAssumption DEF KillChild, Killed
  <2>3. ControlOK'
    BY <1>4, <1>7, <2>2 DEF KillChild, MainLabels
  <2>4. DataOK'
    <3> DEFINE targets == IF next \in unforked THEN {p \in Children : Alive(p)} ELSE {next}
    <3>1. targets \subseteq Children
      BY <2>1, ProcessSets
    <3>2. Interrupt(targets)
      BY <1>7 DEF KillChild
    <3> HIDE DEF targets
    <3>3. interrupted' \subseteq Children /\ dead' \subseteq Children
      BY <3>1, <3>2 DEF Interrupt, TypeInv, DataOK
    <3> QED BY <1>7, <3>3 DEF KillChild, TypeInv, DataOK, counters, reporterVars, histories
  <2> QED BY <2>3, <2>4 DEF TypeInv
<1>8. CASE PrintTotals
  <2>1. ControlOK'
    BY <1>4, <1>8 DEF PrintTotals, mainVars, TypeInv, ControlOK, MainOK, MainLabels
  <2>2. DataOK'
    BY <1>8 DEF PrintTotals, TypeInv, DataOK, counters, reporterVars, mainVars, histories
  <2> QED BY <2>1, <2>2 DEF TypeInv
<1> QED BY <1>2, <1>3, <1>5, <1>6, <1>7, <1>8 DEF MainProcess

\* A signal ends a process where it is.
LEMMA DieTypeInv ==
  ASSUME TypeInv, NEW p \in Children, Die(p)
  PROVE  TypeInv'
  BY DEF Die, TypeInv, ControlOK, PcOK, ChoiceOK, PendingOK, MainOK, ReporterOK, DataOK,
         counters, reporterVars, mainVars, histories

LEMMA ReceiverTypeInv ==
  ASSUME TypeInv, NEW r \in Receivers, Receiver(r)
  PROVE  TypeInv'
<1>1. r \in Children /\ r \in Processes /\ r \notin Generators /\ SetupLabels \subseteq PcOf(r)
      /\ "pause" \in PcOf(r) /\ "enter" \in PcOf(r)
  BY ProcessSets, PcOfKinds DEF SetupLabels, UpdaterLabels, ReporterLabels
\* A receiver goes to a label at which it does not report.
<1>2. ASSUME NEW l \in PcOf(r), Goto(r, l), pc[r] # "unborn", pc[r] \notin Locking, l \notin Locking,
             UNCHANGED <<choice, reporterVars, mainVars>>
      PROVE  PcOK' /\ MainOK' /\ ChoiceOK' /\ ReporterOK'
  <2>1. PcOK' /\ MainOK' /\ ChoiceOK' /\ pc'[r] = l
    BY <1>1, <1>2, ChildGoes DEF mainVars
  <2>2. ReporterOK'
    <3>1. CASE r = Reporter
      BY <1>2, <2>1, <3>1 DEF TypeInv, ControlOK, ReporterOK, reporterVars
    <3>2. CASE r # Reporter
      BY <1>1, <1>2, <3>2, ChildGoes DEF reporterVars, mainVars
    <3> QED BY <3>1, <3>2
  <2> QED BY <2>1, <2>2
\* All that is pending for it is delivered.
<1>3. ASSUME pending' = [pending EXCEPT ![r] = {}]
      PROVE  PendingOK'
  BY <1>3 DEF TypeInv, ControlOK, PendingOK
<1>4. CASE Unblock(r)
  <2>1. PcOK' /\ MainOK' /\ ChoiceOK' /\ ReporterOK'
    BY <1>1, <1>2, <1>4 DEF Unblock, At, SetupLabels, Locking
  <2>2. PendingOK' /\ DataOK'
    BY <1>4 DEF Unblock, TypeInv, ControlOK, PendingOK, DataOK, counters, reporterVars, mainVars, histories
  <2> QED BY <2>1, <2>2 DEF TypeInv, ControlOK
<1>5. CASE DieOfDefault(r)
  BY <1>1, <1>5, DieTypeInv DEF DieOfDefault
<1>6. CASE Install(r)
  <2>1. PcOK' /\ MainOK' /\ ChoiceOK' /\ ReporterOK'
    BY <1>1, <1>2, <1>6 DEF Install, At, Locking
  <2>2. PendingOK' /\ DataOK'
    BY <1>6 DEF Install, TypeInv, ControlOK, PendingOK, DataOK, counters, reporterVars, mainVars, histories
  <2> QED BY <2>1, <2>2 DEF TypeInv, ControlOK
<1>9. CASE EnterPause(r)
  <2>1. PcOK' /\ MainOK' /\ ChoiceOK' /\ ReporterOK'
    BY <1>1, <1>2, <1>9 DEF EnterPause, At, Locking
  <2>2. PendingOK' /\ DataOK'
    BY <1>9 DEF EnterPause, TypeInv, ControlOK, PendingOK, DataOK, counters, reporterVars, mainVars, histories
  <2> QED BY <2>1, <2>2 DEF TypeInv, ControlOK
<1>7. CASE PauseReturns(r)
  <2>1. PcOK' /\ MainOK' /\ ChoiceOK' /\ ReporterOK'
    <3>1. CASE r \in Updaters
      BY <1>2, <1>7, <3>1, PcOfKinds DEF PauseReturns, At, UpdaterLabels, Locking
    <3>2. CASE r \notin Updaters
      BY <1>2, <1>7, <3>2, PcOfKinds, ProcessSets DEF PauseReturns, At, ReporterLabels, Locking
    <3> QED BY <3>1, <3>2
  <2>2. PendingOK'
    BY <1>3, <1>7 DEF PauseReturns
  <2>3. taken' \in [Signals -> Nat]
    <3>1. CASE r \in Updaters
      <4>1. taken' = [taken EXCEPT ![SignalOf(r)] = @ + 1] /\ SignalOf(r) \in Signals
        BY <1>7, <3>1, UpdaterSets DEF PauseReturns
      <4> QED BY <4>1 DEF TypeInv, DataOK
    <3>2. CASE r \notin Updaters
      BY <1>7, <3>2 DEF PauseReturns, TypeInv, DataOK
    <3> QED BY <3>1, <3>2
  <2>4. DataOK'
    BY <1>7, <2>3 DEF PauseReturns, TypeInv, DataOK, counters, reporterVars, mainVars
  <2> QED BY <2>1, <2>2, <2>4 DEF TypeInv, ControlOK
<1>8. CASE HandledOutsidePause(r)
  <2>1. PendingOK'
    BY <1>3, <1>8 DEF HandledOutsidePause
  <2>2. PcOK' /\ MainOK' /\ ChoiceOK' /\ ReporterOK' /\ DataOK'
    BY <1>8
    DEF HandledOutsidePause, TypeInv, ControlOK, PcOK, MainOK, ChoiceOK, ReporterOK, DataOK,
        counters, reporterVars, mainVars, histories
  <2> QED BY <2>1, <2>2 DEF TypeInv, ControlOK
<1> QED BY <1>4, <1>5, <1>6, <1>7, <1>8, <1>9 DEF Receiver

LEMMA GeneratorTypeInv ==
  ASSUME TypeInv, NEW g \in Generators, Choose(g) \/ SendsRound(g)
  PROVE  TypeInv'
<1>1. /\ g \in Children /\ g \in Processes /\ g # Reporter /\ GeneratorLabels \subseteq PcOf(g)
      /\ NoSignal \notin Signals /\ g \notin Receivers
  BY ProcessSets, PcOfKinds DEF NoSignal, Signals, SIGUSR1, SIGUSR2
<1>2. pc[g] \notin Outside => choice[g] \in Signals
  BY DEF TypeInv, ControlOK, ChoiceOK
\* A generator goes to l, with c as the signal of its round.
<1>3. ASSUME NEW l \in GeneratorLabels, Goto(g, l), pc[g] # "unborn", NEW c,
             choice' = [choice EXCEPT ![g] = c], c \in Signals <=> l \notin Outside,
             UNCHANGED <<reporterVars, mainVars>>
      PROVE  PcOK' /\ MainOK' /\ ChoiceOK' /\ ReporterOK'
  <2>1. PcOK' /\ MainOK' /\ ReporterOK' /\ pc'[g] = l
    BY <1>1, <1>3, ChildGoes DEF reporterVars, mainVars
  <2>2. \A h \in Generators : h # g => pc'[h] = pc[h]
    BY <1>1, <1>3, GotoOthers, ProcessSets
  <2>3. ChoiceOK'
    BY <1>3, <2>1, <2>2 DEF TypeInv, ControlOK, ChoiceOK, DataOK
  <2> QED BY <2>1, <2>3
<1>4. CASE Choose(g)
  <2>1. PICK s \in Signals : /\ choice' = [choice EXCEPT ![g] = s]
                             /\ begun' = [begun EXCEPT ![s] = @ + 1]
    BY <1>4 DEF Choose
  <2>2. PcOK' /\ MainOK' /\ ChoiceOK' /\ ReporterOK'
    BY <1>3, <1>4, <2>1 DEF Choose, At, GeneratorLabels, Outside
  <2>3. PendingOK'
    BY <1>4 DEF Choose, TypeInv, ControlOK, PendingOK
  <2>4. begun' \in [Signals -> Nat] /\ choice' \in [Generators -> Signals \cup {NoSignal}]
    BY <2>1 DEF TypeInv, DataOK
  <2>5. DataOK'
    BY <1>4, <2>4 DEF Choose, TypeInv, DataOK, counters, reporterVars, mainVars
  <2> QED BY <2>2, <2>3, <2>5 DEF TypeInv, ControlOK
\* Within a round.
<1>5. choice' = choice => choice' = [choice EXCEPT ![g] = choice[g]]
  BY DEF TypeInv, DataOK
<1>6. CASE LockSent(g)
  <2>1. choice[g] \in Signals
    BY <1>2, <1>6 DEF LockSent, At, Outside
  <2>2. PcOK' /\ MainOK' /\ ChoiceOK' /\ ReporterOK'
    BY <1>3, <1>5, <1>6, <2>1 DEF LockSent, At, GeneratorLabels, Outside
  <2>3. PendingOK'
    BY <1>6 DEF LockSent, TypeInv, ControlOK, PendingOK
  <2>4. mutex' \in [Signals -> Generators \cup Receivers \cup {NoProcess}]
    BY <1>6, <2>1 DEF LockSent, Lock, TypeInv, DataOK
  <2>5. tmp' \in [Processes -> Nat]
    BY <1>6, <2>1 DEF LockSent, TypeInv, DataOK
  <2>6. DataOK'
    BY <1>6, <2>4, <2>5 DEF LockSent, TypeInv, DataOK, reporterVars, mainVars, histories
  <2> QED BY <2>2, <2>3, <2>6 DEF TypeInv, ControlOK
<1>7. CASE CountSent(g)
  <2>1. choice[g] \in Signals /\ tmp[g] \in Nat
    BY <1>1, <1>2, <1>7 DEF CountSent, At, Outside, TypeInv, DataOK
  <2>2. PcOK' /\ MainOK' /\ ChoiceOK' /\ ReporterOK'
    BY <1>3, <1>5, <1>7, <2>1 DEF CountSent, At, GeneratorLabels, Outside
  <2>3. PendingOK'
    BY <1>7 DEF CountSent, TypeInv, ControlOK, PendingOK
  <2>4. mutex' \in [Signals -> Generators \cup Receivers \cup {NoProcess}]
    BY <1>7 DEF CountSent, Unlock, TypeInv, DataOK
  <2>5. tmp' \in [Processes -> Nat] /\ sent' \in [Signals -> Nat]
    <3>1. tmp' = [tmp EXCEPT ![g] = 0] /\ sent' = [sent EXCEPT ![choice[g]] = tmp[g] + 1]
      BY <1>7 DEF CountSent
    <3>2. tmp[g] + 1 \in Nat
      BY <2>1
    <3> QED BY <3>1, <3>2 DEF TypeInv, DataOK
  <2>6. DataOK'
    BY <1>7, <2>4, <2>5 DEF CountSent, TypeInv, DataOK, reporterVars, mainVars, histories
  <2> QED BY <2>2, <2>3, <2>6 DEF TypeInv, ControlOK
<1>8. CASE Kill(g)
  <2>1. choice[g] \in Signals
    BY <1>2, <1>8 DEF Kill, At, Outside
  <2>2. PcOK' /\ MainOK' /\ ChoiceOK' /\ ReporterOK'
    BY <1>1, <1>3, <1>8 DEF Kill, At, GeneratorLabels, Outside
  <2>3. PendingOK'
    BY <1>8, <2>1, ProcessSets
    DEF Kill, ReceiversOf, UpdatersOf, TypeInv, ControlOK, PendingOK
  <2>4. DataOK'
    BY <1>8 DEF Kill, TypeInv, DataOK, counters, reporterVars, mainVars, histories
  <2> QED BY <2>2, <2>3, <2>4 DEF TypeInv, ControlOK
<1> QED BY <1>4, <1>6, <1>7, <1>8 DEF SendsRound

LEMMA UpdaterTypeInv ==
  ASSUME TypeInv, NEW u \in Updaters, SignalUpdater(u)
  PROVE  TypeInv'
<1>1. /\ u \in Children /\ u \in Processes /\ u # Reporter /\ u \in Receivers /\ u \notin Generators
      /\ UpdaterLabels \subseteq PcOf(u) /\ SignalOf(u) \in Signals
  BY ProcessSets, PcOfKinds, UpdaterSets
<1>2. CASE LockReceived(u)
  <2>1. PcOK' /\ MainOK' /\ ChoiceOK' /\ ReporterOK'
    BY <1>1, <1>2, ChildGoes DEF LockReceived, At, UpdaterLabels, reporterVars, mainVars
  <2>2. PendingOK'
    BY <1>2 DEF LockReceived, TypeInv, ControlOK, PendingOK
  <2>3. mutex' \in [Signals -> Generators \cup Receivers \cup {NoProcess}]
    BY <1>1, <1>2 DEF LockReceived, Lock, TypeInv, DataOK
  <2>4. tmp' \in [Processes -> Nat]
    BY <1>1, <1>2 DEF LockReceived, TypeInv, DataOK
  <2>5. DataOK'
    BY <1>2, <2>3, <2>4 DEF LockReceived, TypeInv, DataOK, reporterVars, mainVars, histories
  <2> QED BY <2>1, <2>2, <2>5 DEF TypeInv, ControlOK
<1>3. CASE CountReceived(u)
  <2>1. PcOK' /\ MainOK' /\ ChoiceOK' /\ ReporterOK'
    BY <1>1, <1>3, ChildGoes DEF CountReceived, At, UpdaterLabels, reporterVars, mainVars
  <2>2. PendingOK'
    BY <1>3 DEF CountReceived, TypeInv, ControlOK, PendingOK
  <2>3. mutex' \in [Signals -> Generators \cup Receivers \cup {NoProcess}]
    BY <1>3 DEF CountReceived, Unlock, TypeInv, DataOK
  <2>4. tmp[u] \in Nat
    BY <1>1 DEF TypeInv, DataOK
  <2>5. tmp' \in [Processes -> Nat] /\ received' \in [Signals -> Nat]
    BY <1>1, <1>3, <2>4 DEF CountReceived, TypeInv, DataOK
  <2>6. DataOK'
    BY <1>3, <2>3, <2>5 DEF CountReceived, TypeInv, DataOK, reporterVars, mainVars, histories
  <2> QED BY <2>1, <2>2, <2>6 DEF TypeInv, ControlOK
<1> QED BY <1>2, <1>3 DEF SignalUpdater

\* What is written to the log file is a line of the report.
LEMMA WrittenType ==
  ASSUME TypeInv, NEW s \in Signals
  PROVE  Written(Line(s)) \in Seq([signal : Signals, sent : Nat, received : Nat])
<1>1. Line(s) \in [signal : Signals, sent : Nat, received : Nat]
  BY DEF Line, TypeInv, DataOK
<1>2. log \in Seq([signal : Signals, sent : Nat, received : Nat])
  BY DEF TypeInv, DataOK
<1>3. Append(log, Line(s)) \in Seq([signal : Signals, sent : Nat, received : Nat])
  BY <1>1, <1>2
<1> QED BY <1>2, <1>3 DEF Written

LEMMA ReporterTypeInv == TypeInv /\ ReporterProcess => TypeInv'
<1> SUFFICES ASSUME TypeInv, ReporterProcess PROVE TypeInv'
  OBVIOUS
<1>1. /\ Reporter \in Children /\ Reporter \in Processes /\ Reporter \notin Generators
      /\ Reporter \in Receivers /\ ReporterLabels \subseteq PcOf(Reporter)
      /\ SIGUSR1 \in Signals /\ SIGUSR2 \in Signals
  BY ProcessSets, PcOfKinds DEF Signals
\* The reporter goes to l and has counted what makes it report there.
<1>2. ASSUME NEW l \in ReporterLabels, Goto(Reporter, l), pc[Reporter] # "unborn",
             concurrentProcesses' \in 0 .. ReportEvery,
             concurrentProcesses' = ReportEvery <=> l \in Locking,
             UNCHANGED <<pending, choice, mainVars>>
      PROVE  ControlOK'
  <2>1. PcOK' /\ MainOK' /\ ChoiceOK' /\ pc'[Reporter] = l
    BY <1>1, <1>2, ChildGoes DEF mainVars
  <2>2. ReporterOK' /\ PendingOK'
    BY <1>2, <2>1 DEF TypeInv, ControlOK, ReporterOK, PendingOK
  <2> QED BY <2>1, <2>2 DEF ControlOK
<1>3. ReporterOK /\ ReportEvery \in Nat /\ ReportEvery # 0
  BY CountsAssumption DEF TypeInv, ControlOK
<1>4. CASE OpenLog
  <2>1. pc[Reporter] = "open" /\ concurrentProcesses' = concurrentProcesses + 1
    BY <1>4 DEF OpenLog, At
  <2>2. concurrentProcesses' \in 0 .. ReportEvery
    BY <1>3, <2>1 DEF ReporterOK, Locking
  <2>3. ControlOK'
    <3>1. CASE concurrentProcesses' # ReportEvery
      BY <1>2, <1>4, <2>1, <2>2, <3>1 DEF OpenLog, ReporterLabels, Locking
    <3>2. CASE concurrentProcesses' = ReportEvery
      BY <1>2, <1>4, <2>1, <2>2, <3>2 DEF OpenLog, ReporterLabels, Locking
    <3> QED BY <3>1, <3>2
  <2>4. DataOK'
    BY <1>4 DEF OpenLog, TypeInv, DataOK, counters, mainVars, histories
  <2> QED BY <2>3, <2>4 DEF TypeInv
<1>5. CASE LockOne
  <2>1. ControlOK'
    BY <1>2, <1>3, <1>5
    DEF LockOne, At, ReporterOK, ReporterLabels, Locking, reporterVars
  <2>2. mutex' \in [Signals -> Generators \cup Receivers \cup {NoProcess}]
    BY <1>1, <1>5 DEF LockOne, Lock, TypeInv, DataOK
  <2>3. DataOK'
    BY <1>5, <2>2 DEF LockOne, TypeInv, DataOK, reporterVars, mainVars, histories
  <2> QED BY <2>1, <2>3 DEF TypeInv
<1>6. CASE LockTwo
  <2>1. ControlOK'
    BY <1>2, <1>3, <1>6 DEF LockTwo, At, ReporterLabels, Locking
  <2>2. mutex' \in [Signals -> Generators \cup Receivers \cup {NoProcess}]
    BY <1>1, <1>6 DEF LockTwo, Lock, TypeInv, DataOK
  <2>3. DataOK'
    BY <1>6, <2>2 DEF LockTwo, TypeInv, DataOK, mainVars, histories
  <2> QED BY <2>1, <2>3 DEF TypeInv
<1>7. CASE FirstLine
  <2>1. ControlOK'
    BY <1>2, <1>3, <1>7 DEF FirstLine, At, ReporterOK, ReporterLabels, Locking
  <2>2. log' \in Seq([signal : Signals, sent : Nat, received : Nat])
    BY <1>1, <1>7, WrittenType DEF FirstLine
  <2>3. DataOK'
    BY <1>7, <2>2 DEF FirstLine, TypeInv, DataOK, counters, mainVars, histories
  <2> QED BY <2>1, <2>3 DEF TypeInv
<1>8. CASE SecondLine
  <2>1. ControlOK'
    BY <1>2, <1>3, <1>8 DEF SecondLine, At, ReporterOK, ReporterLabels, Locking
  <2>2. log' \in Seq([signal : Signals, sent : Nat, received : Nat])
    BY <1>1, <1>8, WrittenType DEF SecondLine
  <2>3. mutex' \in [Signals -> Generators \cup Receivers \cup {NoProcess}]
    BY <1>8 DEF SecondLine
  <2>4. DataOK'
    BY <1>8, <2>2, <2>3 DEF SecondLine, TypeInv, DataOK, mainVars, histories
  <2> QED BY <2>1, <2>4 DEF TypeInv
<1> QED BY <1>4, <1>5, <1>6, <1>7, <1>8 DEF ReporterProcess

LEMMA NextTypeInv == TypeInv /\ [Next]_vars => TypeInv'
<1>1. TypeInv /\ UNCHANGED vars => TypeInv'
  BY DEF vars, counters, reporterVars, mainVars, histories, TypeInv, ControlOK, PcOK, ChoiceOK,
         PendingOK, MainOK, ReporterOK, DataOK
<1>2. ASSUME TypeInv, NEW p \in Children, DieOfInterrupt(p)
      PROVE  TypeInv'
  BY <1>2, DieTypeInv DEF DieOfInterrupt
<1> QED
  BY <1>1, <1>2, MainTypeInv, ReceiverTypeInv, GeneratorTypeInv, UpdaterTypeInv, ReporterTypeInv
  DEF Next

\* Every variable keeps its type, each process runs its own code, and exactly a
\* full count makes the reporter report.
THEOREM ProcessTypes == Spec => []TypeOK
<1>1. Spec => []TypeInv
  BY InitTypeInv, NextTypeInv, PTL DEF Spec
<1> QED BY <1>1, TypeInvTypes, PTL

-----------------------------------------------------------------------------
(***************************************************************************)
(* The mutexes: who is between lock and unlock, dead or alive, holds them, *)
(* and the counter it has loaded or written has not changed since.         *)
(***************************************************************************)
Reporting == {"firstLine", "secondLine"}
Critical == {"countSent", "countReceived", "lockTwo"} \cup Reporting

HeldOK ==
  \A s \in Signals :
    /\ \A g \in Generators : mutex[s] = g <=> pc[g] = "countSent" /\ choice[g] = s
    /\ \A u \in Updaters : mutex[s] = u <=> pc[u] = "countReceived" /\ SignalOf(u) = s
    /\ mutex[s] = Reporter <=> pc[Reporter] \in Reporting \/ (s = SIGUSR1 /\ pc[Reporter] = "lockTwo")

LoadedOK ==
  /\ \A g \in Generators : pc[g] = "countSent" => tmp[g] = sent[choice[g]]
  /\ \A u \in Updaters : pc[u] = "countReceived" => tmp[u] = received[SignalOf(u)]

WrittenOK ==
  pc[Reporter] = "secondLine" /\ log_open => log # <<>> /\ log[Len(log)] = Line(SIGUSR1)

LockInv == HeldOK /\ LoadedOK /\ WrittenOK

LEMMA InitLockInv == Init => LockInv
<1> SUFFICES ASSUME Init PROVE LockInv
  OBVIOUS
<1>1. \A p \in Children : pc[p] = "unborn"
  BY ProcessSets DEF Init
<1>2. \A s \in Signals : mutex[s] \notin Processes
  BY ProcessSets DEF Init
<1>3. HeldOK
  BY <1>1, <1>2, ProcessSets DEF HeldOK, Reporting
<1>4. LoadedOK /\ WrittenOK
  BY <1>1, ProcessSets DEF LoadedOK, WrittenOK
<1> QED BY <1>3, <1>4 DEF LockInv

\* A step that enters or leaves no critical section.
LEMMA OutsideLockInv ==
  ASSUME TypeInv, LockInv, UNCHANGED <<mutex, sent, received>>,
         \A p \in Receivers \cup Generators :
           /\ pc'[p] = pc[p] \/ (pc[p] \notin Critical /\ pc'[p] \notin Critical)
           /\ tmp'[p] = tmp[p],
         \A g \in Generators : choice'[g] = choice[g] \/ pc[g] # "countSent",
         UNCHANGED <<log_open, log>> \/ pc[Reporter] # "secondLine"
  PROVE  LockInv'
<1>1. Reporter \in Receivers /\ Updaters \subseteq Receivers
  BY ProcessSets
<1>2. /\ \A g \in Generators : pc'[g] = "countSent" <=> pc[g] = "countSent"
      /\ \A u \in Updaters : pc'[u] = "countReceived" <=> pc[u] = "countReceived"
      /\ \A l \in Critical : pc'[Reporter] = l <=> pc[Reporter] = l
  BY <1>1 DEF Critical
<1>3. /\ pc'[Reporter] \in Reporting <=> pc[Reporter] \in Reporting
      /\ pc'[Reporter] = "lockTwo" <=> pc[Reporter] = "lockTwo"
      /\ pc'[Reporter] = "secondLine" <=> pc[Reporter] = "secondLine"
  BY <1>2 DEF Critical, Reporting
<1>4. HeldOK'
  BY <1>2, <1>3 DEF LockInv, HeldOK
<1>5. LoadedOK'
  BY <1>1, <1>2 DEF LockInv, LoadedOK
<1>6. WrittenOK'
  BY <1>3 DEF LockInv, WrittenOK, Line
<1> QED BY <1>4, <1>5, <1>6 DEF LockInv

\* Steps of main, of signals and of receivers that are not counting.
LEMMA ControlLockInv ==
  ASSUME TypeInv, LockInv,
         \/ MainProcess
         \/ \E p \in Children : DieOfInterrupt(p)
         \/ \E r \in Receivers : Receiver(r)
  PROVE  LockInv'
<1>1. Main \notin Children /\ Receivers \cup Generators \subseteq Children /\ Children \subseteq Processes
  BY ProcessSets
<1>2. ASSUME NEW labels, ForkTo(labels), \A p \in Children : labels[p] \notin Critical
      PROVE  LockInv'
  <2>1. next \in Children /\ pc[next] = "unborn"
    BY <1>2, ProcessesAssumption DEF ForkTo, At, TypeInv, ControlOK, MainOK, Children
  <2>2. \A p \in Children : pc'[p] = pc[p] \/ (pc[p] \notin Critical /\ pc'[p] \notin Critical)
    BY <1>1, <1>2, <2>1 DEF ForkTo, TypeInv, ControlOK, PcOK, Critical, Reporting
  <2>3. UNCHANGED <<mutex, sent, received, choice, tmp, log_open, log>>
    BY <1>2 DEF ForkTo, counters, reporterVars
  <2> QED BY <1>1, <2>2, <2>3, OutsideLockInv
<1>3. ASSUME NEW p \in Processes \ Generators, NEW l, Goto(p, l),
             pc[p] \notin Critical \/ p = Main, l \notin Critical \/ p = Main,
             \A q \in Children : tmp'[q] = tmp[q],
             UNCHANGED <<mutex, sent, received, choice, log_open, log>>
      PROVE  LockInv'
  <2>1. \A q \in Children : pc'[q] = pc[q] \/ (pc[q] \notin Critical /\ pc'[q] \notin Critical)
    BY <1>1, <1>3 DEF Goto, TypeInv, ControlOK, PcOK
  <2> QED BY <1>1, <1>3, <2>1, OutsideLockInv
<1>4. ASSUME pc' = pc, UNCHANGED <<mutex, sent, received, choice, tmp, log_open, log>>
      PROVE  LockInv'
  BY <1>4, OutsideLockInv
<1>5. CASE MainProcess
  <2>1. Main \in Processes \ Generators
    BY ProcessSets
  <2>2. CASE Fork
    <3>1. \A p \in Children : [q \in Children |-> StartLabel(q)][p] \notin Critical
      BY DEF StartLabel, Critical, Reporting
    <3> QED BY <1>2, <2>2, <3>1 DEF Fork
  <2>3. CASE ForkFails
    <3>1. \A p \in Children : [q \in Children |-> "unborn"][p] \notin Critical
      BY DEF Critical, Reporting
    <3> QED BY <1>2, <2>3, <3>1 DEF ForkFails
  <2>5. CASE PollFirst
    <3>1. \A q \in Children : tmp'[q] = tmp[q]
      BY <1>1, <2>5 DEF PollFirst, TypeInv, DataOK
    <3> QED BY <1>3, <2>1, <2>5, <3>1 DEF PollFirst, counters, reporterVars
  <2>6. CASE PollSecond
    <3>1. \A q \in Children : tmp'[q] = tmp[q]
      BY <1>1, <2>6 DEF PollSecond, TypeInv, DataOK
    <3> QED BY <1>3, <2>1, <2>6, <3>1 DEF PollSecond, counters, reporterVars
  <2>7. CASE KillChild
    BY <1>3, <2>1, <2>7 DEF KillChild, counters, reporterVars
  <2>8. CASE PrintTotals
    BY <1>3, <2>1, <2>8 DEF PrintTotals, counters, reporterVars
  <2> QED BY <1>5, <2>2, <2>3, <2>5, <2>6, <2>7, <2>8 DEF MainProcess
<1>6. ASSUME NEW p \in Children, Die(p)
      PROVE  LockInv'
  BY <1>4, <1>6 DEF Die, counters, reporterVars
<1>7. ASSUME NEW r \in Receivers, Receiver(r)
      PROVE  LockInv'
  <2>1. r \in Processes \ Generators
    BY ProcessSets
  <2>2. CASE Unblock(r)
    BY <1>3, <2>1, <2>2 DEF Unblock, At, Critical, Reporting, counters, reporterVars
  <2>3. CASE Install(r)
    BY <1>3, <2>1, <2>3 DEF Install, At, Critical, Reporting, counters, reporterVars
  <2>7. CASE EnterPause(r)
    BY <1>3, <2>1, <2>7 DEF EnterPause, At, Critical, Reporting, counters, reporterVars
  <2>4. CASE PauseReturns(r)
    <3>1. PICK l \in {"lockReceived", "open"} : Goto(r, l)
      BY <2>4 DEF PauseReturns
    <3> QED BY <1>3, <2>1, <2>4, <3>1 DEF PauseReturns, At, Critical, Reporting, counters, reporterVars
  <2>5. CASE HandledOutsidePause(r)
    BY <1>4, <2>5 DEF HandledOutsidePause, counters, reporterVars
  <2>6. CASE DieOfDefault(r)
    BY <1>6, <2>6, ProcessSets DEF DieOfDefault
  <2> QED BY <1>7, <2>2, <2>3, <2>4, <2>5, <2>6, <2>7 DEF Receiver
<1> QED BY <1>5, <1>6, <1>7 DEF DieOfInterrupt

LEMMA GeneratorLockInv ==
  ASSUME TypeInv, LockInv, NEW g \in Generators, Choose(g) \/ SendsRound(g)
  PROVE  LockInv'
<1>1. /\ g \in Processes /\ g \notin Updaters /\ g # Reporter /\ GeneratorLabels \subseteq PcOf(g)
      /\ g # NoProcess
  BY ProcessSets, PcOfKinds
<1>2. pc[g] \notin Outside => choice[g] \in Signals
  BY DEF TypeInv, ControlOK, ChoiceOK
<1>3. ASSUME NEW l \in GeneratorLabels, Goto(g, l)
      PROVE  pc'[g] = l /\ \A p \in Processes : p # g => pc'[p] = pc[p]
  BY <1>1, <1>3, GotoOthers
<1>4. ASSUME pc[g] # "countSent", NEW l \in GeneratorLabels, Goto(g, l), l # "countSent",
             \A h \in Generators : h # g => choice'[h] = choice[h],
             UNCHANGED <<mutex, sent, received, tmp, log_open, log>>
      PROVE  LockInv'
  <2>1. pc[g] \in PcOf(g)
    BY <1>1 DEF TypeInv, ControlOK, PcOK
  <2>2. pc[g] \notin Critical /\ l \notin Critical
    BY <1>4, <2>1, PcOfKinds DEF Critical, Reporting, GeneratorLabels
  <2>3. \A p \in Receivers \cup Generators :
          pc'[p] = pc[p] \/ (pc[p] \notin Critical /\ pc'[p] \notin Critical)
    BY <1>3, <1>4, <2>2, ProcessSets
  <2> QED BY <1>4, <2>3, OutsideLockInv
<1>5. CASE Choose(g)
  BY <1>4, <1>5 DEF Choose, At, GeneratorLabels, counters, reporterVars, TypeInv, DataOK
<1>6. CASE Kill(g)
  BY <1>4, <1>6 DEF Kill, At, GeneratorLabels, counters, reporterVars, TypeInv, DataOK
<1>7. CASE LockSent(g)
  <2> DEFINE c == choice[g]
  <2>1. c \in Signals /\ mutex[c] = NoProcess /\ pc[g] = "lockSent" /\ pc'[g] = "countSent"
        /\ \A p \in Processes : p # g => pc'[p] = pc[p]
    BY <1>2, <1>3, <1>7 DEF LockSent, At, Lock, Outside, GeneratorLabels
  <2>2. mutex'[c] = g /\ \A s \in Signals : s # c => mutex'[s] = mutex[s]
    BY <1>7, <2>1 DEF LockSent, Lock, TypeInv, DataOK
  <2>3. UNCHANGED <<sent, received, choice, log_open, log>>
    BY <1>7 DEF LockSent, reporterVars
  <2>4. HeldOK'
    <3>1. \A s \in Signals, h \in Generators : mutex'[s] = h <=> pc'[h] = "countSent" /\ choice'[h] = s
      BY <1>1, <2>1, <2>2, <2>3, ProcessSets DEF LockInv, HeldOK
    <3>2. \A s \in Signals, u \in Updaters : mutex'[s] = u <=> pc'[u] = "countReceived" /\ SignalOf(u) = s
      BY <1>1, <2>1, <2>2, ProcessSets DEF LockInv, HeldOK
    <3>3. pc'[Reporter] = pc[Reporter] /\ \A s \in Signals : mutex'[s] = Reporter <=> mutex[s] = Reporter
      BY <1>1, <2>1, <2>2, ProcessSets
    <3> QED BY <3>1, <3>2, <3>3 DEF LockInv, HeldOK
  <2>5. tmp'[g] = sent[c] /\ \A p \in Processes : p # g => tmp'[p] = tmp[p]
    BY <1>1, <1>7 DEF LockSent, TypeInv, DataOK
  <2>6. LoadedOK'
    BY <1>1, <2>1, <2>3, <2>5, ProcessSets DEF LockInv, LoadedOK
  <2>7. WrittenOK'
    BY <1>1, <2>1, <2>3, ProcessSets DEF LockInv, WrittenOK, Line
  <2> QED BY <2>4, <2>6, <2>7 DEF LockInv
<1>8. CASE CountSent(g)
  <2> DEFINE c == choice[g]
  <2>1. c \in Signals /\ pc[g] = "countSent" /\ pc'[g] = "kill"
        /\ \A p \in Processes : p # g => pc'[p] = pc[p]
    BY <1>2, <1>3, <1>8 DEF CountSent, At, Outside, GeneratorLabels
  <2>2. /\ mutex[c] = g /\ mutex'[c] = NoProcess
        /\ \A s \in Signals : s # c => mutex'[s] = mutex[s] /\ sent'[s] = sent[s] /\ mutex[s] # g
    BY <1>8, <2>1 DEF CountSent, Unlock, TypeInv, DataOK, LockInv, HeldOK
  <2>3. UNCHANGED <<received, choice, log_open, log>>
    BY <1>8 DEF CountSent, reporterVars
  <2>4. HeldOK'
    <3>1. \A s \in Signals, h \in Generators : mutex'[s] = h <=> pc'[h] = "countSent" /\ choice'[h] = s
      BY <1>1, <2>1, <2>2, <2>3, ProcessSets DEF LockInv, HeldOK
    <3>2. \A s \in Signals, u \in Updaters : mutex'[s] = u <=> pc'[u] = "countReceived" /\ SignalOf(u) = s
      BY <1>1, <2>1, <2>2, ProcessSets DEF LockInv, HeldOK
    <3>3. pc'[Reporter] = pc[Reporter] /\ \A s \in Signals : mutex'[s] = Reporter <=> mutex[s] = Reporter
      BY <1>1, <2>1, <2>2, ProcessSets
    <3> QED BY <3>1, <3>2, <3>3 DEF LockInv, HeldOK
  <2>5. \A p \in Processes : p # g => tmp'[p] = tmp[p]
    BY <1>1, <1>8 DEF CountSent, TypeInv, DataOK
  <2>6. LoadedOK'
    <3>1. ASSUME NEW h \in Generators, pc'[h] = "countSent"
          PROVE  tmp'[h] = sent'[choice'[h]]
      <4>1. h # g /\ pc[h] = "countSent" /\ h \in Processes
        BY <2>1, <3>1, ProcessSets
      <4>2. choice[h] \in Signals /\ choice[h] # c
        BY <2>1, <2>2, <4>1 DEF LockInv, HeldOK, TypeInv, ControlOK, ChoiceOK, Outside
      <4> QED BY <2>2, <2>3, <2>5, <4>1, <4>2 DEF LockInv, LoadedOK
    <3>2. \A u \in Updaters : pc'[u] = pc[u] /\ tmp'[u] = tmp[u]
      BY <1>1, <2>1, <2>5, ProcessSets
    <3> QED BY <2>3, <3>1, <3>2 DEF LockInv, LoadedOK
  <2>7. WrittenOK'
    <3>1. pc'[Reporter] = pc[Reporter] /\ pc[Reporter] # "secondLine"
      BY <1>1, <2>1, <2>2, ProcessSets DEF LockInv, HeldOK, Reporting
    <3> QED BY <3>1 DEF WrittenOK
  <2> QED BY <2>4, <2>6, <2>7 DEF LockInv
<1> QED BY <1>5, <1>6, <1>7, <1>8 DEF SendsRound

LEMMA UpdaterLockInv ==
  ASSUME TypeInv, LockInv, NEW u \in Updaters, SignalUpdater(u)
  PROVE  LockInv'
<1> DEFINE c == SignalOf(u)
<1>1. /\ u \in Processes /\ u \notin Generators /\ u # Reporter /\ UpdaterLabels \subseteq PcOf(u)
      /\ c \in Signals /\ u # NoProcess
  BY ProcessSets, PcOfKinds, UpdaterSets
<1>2. ASSUME NEW l \in UpdaterLabels, Goto(u, l)
      PROVE  pc'[u] = l /\ \A p \in Processes : p # u => pc'[p] = pc[p]
  BY <1>1, <1>2, GotoOthers
<1>3. CASE LockReceived(u)
  <2>1. mutex[c] = NoProcess /\ pc[u] = "lockReceived" /\ pc'[u] = "countReceived"
        /\ \A p \in Processes : p # u => pc'[p] = pc[p]
    BY <1>2, <1>3 DEF LockReceived, At, Lock, UpdaterLabels
  <2>2. mutex'[c] = u /\ \A s \in Signals : s # c => mutex'[s] = mutex[s]
    BY <1>1, <1>3 DEF LockReceived, Lock, TypeInv, DataOK
  <2>3. UNCHANGED <<sent, received, choice, log_open, log>>
    BY <1>3 DEF LockReceived, reporterVars
  <2>4. HeldOK'
    <3>1. \A s \in Signals, g \in Generators : mutex'[s] = g <=> pc'[g] = "countSent" /\ choice'[g] = s
      BY <1>1, <2>1, <2>2, <2>3, ProcessSets DEF LockInv, HeldOK
    <3>2. \A s \in Signals, v \in Updaters : mutex'[s] = v <=> pc'[v] = "countReceived" /\ SignalOf(v) = s
      BY <1>1, <2>1, <2>2, ProcessSets DEF LockInv, HeldOK
    <3>3. pc'[Reporter] = pc[Reporter] /\ \A s \in Signals : mutex'[s] = Reporter <=> mutex[s] = Reporter
      BY <1>1, <2>1, <2>2, ProcessSets
    <3> QED BY <3>1, <3>2, <3>3 DEF LockInv, HeldOK
  <2>5. tmp'[u] = received[c] /\ \A p \in Processes : p # u => tmp'[p] = tmp[p]
    BY <1>1, <1>3 DEF LockReceived, TypeInv, DataOK
  <2>6. LoadedOK'
    BY <1>1, <2>1, <2>3, <2>5, ProcessSets DEF LockInv, LoadedOK
  <2>7. WrittenOK'
    BY <1>1, <2>1, <2>3, ProcessSets DEF LockInv, WrittenOK, Line
  <2> QED BY <2>4, <2>6, <2>7 DEF LockInv
<1>4. CASE CountReceived(u)
  <2>1. pc[u] = "countReceived" /\ pc'[u] = "loop" /\ \A p \in Processes : p # u => pc'[p] = pc[p]
    BY <1>2, <1>4 DEF CountReceived, At, UpdaterLabels
  <2>2. /\ mutex[c] = u /\ mutex'[c] = NoProcess
        /\ \A s \in Signals : s # c => mutex'[s] = mutex[s] /\ received'[s] = received[s] /\ mutex[s] # u
    BY <1>1, <1>4, <2>1 DEF CountReceived, Unlock, TypeInv, DataOK, LockInv, HeldOK
  <2>3. UNCHANGED <<sent, choice, log_open, log>>
    BY <1>4 DEF CountReceived, reporterVars
  <2>4. HeldOK'
    <3>1. \A s \in Signals, g \in Generators : mutex'[s] = g <=> pc'[g] = "countSent" /\ choice'[g] = s
      BY <1>1, <2>1, <2>2, <2>3, ProcessSets DEF LockInv, HeldOK
    <3>2. \A s \in Signals, v \in Updaters : mutex'[s] = v <=> pc'[v] = "countReceived" /\ SignalOf(v) = s
      BY <1>1, <2>1, <2>2, ProcessSets DEF LockInv, HeldOK
    <3>3. pc'[Reporter] = pc[Reporter] /\ \A s \in Signals : mutex'[s] = Reporter <=> mutex[s] = Reporter
      BY <1>1, <2>1, <2>2, ProcessSets
    <3> QED BY <3>1, <3>2, <3>3 DEF LockInv, HeldOK
  <2>5. \A p \in Processes : p # u => tmp'[p] = tmp[p]
    BY <1>1, <1>4 DEF CountReceived, TypeInv, DataOK
  <2>6. LoadedOK'
    <3>1. ASSUME NEW v \in Updaters, pc'[v] = "countReceived"
          PROVE  tmp'[v] = received'[SignalOf(v)]
      <4>1. v # u /\ pc[v] = "countReceived" /\ v \in Processes
        BY <2>1, <3>1, ProcessSets
      <4>2. SignalOf(v) \in Signals /\ SignalOf(v) # c
        BY <1>1, <2>2, <4>1, UpdaterSets DEF LockInv, HeldOK
      <4> QED BY <2>2, <2>5, <4>1, <4>2 DEF LockInv, LoadedOK
    <3>2. \A g \in Generators : pc'[g] = pc[g] /\ tmp'[g] = tmp[g]
      BY <1>1, <2>1, <2>5, ProcessSets
    <3> QED BY <2>3, <3>1, <3>2 DEF LockInv, LoadedOK
  <2>7. WrittenOK'
    <3>1. pc'[Reporter] = pc[Reporter] /\ pc[Reporter] # "secondLine"
      BY <1>1, <2>1, <2>2, ProcessSets DEF LockInv, HeldOK, Reporting
    <3> QED BY <3>1 DEF WrittenOK
  <2> QED BY <2>4, <2>6, <2>7 DEF LockInv
<1> QED BY <1>3, <1>4 DEF SignalUpdater

LEMMA ReporterLockInv == TypeInv /\ LockInv /\ ReporterProcess => LockInv'
<1> SUFFICES ASSUME TypeInv, LockInv, ReporterProcess PROVE LockInv'
  OBVIOUS
<1>1. /\ Reporter \in Processes /\ Reporter \notin Generators /\ Reporter \notin Updaters
      /\ Reporter # NoProcess /\ ReporterLabels \subseteq PcOf(Reporter)
      /\ SIGUSR1 \in Signals /\ SIGUSR2 \in Signals /\ SIGUSR1 # SIGUSR2
  BY ProcessSets, PcOfKinds DEF Signals, SIGUSR1, SIGUSR2
<1>2. ASSUME NEW l \in ReporterLabels, Goto(Reporter, l)
      PROVE  /\ pc'[Reporter] = l /\ \A p \in Processes : p # Reporter => pc'[p] = pc[p]
             /\ \A p \in Updaters \cup Generators : pc'[p] = pc[p]
  BY <1>1, <1>2, GotoOthers, ProcessSets
\* The reporter counts nothing.
<1>3. UNCHANGED <<sent, received, tmp, choice>> /\ (\E l \in ReporterLabels : Goto(Reporter, l))
        => LoadedOK'
  BY <1>2 DEF LockInv, LoadedOK
<1>4. CASE OpenLog
  <2>1. PICK l \in {"loop", "lockOne"} : Goto(Reporter, l)
    BY <1>4 DEF OpenLog
  <2>2. pc[Reporter] = "open" /\ pc'[Reporter] \in {"loop", "lockOne"}
        /\ \A p \in Updaters \cup Generators : pc'[p] = pc[p]
    BY <1>2, <1>4, <2>1 DEF OpenLog, At, ReporterLabels
  <2>3. UNCHANGED <<mutex, sent, received, tmp, choice>>
    BY <1>4 DEF OpenLog, counters
  <2>4. \A p \in Receivers \cup Generators :
          pc'[p] = pc[p] \/ (pc[p] \notin Critical /\ pc'[p] \notin Critical)
    BY <2>2, ProcessSets DEF Critical, Reporting
  <2> QED BY <2>2, <2>3, <2>4, OutsideLockInv
<1>5. CASE LockOne
  <2>1. /\ pc[Reporter] = "lockOne" /\ pc'[Reporter] = "lockTwo" /\ mutex[SIGUSR1] = NoProcess
        /\ \A p \in Updaters \cup Generators : pc'[p] = pc[p]
    BY <1>2, <1>5 DEF LockOne, At, Lock, ReporterLabels
  <2>2. mutex'[SIGUSR1] = Reporter /\ \A s \in Signals : s # SIGUSR1 => mutex'[s] = mutex[s]
    BY <1>1, <1>5 DEF LockOne, Lock, TypeInv, DataOK
  <2>3. choice' = choice
    BY <1>5 DEF LockOne
  <2>4. HeldOK'
    <3>1. \A s \in Signals, g \in Generators : mutex'[s] = g <=> mutex[s] = g
      BY <1>1, <2>1, <2>2, ProcessSets
    <3>2. \A s \in Signals, u \in Updaters : mutex'[s] = u <=> mutex[s] = u
      BY <1>1, <2>1, <2>2, ProcessSets
    <3>3. \A s \in Signals :
            mutex'[s] = Reporter <=> pc'[Reporter] \in Reporting \/ (s = SIGUSR1 /\ pc'[Reporter] = "lockTwo")
      BY <1>1, <2>1, <2>2 DEF LockInv, HeldOK, Reporting
    <3> QED BY <2>1, <2>3, <3>1, <3>2, <3>3 DEF LockInv, HeldOK
  <2>5. LoadedOK'
    BY <1>3, <1>5 DEF LockOne, ReporterLabels
  <2> QED BY <2>1, <2>4, <2>5 DEF LockInv, WrittenOK
<1>6. CASE LockTwo
  <2>1. /\ pc[Reporter] = "lockTwo" /\ pc'[Reporter] = "firstLine" /\ mutex[SIGUSR2] = NoProcess
        /\ \A p \in Updaters \cup Generators : pc'[p] = pc[p]
    BY <1>2, <1>6 DEF LockTwo, At, Lock, ReporterLabels
  <2>2. mutex'[SIGUSR2] = Reporter /\ \A s \in Signals : s # SIGUSR2 => mutex'[s] = mutex[s]
    BY <1>1, <1>6 DEF LockTwo, Lock, TypeInv, DataOK
  <2>3. choice' = choice
    BY <1>6 DEF LockTwo
  <2>4. HeldOK'
    <3>1. \A s \in Signals, g \in Generators : mutex'[s] = g <=> mutex[s] = g
      BY <1>1, <2>1, <2>2, ProcessSets
    <3>2. \A s \in Signals, u \in Updaters : mutex'[s] = u <=> mutex[s] = u
      BY <1>1, <2>1, <2>2, ProcessSets
    <3>3. \A s \in Signals : s = SIGUSR1 \/ s = SIGUSR2
      BY DEF Signals
    <3>4. \A s \in Signals : mutex'[s] = Reporter
      BY <1>1, <2>1, <2>2, <3>3 DEF LockInv, HeldOK
    <3> QED BY <2>1, <2>3, <3>1, <3>2, <3>4 DEF LockInv, HeldOK, Reporting
  <2>5. LoadedOK'
    BY <1>3, <1>6 DEF LockTwo, ReporterLabels
  <2> QED BY <2>1, <2>4, <2>5 DEF LockInv, WrittenOK
<1>7. CASE FirstLine
  <2>1. /\ pc[Reporter] = "firstLine" /\ pc'[Reporter] = "secondLine"
        /\ \A p \in Updaters \cup Generators : pc'[p] = pc[p]
    BY <1>2, <1>7 DEF FirstLine, At, ReporterLabels
  <2>2. UNCHANGED <<mutex, sent, received, choice, tmp, log_open>>
    BY <1>7 DEF FirstLine, counters
  <2>3. HeldOK'
    BY <2>1, <2>2 DEF LockInv, HeldOK, Reporting
  <2>4. LoadedOK'
    BY <1>3, <1>7, <2>2 DEF FirstLine, ReporterLabels
  <2>5. WrittenOK'
    <3>1. SUFFICES ASSUME log_open, log' = Append(log, Line(SIGUSR1))
                   PROVE  log' # <<>> /\ log'[Len(log')] = Line(SIGUSR1)'
      BY <1>7, <2>2 DEF WrittenOK, FirstLine, Written
    <3>2. log \in Seq([signal : Signals, sent : Nat, received : Nat])
      BY DEF TypeInv, DataOK
    <3>3. Len(log') = Len(log) + 1 /\ log'[Len(log) + 1] = Line(SIGUSR1) /\ Len(log) \in Nat
      BY <3>1, <3>2
    <3>4. Line(SIGUSR1)' = Line(SIGUSR1)
      BY <2>2 DEF Line
    <3>5. Len(log') # 0
      BY <3>3
    <3> QED BY <3>3, <3>4, <3>5
  <2> QED BY <2>3, <2>4, <2>5 DEF LockInv
<1>8. CASE SecondLine
  <2>1. /\ pc[Reporter] = "secondLine" /\ pc'[Reporter] = "loop"
        /\ \A p \in Updaters \cup Generators : pc'[p] = pc[p]
    BY <1>2, <1>8 DEF SecondLine, At, ReporterLabels
  <2>2. \A s \in Signals : mutex[s] = Reporter /\ mutex'[s] = NoProcess
    BY <1>8, <2>1 DEF SecondLine, LockInv, HeldOK, Reporting
  <2>3. choice' = choice
    BY <1>8 DEF SecondLine
  <2>4. HeldOK'
    <3>1. \A s \in Signals, g \in Generators : mutex'[s] = g <=> mutex[s] = g
      BY <1>1, <2>2, ProcessSets
    <3>2. \A s \in Signals, u \in Updaters : mutex'[s] = u <=> mutex[s] = u
      BY <1>1, <2>2, ProcessSets
    <3> QED BY <1>1, <2>1, <2>2, <2>3, <3>1, <3>2 DEF LockInv, HeldOK, Reporting
  <2>5. LoadedOK'
    BY <1>3, <1>8 DEF SecondLine, ReporterLabels
  <2> QED BY <2>1, <2>4, <2>5 DEF LockInv, WrittenOK
<1> QED BY <1>4, <1>5, <1>6, <1>7, <1>8 DEF ReporterProcess

LEMMA NextLockInv == TypeInv /\ LockInv /\ [Next]_vars => LockInv'
<1>1. LockInv /\ UNCHANGED vars => LockInv'
  BY DEF vars, counters, reporterVars, mainVars, LockInv, HeldOK, LoadedOK, WrittenOK, Line
<1> QED
  BY <1>1, ControlLockInv, GeneratorLockInv, UpdaterLockInv, ReporterLockInv DEF Next

-----------------------------------------------------------------------------
(***************************************************************************)
(* The counts.  Every pause that a signal ended has one behind it that was *)
(* sent and counted: this bounds what a report shows and is more than the  *)
(* properties say.                                                         *)
(***************************************************************************)
Member(x, S) == IF x \in S THEN 1 ELSE 0

\* Two sets that differ in one element at most.
LEMMA CardinalityMove ==
  ASSUME NEW S, NEW T, NEW x, IsFiniteSet(S), S \ {x} = T \ {x}
  PROVE  /\ IsFiniteSet(T)
         /\ Cardinality(S) \in Nat
         /\ Cardinality(T) \in Nat
         /\ Cardinality(T) = Cardinality(S) + Member(x, T) - Member(x, S)
<1> DEFINE R == S \ {x}
<1>1. IsFiniteSet(R) /\ Cardinality(R) \in Nat /\ x \notin R
  BY FS_RemoveElement, FS_CardinalityType
<1>2. ASSUME NEW U, U \ {x} = R
      PROVE  IsFiniteSet(U) /\ Cardinality(U) = Cardinality(R) + Member(x, U)
  <2>1. CASE x \in U
    <3>1. U = R \cup {x}
      BY <1>2, <2>1
    <3> HIDE DEF R
    <3> QED BY <1>1, <2>1, <3>1, FS_AddElement DEF Member
  <2>2. CASE x \notin U
    <3>1. U = R
      BY <1>2, <2>2
    <3> HIDE DEF R
    <3> QED BY <1>1, <2>2, <3>1 DEF Member
  <2> QED BY <2>1, <2>2
<1>3. /\ IsFiniteSet(S) /\ Cardinality(S) = Cardinality(R) + Member(x, S)
      /\ IsFiniteSet(T) /\ Cardinality(T) = Cardinality(R) + Member(x, T)
  BY <1>2
<1> HIDE DEF R
<1> QED BY <1>1, <1>3, FS_CardinalityType DEF Member

\* Updaters for which s is pending.
Notified(s) == {u \in UpdatersOf(s) : s \in pending[u]}
InRound(s) == Cardinality(Sending(s, {"lockSent", "countSent"}))
AtKill(s) == Cardinality(Sending(s, {"kill"}))

TakenWithinSent ==
  \A s \in Signals : taken[s] + Cardinality(Notified(s)) + 2 * AtKill(s) <= 2 * sent[s]

CountInv == NoLostUpdates /\ TakenWithinSent

LEMMA CountTypes ==
  ASSUME NEW s \in Signals
  PROVE  /\ \A labels : IsFiniteSet(Sending(s, labels)) /\ Cardinality(Sending(s, labels)) \in Nat
         /\ IsFiniteSet(Counting(s)) /\ Cardinality(Counting(s)) \in Nat
         /\ IsFiniteSet(Notified(s)) /\ Cardinality(Notified(s)) \in 0 .. 2
<1>1. ASSUME NEW labels
      PROVE  IsFiniteSet(Sending(s, labels))
  <2>1. Sending(s, labels) \in SUBSET Generators
    BY DEF Sending
  <2> QED BY <2>1, ProcessSets, FS_Subset
<1>2. IsFiniteSet(Counting(s))
  <2>1. Counting(s) \in SUBSET UpdatersOf(s)
    BY DEF Counting
  <2> QED BY <2>1, UpdaterSets, FS_Subset
<1>3. IsFiniteSet(Notified(s)) /\ Cardinality(Notified(s)) <= 2
  <2>1. Notified(s) \in SUBSET UpdatersOf(s)
    BY DEF Notified
  <2>2. IsFiniteSet(UpdatersOf(s)) /\ Cardinality(UpdatersOf(s)) = 2
    BY UpdaterSets
  <2>3. IsFiniteSet(Notified(s)) /\ Cardinality(Notified(s)) <= Cardinality(UpdatersOf(s))
    BY <2>1, <2>2, FS_Subset
  <2> QED BY <2>2, <2>3
<1>4. Cardinality(Counting(s)) \in Nat /\ Cardinality(Notified(s)) \in Nat
  BY <1>2, <1>3, FS_CardinalityType
<1>5. \A labels : Cardinality(Sending(s, labels)) \in Nat
  BY <1>1, FS_CardinalityType
<1>6. Cardinality(Notified(s)) \in 0 .. 2
  BY <1>3, <1>4
<1> QED BY <1>1, <1>2, <1>3, <1>4, <1>5, <1>6

LEMMA InitCountInv == Init => CountInv
<1> SUFFICES ASSUME Init, NEW s \in Signals
             PROVE  /\ sent[s] + InRound(s) = begun[s]
                    /\ received[s] + Cardinality(Counting(s)) = taken[s]
                    /\ taken[s] + Cardinality(Notified(s)) + 2 * AtKill(s) <= 2 * sent[s]
  BY DEF CountInv, NoLostUpdates, TakenWithinSent, InRound
<1>1. \A p \in Children : pc[p] = "unborn"
  BY ProcessSets DEF Init
<1>2. Sending(s, {"lockSent", "countSent"}) = {} /\ Sending(s, {"kill"}) = {}
  BY <1>1, ProcessSets DEF Sending
<1>3. Counting(s) = {} /\ Notified(s) = {}
  BY <1>1, ProcessSets, UpdaterSets DEF Init, Counting, Notified
<1>4. sent[s] = 0 /\ received[s] = 0 /\ begun[s] = 0 /\ taken[s] = 0
  BY DEF Init
<1> QED BY <1>2, <1>3, <1>4, FS_EmptySet DEF InRound, AtKill

\* The counts of generators, when one of them moves.
LEMMA SendingMove ==
  ASSUME NEW g \in Generators,
         \A h \in Generators : h # g => pc'[h] = pc[h] /\ choice'[h] = choice[h],
         NEW s \in Signals, NEW labels
  PROVE  Cardinality(Sending(s, labels)') =
           Cardinality(Sending(s, labels))
             + (IF pc'[g] \in labels /\ choice'[g] = s THEN 1 ELSE 0)
             - (IF pc[g] \in labels /\ choice[g] = s THEN 1 ELSE 0)
<1> DEFINE S == Sending(s, labels)
           T == Sending(s, labels)'
<1>1. S \ {g} = T \ {g}
  BY DEF Sending
<1>2. g \in S <=> pc[g] \in labels /\ choice[g] = s
  BY DEF Sending
<1>3. g \in T <=> pc'[g] \in labels /\ choice'[g] = s
  BY DEF Sending
<1>4. IsFiniteSet(S)
  BY CountTypes
<1> HIDE DEF S, T
<1>5. Cardinality(T) = Cardinality(S) + Member(g, T) - Member(g, S)
  BY <1>1, <1>4, CardinalityMove
<1>6. Cardinality(T) = Cardinality(S)
             + (IF pc'[g] \in labels /\ choice'[g] = s THEN 1 ELSE 0)
             - (IF pc[g] \in labels /\ choice[g] = s THEN 1 ELSE 0)
  BY <1>2, <1>3, <1>5 DEF Member
<1> QED BY <1>6 DEF S, T

\* The counts of updaters, when one of them moves.
LEMMA CountingMove ==
  ASSUME NEW u \in Updaters, \A v \in Updaters : v # u => pc'[v] = pc[v],
         NEW s \in Signals
  PROVE  Cardinality(Counting(s)') =
           Cardinality(Counting(s))
             + (IF SignalOf(u) = s /\ pc'[u] \in {"lockReceived", "countReceived"} THEN 1 ELSE 0)
             - (IF SignalOf(u) = s /\ pc[u] \in {"lockReceived", "countReceived"} THEN 1 ELSE 0)
<1> DEFINE L == {"lockReceived", "countReceived"}
           S == Counting(s)
           T == Counting(s)'
<1>1. S \ {u} = T \ {u}
  BY UpdaterSets DEF Counting
<1>2. u \in S <=> SignalOf(u) = s /\ pc[u] \in L
  BY UpdaterSets DEF Counting
<1>3. u \in T <=> SignalOf(u) = s /\ pc'[u] \in L
  BY UpdaterSets DEF Counting
<1>4. IsFiniteSet(S)
  BY CountTypes
<1> HIDE DEF S, T, L
<1>5. Cardinality(T) = Cardinality(S) + Member(u, T) - Member(u, S)
  BY <1>1, <1>4, CardinalityMove
<1>6. Cardinality(T) = Cardinality(S) + (IF SignalOf(u) = s /\ pc'[u] \in L THEN 1 ELSE 0)
                                      - (IF SignalOf(u) = s /\ pc[u] \in L THEN 1 ELSE 0)
  BY <1>2, <1>3, <1>5 DEF Member
<1> QED BY <1>6 DEF S, T, L

\* What is delivered to an updater is no longer pending for it.
LEMMA NotifiedMove ==
  ASSUME TypeInv, NEW r \in Receivers, pending' = [pending EXCEPT ![r] = {}], NEW s \in Signals
  PROVE  Cardinality(Notified(s)') =
           Cardinality(Notified(s)) - (IF r \in UpdatersOf(s) /\ pending[r] # {} THEN 1 ELSE 0)
<1> DEFINE S == Notified(s)
           T == Notified(s)'
<1>1. \A u \in Updaters : u \in Receivers /\ pending[u] \subseteq {SignalOf(u)}
  BY ProcessSets DEF TypeInv, ControlOK, PendingOK
<1>2. \A q \in Receivers : pending'[q] = IF q = r THEN {} ELSE pending[q]
  BY DEF TypeInv, ControlOK, PendingOK
<1>3. S \ {r} = T \ {r}
  BY <1>1, <1>2, UpdaterSets DEF Notified
<1>4. r \in S <=> r \in UpdatersOf(s) /\ pending[r] # {}
  BY <1>1, UpdaterSets DEF Notified
<1>5. r \notin T
  BY <1>2 DEF Notified
<1>6. IsFiniteSet(S)
  BY CountTypes
<1> HIDE DEF S, T
<1>7. Cardinality(T) = Cardinality(S) + Member(r, T) - Member(r, S) /\ Cardinality(S) \in Nat
  BY <1>3, <1>6, CardinalityMove
<1>8. Cardinality(T) = Cardinality(S) - (IF r \in UpdatersOf(s) /\ pending[r] # {} THEN 1 ELSE 0)
  BY <1>4, <1>5, <1>7 DEF Member
<1> QED BY <1>8 DEF S, T

\* Steps that no count looks at.
LEMMA SendingSame ==
  ASSUME \A g \in Generators : pc'[g] = pc[g] \/ {pc[g], pc'[g]} \subseteq Outside, choice' = choice
  PROVE  \A s \in Signals : InRound(s)' = InRound(s) /\ AtKill(s)' = AtKill(s)
<1> SUFFICES ASSUME NEW s \in Signals
             PROVE  /\ Sending(s, {"lockSent", "countSent"})' = Sending(s, {"lockSent", "countSent"})
                    /\ Sending(s, {"kill"})' = Sending(s, {"kill"})
  BY DEF InRound, AtKill
<1> QED BY DEF Sending, Outside

LEMMA CountingSame ==
  ASSUME \A u \in Updaters :
           pc'[u] = pc[u] \/ {pc[u], pc'[u]} \subseteq {"unborn", "loop", "pause"} \cup SetupLabels
  PROVE  \A s \in Signals : Counting(s)' = Counting(s)
  BY UpdaterSets DEF Counting, SetupLabels

\* Steps of main, of the reporter and of SIGINT.
LEMMA ControlCountInv ==
  ASSUME TypeInv, CountInv,
         \/ MainProcess
         \/ ReporterProcess
         \/ \E p \in Children : DieOfInterrupt(p)
  PROVE  CountInv'
<1>1. UNCHANGED <<pending, choice, sent, received, begun, taken>>
  BY DEF MainProcess, ReporterProcess, DieOfInterrupt, Die, Fork, ForkFails, ForkTo, PollFirst,
         PollSecond, KillChild, PrintTotals, OpenLog, LockOne, LockTwo, FirstLine, SecondLine, counters,
         histories
<1>2. \A p \in Updaters \cup Generators :
        pc'[p] = pc[p] \/ (pc[p] = "unborn" /\ pc'[p] \in {"unborn", StartLabel(p)})
  <2>1. ASSUME NEW labels, ForkTo(labels),
               \A p \in Children : labels[p] \in {"unborn", StartLabel(p)}
        PROVE  \A p \in Children :
                 pc'[p] = pc[p] \/ (pc[p] = "unborn" /\ pc'[p] \in {"unborn", StartLabel(p)})
    <3>1. next \in Children /\ pc[next] = "unborn" /\ Main \notin Children
      BY <2>1, ProcessSets, ProcessesAssumption DEF ForkTo, At, TypeInv, ControlOK, MainOK, Children
    <3> QED BY <2>1, <3>1, ProcessSets DEF ForkTo, TypeInv, ControlOK, PcOK
  <2>2. CASE Fork
    <3>1. \A p \in Children : [q \in Children |-> StartLabel(q)][p] \in {"unborn", StartLabel(p)}
      OBVIOUS
    <3> QED BY <2>1, <2>2, <3>1, ProcessSets DEF Fork
  <2>3. CASE ForkFails
    <3>1. \A p \in Children : [q \in Children |-> "unborn"][p] \in {"unborn", StartLabel(p)}
      OBVIOUS
    <3> QED BY <2>1, <2>3, <3>1, ProcessSets DEF ForkFails
  <2>4. ASSUME NEW q \in {Main, Reporter}, NEW l, Goto(q, l)
        PROVE  \A p \in Updaters \cup Generators : pc'[p] = pc[p]
    BY <2>4, ProcessSets DEF Goto, TypeInv, ControlOK, PcOK
  <2>5. CASE PollFirst \/ PollSecond \/ KillChild \/ PrintTotals \/ ReporterProcess
    BY <2>4, <2>5
    DEF PollFirst, PollSecond, KillChild, PrintTotals, ReporterProcess, OpenLog, LockOne, LockTwo,
        FirstLine, SecondLine
  <2>6. CASE \E p \in Children : DieOfInterrupt(p)
    BY <2>6 DEF DieOfInterrupt, Die
  <2> QED BY <2>2, <2>3, <2>5, <2>6 DEF MainProcess
<1>3. /\ \A u \in Updaters : StartLabel(u) = "unblock"
      /\ \A g \in Generators : StartLabel(g) = "choose"
  BY ProcessSets DEF StartLabel
<1>4. \A s \in Signals : /\ InRound(s)' = InRound(s) /\ AtKill(s)' = AtKill(s)
                         /\ Counting(s)' = Counting(s) /\ Notified(s)' = Notified(s)
  <2>1. \A g \in Generators : pc'[g] = pc[g] \/ {pc[g], pc'[g]} \subseteq Outside
    BY <1>2, <1>3 DEF Outside
  <2>2. \A u \in Updaters :
          pc'[u] = pc[u] \/ {pc[u], pc'[u]} \subseteq {"unborn", "loop", "pause"} \cup SetupLabels
    BY <1>2, <1>3 DEF SetupLabels
  <2> QED BY <1>1, <2>1, <2>2, SendingSame, CountingSame DEF Notified
<1> QED BY <1>1, <1>4 DEF CountInv, NoLostUpdates, TakenWithinSent, InRound

\* What the invariant says of one signal.
Counted(s) ==
  /\ sent[s] + InRound(s) = begun[s]
  /\ received[s] + Cardinality(Counting(s)) = taken[s]
  /\ taken[s] + Cardinality(Notified(s)) + 2 * AtKill(s) <= 2 * sent[s]

LEMMA CountedEach == CountInv <=> \A s \in Signals : Counted(s)
  BY DEF CountInv, NoLostUpdates, TakenWithinSent, Counted, InRound

LEMMA CountNumbers ==
  ASSUME TypeInv, NEW s \in Signals
  PROVE  /\ InRound(s) \in Nat /\ AtKill(s) \in Nat
         /\ Cardinality(Counting(s)) \in Nat /\ Cardinality(Notified(s)) \in Nat
         /\ sent[s] \in Nat /\ received[s] \in Nat /\ taken[s] \in Nat /\ begun[s] \in Nat
<1>1. sent[s] \in Nat /\ received[s] \in Nat /\ taken[s] \in Nat /\ begun[s] \in Nat
  BY DEF TypeInv, DataOK
<1>2. Cardinality(Counting(s)) \in Nat /\ Cardinality(Notified(s)) \in 0 .. 2
  BY CountTypes
<1>3. InRound(s) \in Nat /\ AtKill(s) \in Nat
  BY CountTypes DEF InRound, AtKill
<1>4. Cardinality(Notified(s)) \in Nat
  BY <1>2
<1> QED BY <1>1, <1>2, <1>3, <1>4

LEMMA ReceiverCountInv ==
  ASSUME TypeInv, CountInv, NEW r \in Receivers, Receiver(r)
  PROVE  CountInv'
<1> SUFFICES ASSUME NEW s \in Signals
             PROVE  Counted(s)'
  BY DEF CountInv, NoLostUpdates, TakenWithinSent, Counted, InRound
<1>1. Counted(s)
  BY CountedEach
<1>2. r \in Children /\ r \in Processes /\ r \notin Generators
  BY ProcessSets
<1>3. UNCHANGED <<choice, sent, received, begun>>
  BY DEF Receiver, Unblock, DieOfDefault, Die, Install, EnterPause, PauseReturns, HandledOutsidePause, counters,
         histories
<1>4. InRound(s)' = InRound(s) /\ AtKill(s)' = AtKill(s)
  <2>1. pc' = pc \/ \E l : Goto(r, l)
    BY DEF Receiver, Unblock, DieOfDefault, Die, Install, EnterPause, PauseReturns, HandledOutsidePause
  <2>2. \A g \in Generators : pc'[g] = pc[g]
    BY <1>2, <2>1, ProcessSets DEF Goto, TypeInv, ControlOK, PcOK
  <2> QED BY <1>3, <2>2, SendingSame
\* Where a receiver goes matters if it is an updater of s.
<1>5. ASSUME NEW l, Goto(r, l)
      PROVE  pc'[r] = l /\ \A p \in Processes : p # r => pc'[p] = pc[p]
  BY <1>2, <1>5 DEF Goto, TypeInv, ControlOK, PcOK
<1>6. CASE Unblock(r) \/ Install(r) \/ EnterPause(r)
  <2>1. \A u \in Updaters :
          pc'[u] = pc[u] \/ {pc[u], pc'[u]} \subseteq {"unborn", "loop", "pause"} \cup SetupLabels
    BY <1>5, <1>6, ProcessSets DEF Unblock, Install, EnterPause, At, SetupLabels
  <2>2. UNCHANGED <<pending, taken>>
    BY <1>6 DEF Unblock, Install, EnterPause, histories
  <2>3. Counting(s)' = Counting(s) /\ Notified(s)' = Notified(s)
    BY <2>1, <2>2, CountingSame DEF Notified
  <2> QED BY <1>1, <1>3, <1>4, <2>2, <2>3 DEF Counted
<1>7. CASE DieOfDefault(r)
  <2>1. UNCHANGED <<pc, pending, taken>>
    BY <1>7 DEF DieOfDefault, Die, histories
  <2> QED BY <1>1, <1>3, <1>4, <2>1 DEF Counted, Counting, Notified
<1>8. CASE HandledOutsidePause(r)
  <2>1. pending' = [pending EXCEPT ![r] = {}] /\ UNCHANGED <<pc, taken>>
    BY <1>8 DEF HandledOutsidePause, histories
  <2>2. Cardinality(Notified(s)') =
          Cardinality(Notified(s)) - (IF r \in UpdatersOf(s) /\ pending[r] # {} THEN 1 ELSE 0)
    BY <2>1, NotifiedMove
  <2>3. Cardinality(Notified(s)') <= Cardinality(Notified(s)) /\ Cardinality(Notified(s)') \in Int
    BY <2>2, CountNumbers
  <2>4. Counting(s)' = Counting(s)
    BY <2>1 DEF Counting
  <2> QED BY <1>1, <1>3, <1>4, <2>1, <2>3, <2>4, CountNumbers DEF Counted
<1>9. CASE PauseReturns(r)
  <2>1. pending' = [pending EXCEPT ![r] = {}] /\ pending[r] # {} /\ pc[r] = "pause"
    BY <1>9 DEF PauseReturns, At
  <2>2. Cardinality(Notified(s)') =
          Cardinality(Notified(s)) - (IF r \in UpdatersOf(s) THEN 1 ELSE 0)
    BY <2>1, NotifiedMove
  <2>3. CASE r \in Updaters
    <3>1. /\ pc'[r] = "lockReceived" /\ \A v \in Updaters : v # r => pc'[v] = pc[v]
      BY <1>5, <1>9, <2>3, ProcessSets DEF PauseReturns
    <3>2. Cardinality(Counting(s)') = Cardinality(Counting(s)) + (IF SignalOf(r) = s THEN 1 ELSE 0)
      BY <2>1, <2>3, <3>1, CountingMove, CountNumbers
    <3>3. taken'[s] = taken[s] + (IF SignalOf(r) = s THEN 1 ELSE 0)
      <4>1. taken' = [taken EXCEPT ![SignalOf(r)] = @ + 1] /\ SignalOf(r) \in Signals
        BY <1>9, <2>3, UpdaterSets DEF PauseReturns
      <4> QED BY <4>1, CountNumbers DEF TypeInv, DataOK
    <3>4. Cardinality(Notified(s)') = Cardinality(Notified(s)) - (IF SignalOf(r) = s THEN 1 ELSE 0)
      BY <2>2, <2>3, UpdaterSets
    <3> QED BY <1>1, <1>3, <1>4, <3>2, <3>3, <3>4, CountNumbers DEF Counted
  <2>4. CASE r \notin Updaters
    <3>1. \A u \in Updaters : pc'[u] = pc[u]
      BY <1>5, <1>9, <2>4, ProcessSets DEF PauseReturns
    <3>2. Counting(s)' = Counting(s) /\ taken' = taken
      BY <1>9, <2>4, <3>1, CountingSame DEF PauseReturns
    <3>3. Cardinality(Notified(s)') = Cardinality(Notified(s))
      BY <2>2, <2>4, UpdaterSets, CountNumbers
    <3> QED BY <1>1, <1>3, <1>4, <3>2, <3>3 DEF Counted
  <2> QED BY <2>3, <2>4
<1> QED BY <1>6, <1>7, <1>8, <1>9 DEF Receiver

LEMMA GeneratorCountInv ==
  ASSUME TypeInv, LockInv, CountInv, NEW g \in Generators, Choose(g) \/ SendsRound(g)
  PROVE  CountInv'
<1> SUFFICES ASSUME NEW s \in Signals
             PROVE  Counted(s)'
  BY DEF CountInv, NoLostUpdates, TakenWithinSent, Counted, InRound
<1>1. Counted(s)
  BY CountedEach
<1>2. g \in Processes /\ g \notin Updaters /\ NoSignal \notin Signals
  BY ProcessSets DEF NoSignal, Signals, SIGUSR1, SIGUSR2
<1>3. pc[g] \notin Outside => choice[g] \in Signals
  BY DEF TypeInv, ControlOK, ChoiceOK
\* A generator goes to l, in a round of c.
<1>4. ASSUME NEW l, Goto(g, l), NEW c, choice' = [choice EXCEPT ![g] = c]
      PROVE  /\ \A labels : Cardinality(Sending(s, labels)') =
                  Cardinality(Sending(s, labels)) + (IF l \in labels /\ c = s THEN 1 ELSE 0)
                    - (IF pc[g] \in labels /\ choice[g] = s THEN 1 ELSE 0)
             /\ Counting(s)' = Counting(s)
  <2>1. pc'[g] = l /\ \A p \in Processes : p # g => pc'[p] = pc[p]
    BY <1>2, <1>4 DEF Goto, TypeInv, ControlOK, PcOK
  <2>2. choice'[g] = c /\ \A h \in Generators : h # g => pc'[h] = pc[h] /\ choice'[h] = choice[h]
    BY <1>4, <2>1, ProcessSets DEF TypeInv, DataOK
  <2>3. Counting(s)' = Counting(s)
    BY <1>2, <2>1, CountingSame, ProcessSets
  <2> QED BY <2>1, <2>2, <2>3, SendingMove
\* The same for the two counts of rounds under way.
<1>5. ASSUME NEW l, Goto(g, l), NEW c, choice' = [choice EXCEPT ![g] = c]
      PROVE  /\ InRound(s)' = InRound(s)
                  + (IF l \in {"lockSent", "countSent"} /\ c = s THEN 1 ELSE 0)
                  - (IF pc[g] \in {"lockSent", "countSent"} /\ choice[g] = s THEN 1 ELSE 0)
             /\ AtKill(s)' = AtKill(s) + (IF l = "kill" /\ c = s THEN 1 ELSE 0)
                  - (IF pc[g] = "kill" /\ choice[g] = s THEN 1 ELSE 0)
             /\ Counting(s)' = Counting(s)
  <2>1. /\ \A labels : Cardinality(Sending(s, labels)') =
             Cardinality(Sending(s, labels)) + (IF l \in labels /\ c = s THEN 1 ELSE 0)
               - (IF pc[g] \in labels /\ choice[g] = s THEN 1 ELSE 0)
        /\ Counting(s)' = Counting(s)
    BY <1>4, <1>5
  <2> QED BY <2>1 DEF InRound, AtKill
<1>6. choice' = choice => choice' = [choice EXCEPT ![g] = choice[g]]
  BY DEF TypeInv, DataOK
<1>7. CASE Choose(g)
  <2>1. PICK c \in Signals : /\ choice' = [choice EXCEPT ![g] = c]
                             /\ begun' = [begun EXCEPT ![c] = @ + 1]
    BY <1>7 DEF Choose
  <2>2. Goto(g, "lockSent") /\ pc[g] = "choose" /\ UNCHANGED <<sent, received, taken, pending>>
    BY <1>7 DEF Choose, At, counters
  <2>3. /\ InRound(s)' = InRound(s) + (IF c = s THEN 1 ELSE 0)
        /\ AtKill(s)' = AtKill(s) /\ Counting(s)' = Counting(s)
    <3>1. /\ InRound(s)' = InRound(s)
               + (IF "lockSent" \in {"lockSent", "countSent"} /\ c = s THEN 1 ELSE 0)
               - (IF pc[g] \in {"lockSent", "countSent"} /\ choice[g] = s THEN 1 ELSE 0)
          /\ AtKill(s)' = AtKill(s) + (IF "lockSent" = "kill" /\ c = s THEN 1 ELSE 0)
               - (IF pc[g] = "kill" /\ choice[g] = s THEN 1 ELSE 0)
          /\ Counting(s)' = Counting(s)
      BY <1>5, <2>1, <2>2
    <3> QED BY <3>1, <2>1, <2>2, CountNumbers
  <2>4. begun'[s] = begun[s] + (IF c = s THEN 1 ELSE 0)
    BY <2>1, CountNumbers DEF TypeInv, DataOK
  <2>5. Notified(s)' = Notified(s)
    BY <2>2 DEF Notified
  <2> QED BY <1>1, <2>2, <2>3, <2>4, <2>5, CountNumbers DEF Counted
<1>8. CASE LockSent(g)
  <2>1. /\ Goto(g, "countSent") /\ pc[g] = "lockSent"
        /\ UNCHANGED <<choice, sent, received, taken, begun, pending>>
    BY <1>8 DEF LockSent, At, histories
  <2>2. InRound(s)' = InRound(s) /\ AtKill(s)' = AtKill(s) /\ Counting(s)' = Counting(s)
    <3>1. /\ InRound(s)' = InRound(s)
               + (IF "countSent" \in {"lockSent", "countSent"} /\ choice[g] = s THEN 1 ELSE 0)
               - (IF pc[g] \in {"lockSent", "countSent"} /\ choice[g] = s THEN 1 ELSE 0)
          /\ AtKill(s)' = AtKill(s) + (IF "countSent" = "kill" /\ choice[g] = s THEN 1 ELSE 0)
               - (IF pc[g] = "kill" /\ choice[g] = s THEN 1 ELSE 0)
          /\ Counting(s)' = Counting(s)
      BY <1>5, <1>6, <2>1
    <3> QED BY <3>1, <2>1, CountNumbers
  <2>3. Notified(s)' = Notified(s)
    BY <2>1 DEF Notified
  <2> QED BY <1>1, <2>1, <2>2, <2>3 DEF Counted
<1>9. CASE CountSent(g)
  <2>1. /\ Goto(g, "kill") /\ pc[g] = "countSent" /\ choice[g] \in Signals
        /\ UNCHANGED <<choice, received, taken, begun, pending>>
    BY <1>3, <1>9 DEF CountSent, At, Outside, histories
  <2>2. /\ InRound(s)' = InRound(s) - (IF choice[g] = s THEN 1 ELSE 0)
        /\ AtKill(s)' = AtKill(s) + (IF choice[g] = s THEN 1 ELSE 0)
        /\ Counting(s)' = Counting(s)
    <3>1. /\ InRound(s)' = InRound(s)
               + (IF "kill" \in {"lockSent", "countSent"} /\ choice[g] = s THEN 1 ELSE 0)
               - (IF pc[g] \in {"lockSent", "countSent"} /\ choice[g] = s THEN 1 ELSE 0)
          /\ AtKill(s)' = AtKill(s) + (IF "kill" = "kill" /\ choice[g] = s THEN 1 ELSE 0)
               - (IF pc[g] = "kill" /\ choice[g] = s THEN 1 ELSE 0)
          /\ Counting(s)' = Counting(s)
      BY <1>5, <1>6, <2>1
    <3> QED BY <3>1, <2>1, CountNumbers
  <2>3. sent'[s] = sent[s] + (IF choice[g] = s THEN 1 ELSE 0)
    <3>1. sent' = [sent EXCEPT ![choice[g]] = tmp[g] + 1] /\ tmp[g] = sent[choice[g]]
      BY <1>9, <2>1 DEF CountSent, LockInv, LoadedOK
    <3> QED BY <2>1, <3>1, CountNumbers DEF TypeInv, DataOK
  <2>4. Notified(s)' = Notified(s)
    BY <2>1 DEF Notified
  <2> QED BY <1>1, <2>1, <2>2, <2>3, <2>4, CountNumbers DEF Counted
<1>10. CASE Kill(g)
  <2>1. /\ Goto(g, "choose") /\ pc[g] = "kill" /\ choice[g] \in Signals
        /\ choice' = [choice EXCEPT ![g] = NoSignal]
        /\ UNCHANGED <<sent, received, taken, begun>>
    BY <1>3, <1>10 DEF Kill, At, Outside, counters, histories
  <2>2. /\ InRound(s)' = InRound(s) /\ Counting(s)' = Counting(s)
        /\ AtKill(s)' = AtKill(s) - (IF choice[g] = s THEN 1 ELSE 0)
    <3>1. /\ InRound(s)' = InRound(s)
               + (IF "choose" \in {"lockSent", "countSent"} /\ NoSignal = s THEN 1 ELSE 0)
               - (IF pc[g] \in {"lockSent", "countSent"} /\ choice[g] = s THEN 1 ELSE 0)
          /\ AtKill(s)' = AtKill(s) + (IF "choose" = "kill" /\ NoSignal = s THEN 1 ELSE 0)
               - (IF pc[g] = "kill" /\ choice[g] = s THEN 1 ELSE 0)
          /\ Counting(s)' = Counting(s)
      BY <1>5, <2>1
    <3> QED BY <1>2, <3>1, <2>1, CountNumbers
  <2>3. Cardinality(Notified(s)') <= Cardinality(Notified(s)) + (IF choice[g] = s THEN 2 ELSE 0)
        /\ Cardinality(Notified(s)') \in Nat
    <3>1. CASE choice[g] = s
      <4>1. Notified(s)' \in SUBSET UpdatersOf(s)
        BY DEF Notified
      <4>2. IsFiniteSet(UpdatersOf(s)) /\ Cardinality(UpdatersOf(s)) = 2
        BY UpdaterSets
      <4>3. IsFiniteSet(Notified(s)') /\ Cardinality(Notified(s)') <= 2
        BY <4>1, <4>2, FS_Subset
      <4>4. Cardinality(Notified(s)') \in Nat
        BY <4>3, FS_CardinalityType
      <4> QED BY <3>1, <4>3, <4>4, CountNumbers
    <3>2. CASE choice[g] # s
      <4>1. \A u \in UpdatersOf(s) : s \in pending'[u] <=> s \in pending[u]
        BY <1>10, <3>2, ProcessSets, UpdaterSets DEF Kill
      <4>2. Notified(s)' = Notified(s)
        BY <4>1 DEF Notified
      <4> QED BY <3>2, <4>2, CountNumbers
    <3> QED BY <3>1, <3>2
  <2> QED BY <1>1, <2>1, <2>2, <2>3, CountNumbers DEF Counted
<1> QED BY <1>7, <1>8, <1>9, <1>10 DEF SendsRound

LEMMA UpdaterCountInv ==
  ASSUME TypeInv, LockInv, CountInv, NEW u \in Updaters, SignalUpdater(u)
  PROVE  CountInv'
<1> SUFFICES ASSUME NEW s \in Signals
             PROVE  Counted(s)'
  BY DEF CountInv, NoLostUpdates, TakenWithinSent, Counted, InRound
<1>1. Counted(s)
  BY CountedEach
<1>2. u \in Processes /\ u \notin Generators /\ SignalOf(u) \in Signals
  BY ProcessSets, UpdaterSets
<1>3. UNCHANGED <<choice, pending, sent, begun, taken>>
  BY DEF SignalUpdater, LockReceived, CountReceived, histories
<1>4. ASSUME NEW l, Goto(u, l)
      PROVE  /\ InRound(s)' = InRound(s) /\ AtKill(s)' = AtKill(s) /\ Notified(s)' = Notified(s)
             /\ Cardinality(Counting(s)') =
                  Cardinality(Counting(s))
                    + (IF SignalOf(u) = s /\ l \in {"lockReceived", "countReceived"} THEN 1 ELSE 0)
                    - (IF SignalOf(u) = s /\ pc[u] \in {"lockReceived", "countReceived"} THEN 1 ELSE 0)
  <2>1. pc'[u] = l /\ \A p \in Processes : p # u => pc'[p] = pc[p]
    BY <1>2, <1>4 DEF Goto, TypeInv, ControlOK, PcOK
  <2>2. \A g \in Generators : pc'[g] = pc[g]
    BY <1>2, <2>1, ProcessSets
  <2>3. \A v \in Updaters : v # u => pc'[v] = pc[v]
    BY <2>1, ProcessSets
  <2>4. InRound(s)' = InRound(s) /\ AtKill(s)' = AtKill(s) /\ Notified(s)' = Notified(s)
    BY <1>3, <2>2, SendingSame DEF Notified
  <2> QED BY <2>1, <2>3, <2>4, CountingMove
<1>5. CASE LockReceived(u)
  <2>1. Goto(u, "countReceived") /\ pc[u] = "lockReceived" /\ received' = received
    BY <1>5 DEF LockReceived, At
  <2>2. Cardinality(Counting(s)') = Cardinality(Counting(s))
    BY <1>4, <2>1, CountNumbers
  <2> QED BY <1>1, <1>3, <1>4, <2>1, <2>2 DEF Counted
<1>6. CASE CountReceived(u)
  <2>1. Goto(u, "loop") /\ pc[u] = "countReceived"
    BY <1>6 DEF CountReceived, At
  <2>2. Cardinality(Counting(s)') = Cardinality(Counting(s)) - (IF SignalOf(u) = s THEN 1 ELSE 0)
    BY <1>4, <2>1, CountNumbers
  <2>3. received'[s] = received[s] + (IF SignalOf(u) = s THEN 1 ELSE 0)
    <3>1. received' = [received EXCEPT ![SignalOf(u)] = tmp[u] + 1] /\ tmp[u] = received[SignalOf(u)]
      BY <1>6, <2>1 DEF CountReceived, LockInv, LoadedOK
    <3> QED BY <1>2, <3>1, CountNumbers DEF TypeInv, DataOK
  <2>4. received'[s] + Cardinality(Counting(s)') = received[s] + Cardinality(Counting(s))
    BY <2>2, <2>3, CountNumbers
  <2> QED BY <1>1, <1>3, <1>4, <2>1, <2>4 DEF Counted
<1> QED BY <1>5, <1>6 DEF SignalUpdater

LEMMA NextCountInv == TypeInv /\ LockInv /\ CountInv /\ [Next]_vars => CountInv'
<1>1. CountInv /\ UNCHANGED vars => CountInv'
  BY DEF vars, counters, histories, CountInv, NoLostUpdates, TakenWithinSent, AtKill, Sending,
         Counting, Notified
<1> QED
  BY <1>1, ControlCountInv, ReceiverCountInv, GeneratorCountInv, UpdaterCountInv DEF Next

-----------------------------------------------------------------------------
(***************************************************************************)
(* The theorems.                                                           *)
(***************************************************************************)
ReportsWithinSent == \A i \in DOMAIN log : log[i].received <= 2 * log[i].sent

ProcessInv == TypeInv /\ LockInv /\ CountInv /\ ReportsWithinSent

LEMMA LineWithinSent ==
  ASSUME TypeInv, CountInv, NEW s \in Signals
  PROVE  Line(s).received <= 2 * Line(s).sent
<1>1. Counted(s)
  BY CountedEach
<1>2. received[s] <= 2 * sent[s]
  BY <1>1, CountNumbers DEF Counted
<1> QED BY <1>2 DEF Line

LEMMA NextReports ==
  TypeInv /\ CountInv /\ ReportsWithinSent /\ [Next]_vars => ReportsWithinSent'
<1> SUFFICES ASSUME TypeInv, CountInv, ReportsWithinSent, [Next]_vars
             PROVE  ReportsWithinSent'
  OBVIOUS
<1>1. log \in Seq([signal : Signals, sent : Nat, received : Nat])
  BY DEF TypeInv, DataOK
<1>2. log' = log \/ \E s \in Signals : log' = Append(log, Line(s))
  BY DEF Next, MainProcess, Fork, ForkFails, ForkTo, PollFirst, PollSecond, KillChild, PrintTotals,
         DieOfInterrupt, Die, Receiver, Unblock, DieOfDefault, Install, EnterPause, PauseReturns,
         HandledOutsidePause, Choose, SendsRound, LockSent, CountSent, Kill, SignalUpdater,
         LockReceived, CountReceived, ReporterProcess, OpenLog, LockOne, LockTwo, FirstLine,
         SecondLine, Written, Signals, vars, reporterVars
<1>3. ASSUME NEW s \in Signals, log' = Append(log, Line(s))
      PROVE  ReportsWithinSent'
  <2>1. /\ DOMAIN log' = 1 .. Len(log) + 1 /\ log'[Len(log) + 1] = Line(s) /\ Len(log) \in Nat
        /\ DOMAIN log = 1 .. Len(log) /\ \A i \in 1 .. Len(log) : log'[i] = log[i]
    BY <1>1, <1>3
  <2>2. Line(s).received <= 2 * Line(s).sent
    BY LineWithinSent
  <2>3. ASSUME NEW i \in DOMAIN log'
        PROVE  log'[i].received <= 2 * log'[i].sent
    <3>1. CASE i = Len(log) + 1
      BY <2>1, <2>2, <3>1
    <3>2. CASE i \in 1 .. Len(log)
      BY <2>1, <3>2 DEF ReportsWithinSent
    <3> QED BY <2>1, <3>1, <3>2
  <2> QED BY <2>3 DEF ReportsWithinSent
<1> QED BY <1>2, <1>3 DEF ReportsWithinSent

LEMMA ProcessInvariant == Spec => []ProcessInv
<1>1. Init => ReportsWithinSent
  BY DEF Init, ReportsWithinSent
<1>2. Init => ProcessInv
  BY <1>1, InitTypeInv, InitLockInv, InitCountInv DEF ProcessInv
<1>3. ProcessInv /\ [Next]_vars => ProcessInv'
  BY NextTypeInv, NextLockInv, NextCountInv, NextReports DEF ProcessInv
<1> QED BY <1>2, <1>3, PTL DEF Spec

\* No increment of a shared counter is lost, although processes die between
\* lock and unlock: the mutex then stays with the dead and nobody counts on.
THEOREM ProcessUpdatesKept == Spec => []NoLostUpdates
<1>1. ProcessInv => NoLostUpdates
  BY DEF ProcessInv, CountInv
<1> QED BY <1>1, ProcessInvariant, PTL

\* A report shows the counters of one moment: the reporter holds both mutexes,
\* and no line shows more than two signals received for each one sent.
THEOREM ProcessReportsAreSnapshots == Spec => []ReportIsSnapshot
<1>1. ASSUME ProcessInv
      PROVE  ReportIsSnapshot
  <2>1. ASSUME pc[Reporter] \in Reporting
        PROVE  \A p \in Generators \cup Updaters : pc[p] \notin {"countSent", "countReceived"}
    <3>1. \A s \in Signals : mutex[s] = Reporter
      BY <1>1, <2>1 DEF ProcessInv, LockInv, HeldOK
    <3>2. ASSUME NEW g \in Generators
          PROVE  pc[g] \notin {"countSent", "countReceived"}
      <4>1. pc[g] \in PcOf(g) /\ (pc[g] = "countSent" => choice[g] \in Signals)
        BY <1>1, ProcessSets DEF ProcessInv, TypeInv, ControlOK, PcOK, ChoiceOK, Outside
      <4>2. pc[g] # "countSent"
        BY <1>1, <3>1, <4>1, ProcessSets DEF ProcessInv, LockInv, HeldOK
      <4> QED BY <4>1, <4>2, PcOfKinds DEF GeneratorLabels
    <3>3. ASSUME NEW u \in Updaters
          PROVE  pc[u] \notin {"countSent", "countReceived"}
      <4>1. pc[u] \in PcOf(u)
        BY <1>1, ProcessSets DEF ProcessInv, TypeInv, ControlOK, PcOK
      <4>2. pc[u] # "countReceived"
        BY <1>1, <3>1, ProcessSets, UpdaterSets DEF ProcessInv, LockInv, HeldOK
      <4> QED BY <4>1, <4>2, PcOfKinds DEF SetupLabels, UpdaterLabels
    <3> QED BY <3>2, <3>3
  <2>2. pc[Reporter] = "secondLine" /\ log_open => log[Len(log)] = Line(SIGUSR1)
    BY <1>1 DEF ProcessInv, LockInv, WrittenOK
  <2>3. \A i \in DOMAIN log : log[i].received <= 2 * log[i].sent
    BY <1>1 DEF ProcessInv, ReportsWithinSent
  <2> QED BY <2>1, <2>2, <2>3 DEF ReportIsSnapshot, Reporting
<1> QED BY <1>1, ProcessInvariant, PTL

\* Every step that changes a counter is a step of CountedSignals.
LEMMA StepCounts ==
  ProcessInv /\ [Next]_vars => [Abstract!Next]_(Abstract!vars)
<1> SUFFICES ASSUME ProcessInv, [Next]_vars
             PROVE  Abstract!Next \/ UNCHANGED <<begun, sent, received>>
  BY DEF Abstract!vars
<1> USE DEF ProcessInv
<1>1. ASSUME NEW g \in Generators, Choose(g)
      PROVE  Abstract!Next
  <2>1. PICK s \in Signals : begun' = [begun EXCEPT ![s] = @ + 1]
    BY <1>1 DEF Choose
  <2>2. Abstract!Begin(s)
    BY <1>1, <2>1 DEF Choose, counters, Abstract!Begin
  <2> QED BY <2>2 DEF Abstract!Next
<1>2. ASSUME NEW g \in Generators, CountSent(g)
      PROVE  Abstract!Next
  <2> DEFINE c == choice[g]
  <2>1. pc[g] = "countSent" /\ c \in Signals /\ tmp[g] = sent[c]
    BY <1>2 DEF CountSent, At, TypeInv, ControlOK, ChoiceOK, Outside, LockInv, LoadedOK
  <2>2. InRound(c) # 0
    <3>1. g \in Sending(c, {"lockSent", "countSent"})
      BY <2>1 DEF Sending
    <3> QED BY <2>1, <3>1, CountTypes, FS_EmptySet DEF InRound
  <2>3. Counted(c)
    BY <2>1, CountedEach
  <2>4. sent[c] < begun[c]
    BY <2>1, <2>2, <2>3, CountNumbers DEF Counted
  <2>5. Abstract!CountSent(c)
    BY <1>2, <2>1, <2>4 DEF CountSent, histories, Abstract!CountSent
  <2> QED BY <2>1, <2>5 DEF Abstract!Next
<1>3. ASSUME NEW u \in Updaters, CountReceived(u)
      PROVE  Abstract!Next
  <2> DEFINE s == SignalOf(u)
  <2>1. pc[u] = "countReceived" /\ s \in Signals /\ u \in UpdatersOf(s) /\ tmp[u] = received[s]
    BY <1>3, UpdaterSets DEF CountReceived, At, LockInv, LoadedOK
  <2>2. Cardinality(Counting(s)) # 0
    <3>1. u \in Counting(s)
      BY <2>1 DEF Counting
    <3> QED BY <2>1, <3>1, CountTypes, FS_EmptySet
  <2>3. Counted(s)
    BY <2>1, CountedEach
  <2>4. received[s] < 2 * begun[s]
    BY <2>1, <2>2, <2>3, CountNumbers DEF Counted
  <2>5. Abstract!CountReceived(s)
    BY <1>3, <2>1, <2>4 DEF CountReceived, histories, Abstract!CountReceived
  <2> QED BY <2>1, <2>5 DEF Abstract!Next
<1>4. ASSUME ~ \E g \in Generators : Choose(g) \/ CountSent(g),
             ~ \E u \in Updaters : CountReceived(u)
      PROVE  UNCHANGED <<begun, sent, received>>
  BY <1>4
  DEF Next, MainProcess, Fork, ForkFails, ForkTo, PollFirst, PollSecond, KillChild, PrintTotals,
      DieOfInterrupt, Die, Receiver, Unblock, DieOfDefault, Install, EnterPause, PauseReturns,
      HandledOutsidePause, SendsRound, LockSent, Kill, SignalUpdater, LockReceived,
      ReporterProcess, OpenLog, LockOne, LockTwo, FirstLine, SecondLine, vars, counters, histories
<1> QED BY <1>1, <1>2, <1>3, <1>4

\* The processes implement CountedSignals, as the threads do, whatever signals
\* pause() misses and whenever processes die.
THEOREM ProcessesCountSignals == Spec => CountsSignals
<1>1. Init => Abstract!Init
  BY DEF Init, Abstract!Init
<1>2. Spec => [][Abstract!Next]_(Abstract!vars)
  BY ProcessInvariant, StepCounts, PTL DEF Spec
<1> QED BY <1>1, <1>2, PTL DEF Spec, CountsSignals, Abstract!Spec

-----------------------------------------------------------------------------
(***************************************************************************)
(* The updaters that have counted.  Nobody keeps a count for each, but     *)
(* there is a set of updaters whose pauses have ended: all that count now  *)
(* or go back to pause() from there,                                       *)
(* and of those ready in time all that a signal was sent to, unless it is  *)
(* still pending.                                                          *)
(***************************************************************************)
AfterPause == {"lockReceived", "countReceived", "loop"}

\* Some generator is there.
Started == \E g \in Generators : pc[g] # "unborn"

\* Before the first generator, nothing is sent and, but for those that are slow,
\* each updater that could be forked has its handlers.
StartOK ==
  /\ ~Started => \A s \in Signals : sent[s] = 0
  /\ Started => \A u \in Updaters \ Slow :
                  pc[u] \in {"unborn"} \cup UpdaterLabels \/ u \in dead

UnforkedOK ==
  \A p \in unforked : pc[p] = "unborn" /\ (pc[Main] = "fork" => p < next)

\* A kill of signal s was made.
Delivered(s) == AtKill(s) < sent[s]

Heard(V) ==
  /\ \A s \in Signals : Cardinality(V \cap UpdatersOf(s)) <= taken[s]
  /\ \A u \in Updaters : pc[u] \in AfterPause => u \in V
  /\ \A u \in Updaters \ Slow :
       Delivered(SignalOf(u)) /\ pc[u] # "unborn" /\ u \notin dead => u \in V \/ pending[u] # {}

HeardInv == StartOK /\ UnforkedOK /\ \E V \in SUBSET Updaters : Heard(V)

LEMMA InitHeardInv == Init => HeardInv
<1> SUFFICES ASSUME Init PROVE HeardInv
  OBVIOUS
<1>1. \A p \in Children : pc[p] = "unborn"
  BY ProcessSets DEF Init
<1>2. StartOK
  BY <1>1, ProcessSets DEF Init, StartOK, Started
<1>3. UnforkedOK
  BY DEF Init, UnforkedOK
<1>4. Heard({})
  <2>1. \A s \in Signals : {} \cap UpdatersOf(s) = {} /\ taken[s] = 0
    BY DEF Init
  <2>2. \A s \in Signals : Cardinality({} \cap UpdatersOf(s)) <= taken[s]
    BY <2>1, FS_EmptySet
  <2>3. \A u \in Updaters : pc[u] = "unborn"
    BY <1>1, ProcessSets
  <2> QED BY <2>2, <2>3 DEF Heard, AfterPause
<1> QED BY <1>2, <1>3, <1>4 DEF HeardInv

\* A step that forks nobody and ends no pause.
Steady ==
  /\ UNCHANGED <<unforked, taken>>
  /\ \A p \in Children : pc'[p] = "unborn" <=> pc[p] = "unborn"
  /\ pc'[Main] = "fork" => pc[Main] = "fork" /\ next' = next
  /\ dead \subseteq dead'
  /\ sent' = sent \/ Started

\* An updater of it that goes on from a pause, or is still to get there.
SteadyUpdaters ==
  \A u \in Updaters :
    pc'[u] = pc[u] \/ pc'[u] \in UpdaterLabels \/ (pc[u] \in SetupLabels /\ u \notin dead)

LEMMA SteadyStart ==
  ASSUME TypeInv, StartOK, UnforkedOK, Steady, SteadyUpdaters
  PROVE  StartOK' /\ UnforkedOK'
<1>1. unforked \subseteq Children /\ Updaters \subseteq Children /\ Generators \subseteq Children
  BY ProcessSets DEF TypeInv, DataOK
<1>2. Started' <=> Started
  BY <1>1 DEF Steady, Started
<1>3. StartOK'
  <2>1. ASSUME Started, NEW u \in Updaters \ Slow
        PROVE  pc'[u] \in {"unborn"} \cup UpdaterLabels \/ u \in dead'
    <3>1. pc[u] \in {"unborn"} \cup UpdaterLabels \/ u \in dead
      BY <2>1 DEF StartOK
    <3>2. pc[u] \in SetupLabels => u \in dead
      BY <3>1 DEF SetupLabels, UpdaterLabels
    <3> QED BY <3>1, <3>2 DEF Steady, SteadyUpdaters
  <2>2. ASSUME ~Started PROVE \A s \in Signals : sent'[s] = 0
    BY <2>2 DEF Steady, StartOK
  <2> QED BY <1>2, <2>1, <2>2 DEF StartOK
<1>4. UnforkedOK'
  BY <1>1 DEF Steady, UnforkedOK
<1> QED BY <1>3, <1>4

\* The same updaters have counted after it, if no kill is made.
LEMMA HeardKept ==
  ASSUME NEW V, Heard(V), taken' = taken,
         \A s \in Signals : Delivered(s)' => Delivered(s),
         \A u \in Updaters : pc'[u] \in AfterPause => pc[u] \in AfterPause,
         \A u \in Updaters \ Slow :
           pc'[u] # "unborn" /\ u \notin dead' /\ Delivered(SignalOf(u)) =>
             /\ pc[u] # "unborn" /\ u \notin dead
             /\ pending'[u] = pending[u] \/ pc[u] \in AfterPause
  PROVE  Heard(V)'
BY UpdaterSets DEF Heard

LEMMA DeliveredSame ==
  ASSUME \A g \in Generators : pc'[g] = pc[g] \/ {pc[g], pc'[g]} \subseteq Outside,
         UNCHANGED <<choice, sent>>
  PROVE  \A s \in Signals : Delivered(s)' = Delivered(s)
BY SendingSame DEF Delivered

\* A child that goes on was there before, and is.
LEMMA GoingOn ==
  ASSUME TypeInv, NEW p \in Processes, NEW l, Goto(p, l), pc[p] # "unborn", l # "unborn"
  PROVE  /\ \A q \in Processes : pc'[q] = "unborn" <=> pc[q] = "unborn"
         /\ pc'[p] = l /\ \A q \in Processes : q # p => pc'[q] = pc[q]
BY DEF TypeInv, ControlOK, PcOK, Goto

\* The steps of main behind the fork loop, of the reporter and of SIGINT.
LEMMA ControlHeardInv ==
  ASSUME TypeInv, HeardInv,
         \/ PollFirst \/ PollSecond \/ KillChild \/ PrintTotals
         \/ ReporterProcess
         \/ \E p \in Children : DieOfInterrupt(p)
  PROVE  HeardInv'
<1>1. UNCHANGED <<pending, choice, sent, taken, unforked>> /\ dead \subseteq dead'
  BY DEF PollFirst, PollSecond, KillChild, PrintTotals, ReporterProcess, OpenLog, LockOne, LockTwo,
         FirstLine, SecondLine, DieOfInterrupt, Die, Interrupt, counters, histories, mainVars
<1>2. /\ \A q \in Processes : pc'[q] = "unborn" <=> pc[q] = "unborn"
      /\ \A q \in Updaters \cup Generators : pc'[q] = pc[q]
      /\ pc'[Main] = "fork" => pc[Main] = "fork" /\ next' = next
  <2>1. CASE PollFirst \/ PollSecond \/ KillChild \/ PrintTotals
    <3>1. \E l : Goto(Main, l) /\ l # "unborn" /\ l # "fork" /\ pc[Main] # "unborn"
      BY <2>1 DEF PollFirst, PollSecond, KillChild, PrintTotals, At
    <3> QED BY <3>1, ProcessSets, GoingOn
  <2>2. CASE ReporterProcess
    <3>1. \E l : Goto(Reporter, l) /\ l # "unborn" /\ pc[Reporter] # "unborn"
      BY <2>2 DEF ReporterProcess, OpenLog, LockOne, LockTwo, FirstLine, SecondLine, At
    <3>2. next' = next
      BY <2>2 DEF ReporterProcess, OpenLog, LockOne, LockTwo, FirstLine, SecondLine, mainVars
    <3> QED BY <3>1, <3>2, ProcessSets, GoingOn
  <2>3. CASE \E p \in Children : DieOfInterrupt(p)
    BY <2>3 DEF DieOfInterrupt, Die, mainVars
  <2> QED BY <2>1, <2>2, <2>3
<1>3. Steady /\ SteadyUpdaters
  BY <1>1, <1>2, ProcessSets DEF Steady, SteadyUpdaters
<1>4. PICK V \in SUBSET Updaters : Heard(V)
  BY DEF HeardInv
<1>5. \A s \in Signals : Delivered(s)' = Delivered(s)
  BY <1>1, <1>2, DeliveredSame
<1>6. Heard(V)'
  BY <1>1, <1>2, <1>4, <1>5, HeardKept, UpdaterSets
<1> QED BY <1>3, <1>4, <1>6, SteadyStart DEF HeardInv

\* While updaters are forked there is no generator, and when there is one, they
\* are at their loops.
LEMMA ForkHeardInv ==
  ASSUME TypeInv, HeardInv, Fork \/ ForkFails
  PROVE  HeardInv'
<1>1. UNCHANGED <<dead, pending, choice, sent, taken>> /\ At(Main, "fork") /\ next' = next + 1
  BY DEF Fork, ForkFails, ForkTo, counters, histories
<1>2. /\ next \in Children /\ next \in Nat /\ SUB_PROCESSES \in Nat
      /\ \A p \in next .. SUB_PROCESSES : pc[p] = "unborn"
  BY <1>1, ProcessesAssumption DEF TypeInv, ControlOK, MainOK, At, Children
<1>3. PICK l : /\ pc' = [pc EXCEPT ![next] = l, ![Main] = IF next = Ninth THEN "poll" ELSE "fork"]
               /\ l = "unborn" \/ l = StartLabel(next)
               /\ unforked' = unforked \/ (l = "unborn" /\ unforked' = unforked \cup {next})
  <2>1. CASE Fork
    BY <1>2, <2>1 DEF Fork, ForkTo
  <2>2. CASE ForkFails
    BY <1>2, <2>2 DEF ForkFails, ForkTo
  <2> QED BY <2>1, <2>2
<1>4. /\ pc'[next] = l /\ \A p \in Children : p # next => pc'[p] = pc[p]
      /\ pc'[Main] = "fork" => pc[Main] = "fork"
  BY <1>1, <1>2, <1>3, ProcessSets DEF TypeInv, ControlOK, PcOK, At
<1>5. pc[next] = "unborn" /\ next \notin unforked
  <2>1. \A p \in unforked : p < next
    BY <1>1 DEF HeardInv, UnforkedOK, At
  <2> QED BY <1>2, <2>1 DEF Children
<1>6. UnforkedOK'
  <2>1. unforked \subseteq Children /\ Children \subseteq Nat
    BY DEF TypeInv, DataOK, Children
  <2>2. \A p \in unforked : pc[p] = "unborn" /\ p < next
    BY <1>1 DEF HeardInv, UnforkedOK, At
  <2>3. \A p \in unforked : pc'[p] = "unborn" /\ p < next'
    BY <1>1, <1>2, <1>4, <1>5, <2>1, <2>2
  <2>4. ASSUME NEW p \in unforked'
        PROVE  pc'[p] = "unborn" /\ (pc'[Main] = "fork" => p < next')
    <3>1. CASE p \in unforked
      BY <2>3, <3>1
    <3>2. CASE l = "unborn" /\ p = next
      BY <1>1, <1>2, <1>4, <3>2
    <3> QED BY <1>3, <2>4, <3>1, <3>2
  <2> QED BY <2>4 DEF UnforkedOK
<1>7. ASSUME next \in Updaters PROVE ~Started
  BY <1>2, <1>7, ProcessesAssumption DEF Started, Generators, Updaters
<1>8. ASSUME NEW u \in Updaters \ Slow, next \in Generators
      PROVE  pc[u] \in {"unborn"} \cup UpdaterLabels \/ u \in dead
  <2>1. u \in 0 .. next - 1
    BY <1>2, <1>8, ProcessesAssumption DEF Updaters, Generators
  <2>2. Ready(u) \/ u \in unforked
    BY <1>8, <2>1 DEF Fork, ForkFails, ForkTo
  <2>3. u \in unforked => pc[u] = "unborn"
    BY DEF HeardInv, UnforkedOK
  <2>4. pc[u] \in {"unborn"} \cup SetupLabels \cup UpdaterLabels
    BY ProcessSets, PcOfKinds DEF TypeInv, ControlOK, PcOK
  <2> QED BY <2>2, <2>3, <2>4
      DEF Ready, ReadyLabels, SetupLabels, UpdaterLabels, ReporterLabels, GeneratorLabels
<1>9. StartOK'
  <2>1. StartOK
    BY DEF HeardInv
  <2>2. ASSUME Started', NEW u \in Updaters \ Slow
        PROVE  pc'[u] \in {"unborn"} \cup UpdaterLabels \/ u \in dead'
    <3>1. Started \/ next \in Generators
      BY <1>4, <2>2, ProcessSets DEF Started
    <3>2. next # u
      BY <1>7, <3>1, ProcessSets
    <3>3. pc'[u] = pc[u]
      BY <1>4, <3>2, ProcessSets
    <3> QED BY <1>1, <1>8, <2>1, <3>1, <3>3 DEF StartOK
  <2>3. ASSUME ~Started' PROVE \A s \in Signals : sent'[s] = 0
    <3>1. ~Started
      BY <1>4, <1>5, <2>3, ProcessSets DEF Started
    <3> QED BY <1>1, <2>1, <3>1 DEF StartOK
  <2> QED BY <2>2, <2>3 DEF StartOK
<1>10. PICK V \in SUBSET Updaters : Heard(V)
  BY DEF HeardInv
<1>11. \A s \in Signals : Delivered(s)' = Delivered(s)
  <2>1. \A g \in Generators : StartLabel(g) = "choose"
    BY ProcessSets DEF StartLabel
  <2>2. \A g \in Generators : pc'[g] = pc[g] \/ {pc[g], pc'[g]} \subseteq Outside
    BY <1>3, <1>4, <1>5, <2>1, ProcessSets DEF Outside
  <2> QED BY <1>1, <2>2, DeliveredSame
<1>12. \A s \in Signals : ~Started => ~Delivered(s)
  BY CountNumbers DEF HeardInv, StartOK, Delivered
<1>13. \A u \in Updaters : StartLabel(u) = "unblock"
  BY ProcessSets DEF StartLabel
<1>14. Heard(V)'
  <2>1. \A u \in Updaters : pc'[u] \in AfterPause => pc[u] \in AfterPause
    BY <1>3, <1>4, <1>13, ProcessSets DEF AfterPause
  <2>2. ASSUME NEW u \in Updaters, Delivered(SignalOf(u)) PROVE pc'[u] = pc[u]
    BY <1>4, <1>7, <1>12, <2>2, ProcessSets, UpdaterSets
  <2> QED BY <1>1, <1>10, <1>11, <2>1, <2>2, HeardKept, UpdaterSets
<1> QED BY <1>6, <1>9, <1>10, <1>14 DEF HeardInv

\* Where the updaters are.
LEMMA UpdaterPlaces ==
  ASSUME TypeInv, NEW u \in Updaters
  PROVE  /\ u \in Processes /\ u \in Children /\ u \in Receivers /\ u \notin Generators
         /\ pc[u] \in {"unborn"} \cup SetupLabels \cup {"pause"} \cup AfterPause
         /\ UpdaterLabels = {"pause"} \cup AfterPause
<1>1. u \in Processes /\ u \in Children /\ u \in Receivers /\ u \notin Generators
  BY ProcessSets
<1>2. pc[u] \in {"unborn"} \cup SetupLabels \cup UpdaterLabels
  BY <1>1, PcOfKinds DEF TypeInv, ControlOK, PcOK
<1> QED BY <1>1, <1>2 DEF UpdaterLabels, AfterPause

\* The pause of r ends: now r has counted, too.
LEMMA HeardMore ==
  ASSUME TypeInv, NEW r \in Updaters, NEW V \in SUBSET Updaters, Heard(V),
         taken' = [taken EXCEPT ![SignalOf(r)] = @ + 1],
         \A s \in Signals : Delivered(s)' = Delivered(s),
         \A u \in Updaters : u # r => pc'[u] = pc[u] /\ pending'[u] = pending[u],
         dead' = dead
  PROVE  Heard(V \cup {r})'
<1> DEFINE W == V \cup {r}
<1>1. ASSUME NEW s \in Signals
      PROVE  Cardinality(W \cap UpdatersOf(s)) <= taken'[s]
  <2>1. taken \in [Signals -> Nat] /\ SignalOf(r) \in Signals
    BY UpdaterSets DEF TypeInv, DataOK
  <2> DEFINE X == V \cap UpdatersOf(s)
  <2>2. Cardinality(X) <= taken[s] /\ IsFiniteSet(X) /\ Cardinality(X) \in Nat
    <3>1. X \in SUBSET UpdatersOf(s)
      OBVIOUS
    <3>2. IsFiniteSet(X)
      BY <3>1, UpdaterSets, FS_Subset
    <3> QED BY <3>2, FS_CardinalityType DEF Heard
  <2>3. CASE SignalOf(r) = s
    <3>1. W \cap UpdatersOf(s) = X \cup {r}
      BY <2>3, UpdaterSets
    <3> HIDE DEF X, W
    <3>2. Cardinality(X \cup {r}) = Cardinality(X) \/ Cardinality(X \cup {r}) = Cardinality(X) + 1
      <4>1. CASE r \in X
        <5>1. X \cup {r} = X
          BY <4>1
        <5> QED BY ONLY <5>1
      <4>2. CASE r \notin X
        BY <2>2, <4>2, FS_AddElement
      <4> QED BY <4>1, <4>2
    <3>3. taken'[s] = taken[s] + 1 /\ taken[s] \in Nat
      BY <2>1, <2>3
    <3>4. \/ Cardinality(W \cap UpdatersOf(s)) = Cardinality(X)
          \/ Cardinality(W \cap UpdatersOf(s)) = Cardinality(X) + 1
      BY ONLY <3>1, <3>2, Zenon
    <3> QED BY ONLY <2>2, <3>3, <3>4
  <2>4. CASE SignalOf(r) # s
    <3>1. W \cap UpdatersOf(s) = X
      BY <2>4, UpdaterSets
    <3>2. taken'[s] = taken[s]
      BY <2>1, <2>4
    <3> QED BY <2>2, <3>1, <3>2
  <2> QED BY <2>3, <2>4
<1>2. \A u \in Updaters : pc'[u] \in AfterPause => u \in W
  BY DEF Heard
<1>3. ASSUME NEW u \in Updaters \ Slow, Delivered(SignalOf(u))', pc'[u] # "unborn", u \notin dead'
      PROVE  u \in W \/ pending'[u] # {}
  BY <1>3, UpdaterSets DEF Heard
<1> QED BY <1>1, <1>2, <1>3 DEF Heard

\* A receiver that installs its handlers, dies of a signal before, or runs them.
LEMMA ReceiverHeardInv ==
  ASSUME TypeInv, HeardInv, NEW r \in Receivers, Receiver(r)
  PROVE  HeardInv'
<1>1. r \in Processes /\ r \in Children /\ r \notin Generators /\ r # Main
  BY ProcessSets
<1>2. UNCHANGED <<choice, sent, next, unforked>> /\ dead \subseteq dead'
  BY DEF Receiver, Unblock, DieOfDefault, Die, Install, EnterPause, PauseReturns, HandledOutsidePause, counters,
         mainVars
<1>3. /\ \A q \in Processes : pc'[q] = "unborn" <=> pc[q] = "unborn"
      /\ \A q \in Processes : q # r => pc'[q] = pc[q]
  <2>1. pc' = pc \/ \E l : Goto(r, l) /\ l # "unborn" /\ pc[r] # "unborn"
    BY DEF Receiver, Unblock, DieOfDefault, Die, Install, EnterPause, PauseReturns, HandledOutsidePause, At
  <2> QED BY <1>1, <2>1, GoingOn
<1>4. \A s \in Signals : Delivered(s)' = Delivered(s)
  <2>1. \A g \in Generators : pc'[g] = pc[g]
    BY <1>1, <1>3, ProcessSets
  <2> QED BY <1>2, <2>1, DeliveredSame
<1>5. PICK V \in SUBSET Updaters : Heard(V)
  BY DEF HeardInv
<1>6. CASE r \in Updaters /\ PauseReturns(r)
  <2>1. /\ taken' = [taken EXCEPT ![SignalOf(r)] = @ + 1] /\ dead' = dead
        /\ pending' = [pending EXCEPT ![r] = {}] /\ pc'[r] = "lockReceived"
    BY <1>1, <1>6 DEF PauseReturns, Goto, TypeInv, ControlOK, PcOK
  <2>2. \A u \in Updaters : u # r => pc'[u] = pc[u] /\ pending'[u] = pending[u]
    BY <1>3, <2>1, ProcessSets DEF TypeInv, ControlOK, PendingOK
  <2>3. Heard(V \cup {r})'
    BY <1>4, <1>5, <1>6, <2>1, <2>2, HeardMore
  <2>4. StartOK' /\ UnforkedOK'
    <3>1. unforked \subseteq Children /\ Main \in Processes
      BY ProcessSets DEF TypeInv, DataOK
    <3>2. Started' <=> Started
      BY <1>3, ProcessSets DEF Started
    <3>3. StartOK'
      BY <1>2, <1>3, <2>1, <3>2, ProcessSets DEF HeardInv, StartOK, UpdaterLabels
    <3>4. UnforkedOK'
      BY <1>1, <1>2, <1>3, <3>1, ProcessSets DEF HeardInv, UnforkedOK
    <3> QED BY <3>3, <3>4
  <2> QED BY <1>6, <2>3, <2>4 DEF HeardInv
<1>7. CASE r \notin Updaters \/ ~PauseReturns(r)
  <2>1. taken' = taken
    BY <1>7 DEF Receiver, Unblock, DieOfDefault, Die, Install, EnterPause, PauseReturns, HandledOutsidePause,
                histories
  <2>2. Steady
    BY <1>1, <1>2, <1>3, <2>1, ProcessSets DEF Steady
  <2>3. SteadyUpdaters /\ \A u \in Updaters : pc'[u] \in AfterPause => pc[u] \in AfterPause
    <3>1. CASE r \notin Updaters \/ pc' = pc
      BY <1>3, <3>1, ProcessSets DEF SteadyUpdaters
    <3>2. CASE r \in Updaters /\ (Unblock(r) \/ Install(r) \/ EnterPause(r))
      <4>1. /\ (pc[r] \in SetupLabels /\ r \notin dead) \/ pc'[r] = "pause"
            /\ pc'[r] \in {"install", "enter", "pause"}
        BY <1>1, <3>2 DEF Unblock, Install, EnterPause, At, SetupLabels, Goto, TypeInv, ControlOK, PcOK
      <4> QED BY <1>3, <4>1, ProcessSets DEF SteadyUpdaters, AfterPause, UpdaterLabels
    <3> QED BY <1>7, <3>1, <3>2 DEF Receiver, DieOfDefault, Die, HandledOutsidePause
  <2>4. ASSUME NEW u \in Updaters \ Slow, Delivered(SignalOf(u)), pc[u] # "unborn", u \notin dead
        PROVE  pending'[u] = pending[u] \/ pc[u] \in AfterPause
    <3>1. \A v \in Receivers : v # r => pending'[v] = pending[v]
      BY DEF Receiver, Unblock, DieOfDefault, Die, Install, EnterPause, PauseReturns, HandledOutsidePause,
             TypeInv, ControlOK, PendingOK
    <3>2. CASE u = r /\ HandledOutsidePause(r)
      <4>1. Started
        BY <2>4, CountNumbers, UpdaterSets DEF HeardInv, StartOK, Delivered
      <4>2. pc[u] \in UpdaterLabels
        BY <2>4, <4>1 DEF HeardInv, StartOK
      <4> QED BY <3>2, <4>2, UpdaterPlaces DEF HandledOutsidePause
    <3>3. CASE u = r /\ (Unblock(r) \/ Install(r) \/ EnterPause(r) \/ DieOfDefault(r))
      BY <3>3 DEF Unblock, Install, EnterPause, DieOfDefault, Die
    <3> QED BY <1>7, <3>1, <3>2, <3>3, UpdaterPlaces DEF Receiver
  <2>5. \A u \in Updaters :
          pc'[u] # "unborn" /\ u \notin dead' => pc[u] # "unborn" /\ u \notin dead
    BY <1>2, <1>3, UpdaterPlaces
  <2>6. Heard(V)'
    BY <1>4, <1>5, <2>1, <2>3, <2>4, <2>5, HeardKept, UpdaterSets
  <2> QED BY <1>5, <2>2, <2>3, <2>6, SteadyStart DEF HeardInv
<1> QED BY <1>6, <1>7

\* The rounds at kill, when generator g goes to l in a round of c.
LEMMA AtKillMove ==
  ASSUME TypeInv, NEW g \in Generators, NEW l, Goto(g, l),
         NEW c, choice' = [choice EXCEPT ![g] = c], NEW s \in Signals
  PROVE  AtKill(s)' = AtKill(s) + (IF l = "kill" /\ c = s THEN 1 ELSE 0)
                        - (IF pc[g] = "kill" /\ choice[g] = s THEN 1 ELSE 0)
<1>1. pc'[g] = l /\ \A h \in Generators : h # g => pc'[h] = pc[h]
  BY ProcessSets DEF Goto, TypeInv, ControlOK, PcOK
<1>2. choice'[g] = c /\ \A h \in Generators : h # g => choice'[h] = choice[h]
  BY DEF TypeInv, DataOK
<1>3. Cardinality(Sending(s, {"kill"})') =
        Cardinality(Sending(s, {"kill"}))
          + (IF pc'[g] \in {"kill"} /\ choice'[g] = s THEN 1 ELSE 0)
          - (IF pc[g] \in {"kill"} /\ choice[g] = s THEN 1 ELSE 0)
  BY <1>1, <1>2, SendingMove
<1>4. (pc'[g] \in {"kill"} <=> l = "kill") /\ (pc[g] \in {"kill"} <=> pc[g] = "kill")
  BY <1>1
<1> QED BY <1>2, <1>3, <1>4 DEF AtKill

\* Up to the kill no signal is delivered; the kill reaches every updater of its
\* signal that was ready when the generator was forked.
LEMMA GeneratorHeardInv ==
  ASSUME TypeInv, LockInv, HeardInv, NEW g \in Generators, Choose(g) \/ SendsRound(g)
  PROVE  HeardInv'
<1>1. g \in Processes /\ g \in Children /\ g \notin Updaters /\ g # Main
  BY ProcessSets
<1>2. UNCHANGED <<dead, taken, next, unforked>> /\ pc[g] # "unborn" /\ Started
  BY DEF Choose, SendsRound, LockSent, CountSent, Kill, At, mainVars, histories, Started
<1>3. /\ \A q \in Processes : pc'[q] = "unborn" <=> pc[q] = "unborn"
      /\ \A q \in Processes : q # g => pc'[q] = pc[q]
  <2>1. \E l : Goto(g, l) /\ l # "unborn" /\ pc[g] # "unborn"
    BY <1>2 DEF Choose, SendsRound, LockSent, CountSent, Kill
  <2> QED BY <1>1, <2>1, GoingOn
<1>4. Steady /\ SteadyUpdaters
  BY <1>1, <1>2, <1>3, ProcessSets DEF Steady, SteadyUpdaters
<1>5. StartOK' /\ UnforkedOK'
  BY <1>4, SteadyStart DEF HeardInv
<1>6. PICK V \in SUBSET Updaters : Heard(V)
  BY DEF HeardInv
<1>7. \A u \in Updaters : pc'[u] = pc[u]
  BY <1>1, <1>3, ProcessSets
<1>8. choice' = choice => choice' = [choice EXCEPT ![g] = choice[g]]
  BY DEF TypeInv, DataOK
<1>9. CASE Choose(g) \/ LockSent(g) \/ CountSent(g)
  <2>1. pending' = pending
    BY <1>9 DEF Choose, LockSent, CountSent
  <2>2. ASSUME NEW s \in Signals, Delivered(s)'
        PROVE  Delivered(s)
    <3>1. CASE Choose(g)
      <4>1. PICK c \in Signals : choice' = [choice EXCEPT ![g] = c]
        BY <3>1 DEF Choose
      <4>2. Goto(g, "lockSent") /\ pc[g] = "choose" /\ sent' = sent
        BY <3>1 DEF Choose, At, counters
      <4>3. AtKill(s)' = AtKill(s) + (IF "lockSent" = "kill" /\ c = s THEN 1 ELSE 0)
                           - (IF pc[g] = "kill" /\ choice[g] = s THEN 1 ELSE 0)
        BY <4>1, <4>2, AtKillMove
      <4>4. AtKill(s)' = AtKill(s)
        BY <4>2, <4>3, CountNumbers
      <4> QED BY <2>2, <4>2, <4>4 DEF Delivered
    <3>2. CASE LockSent(g)
      <4>1. Goto(g, "countSent") /\ pc[g] = "lockSent" /\ UNCHANGED <<sent, choice>>
        BY <3>2 DEF LockSent, At
      <4>2. AtKill(s)' = AtKill(s) + (IF "countSent" = "kill" /\ choice[g] = s THEN 1 ELSE 0)
                           - (IF pc[g] = "kill" /\ choice[g] = s THEN 1 ELSE 0)
        BY <1>8, <4>1, AtKillMove
      <4>3. AtKill(s)' = AtKill(s)
        BY <4>1, <4>2, CountNumbers
      <4> QED BY <2>2, <4>1, <4>3 DEF Delivered
    <3>3. CASE CountSent(g)
      <4>1. Goto(g, "kill") /\ pc[g] = "countSent" /\ choice' = choice /\ choice[g] \in Signals
        BY <3>3 DEF CountSent, At, TypeInv, ControlOK, ChoiceOK, Outside
      <4>2. AtKill(s)' = AtKill(s) + (IF "kill" = "kill" /\ choice[g] = s THEN 1 ELSE 0)
                           - (IF pc[g] = "kill" /\ choice[g] = s THEN 1 ELSE 0)
        BY <1>8, <4>1, AtKillMove
      <4>3. sent' = [sent EXCEPT ![choice[g]] = tmp[g] + 1] /\ tmp[g] = sent[choice[g]]
        BY <3>3, <4>1 DEF CountSent, LockInv, LoadedOK
      <4>4. sent'[s] = sent[s] + (IF choice[g] = s THEN 1 ELSE 0)
        BY <4>1, <4>3, CountNumbers DEF TypeInv, DataOK
      <4>5. AtKill(s)' = AtKill(s) + (IF choice[g] = s THEN 1 ELSE 0)
        BY <4>1, <4>2, CountNumbers
      <4> QED BY <2>2, <4>4, <4>5, CountNumbers DEF Delivered
    <3> QED BY <1>9, <3>1, <3>2, <3>3
  <2>3. Heard(V)'
    BY <1>2, <1>6, <1>7, <2>1, <2>2, HeardKept, UpdaterSets
  <2> QED BY <1>5, <1>6, <2>3 DEF HeardInv
<1>10. CASE Kill(g)
  <2>1. /\ Goto(g, "choose") /\ pc[g] = "kill" /\ choice[g] \in Signals /\ sent' = sent
        /\ choice' = [choice EXCEPT ![g] = NoSignal]
    BY <1>10 DEF Kill, At, counters, TypeInv, ControlOK, ChoiceOK, Outside
  <2>2. ASSUME NEW s \in Signals, s # choice[g], Delivered(s)'
        PROVE  Delivered(s)
    <3>1. AtKill(s)' = AtKill(s) + (IF "choose" = "kill" /\ NoSignal = s THEN 1 ELSE 0)
                         - (IF pc[g] = "kill" /\ choice[g] = s THEN 1 ELSE 0)
      BY <2>1, AtKillMove
    <3>2. AtKill(s)' = AtKill(s)
      BY <2>2, <3>1, CountNumbers
    <3> QED BY <2>1, <2>2, <3>2 DEF Delivered
  <2>3. ASSUME NEW u \in Updaters \ Slow, pc[u] # "unborn", u \notin dead, SignalOf(u) = choice[g]
        PROVE  pending'[u] # {}
    <3>1. pc[u] \in UpdaterLabels
      BY <1>2, <2>3 DEF HeardInv, StartOK
    <3>2. Alive(u) /\ u \in ReceiversOf(choice[g]) /\ u \in Receivers
      BY <2>1, <2>3, <3>1, UpdaterSets, ProcessSets DEF Alive, UpdaterLabels, ReceiversOf
    <3> QED BY <1>10, <3>2 DEF Kill
  <2>4. ASSUME NEW u \in Updaters, SignalOf(u) # choice[g]
        PROVE  pending'[u] = pending[u]
    <3>1. u \in Receivers /\ u \notin ReceiversOf(choice[g])
      BY <2>1, <2>4, UpdaterSets, ProcessSets DEF ReceiversOf
    <3> QED BY <1>10, <3>1 DEF Kill
  <2>5. ASSUME NEW u \in Updaters \ Slow, Delivered(SignalOf(u))', pc[u] # "unborn", u \notin dead
        PROVE  u \in V \/ pending'[u] # {}
    <3>1. CASE SignalOf(u) = choice[g]
      BY <2>3, <2>5, <3>1
    <3>2. CASE SignalOf(u) # choice[g]
      BY <1>6, <2>2, <2>4, <2>5, <3>2, UpdaterSets DEF Heard
    <3> QED BY <3>1, <3>2
  <2>6. Heard(V)'
    BY <1>2, <1>6, <1>7, <2>5 DEF Heard
  <2> QED BY <1>5, <1>6, <2>6 DEF HeardInv
<1> QED BY <1>9, <1>10 DEF SendsRound

\* An updater that counts has been noted when its pause ended.
LEMMA UpdaterHeardInv ==
  ASSUME TypeInv, HeardInv, NEW u \in Updaters, SignalUpdater(u)
  PROVE  HeardInv'
<1>1. u \in Processes /\ u # Main /\ u \notin Generators
  BY ProcessSets
<1>2. /\ UNCHANGED <<dead, pending, taken, next, unforked, choice, sent>>
      /\ pc[u] \in AfterPause
  BY DEF SignalUpdater, LockReceived, CountReceived, At, mainVars, histories, AfterPause
<1>3. /\ \A q \in Processes : pc'[q] = "unborn" <=> pc[q] = "unborn"
      /\ pc'[u] \in UpdaterLabels /\ \A q \in Processes : q # u => pc'[q] = pc[q]
  <2>1. \E l : Goto(u, l) /\ l \in UpdaterLabels /\ l # "unborn" /\ pc[u] # "unborn"
    BY DEF SignalUpdater, LockReceived, CountReceived, At, UpdaterLabels
  <2> QED BY <1>1, <2>1, GoingOn
<1>4. Steady /\ SteadyUpdaters
  BY <1>1, <1>2, <1>3, ProcessSets DEF Steady, SteadyUpdaters
<1>5. PICK V \in SUBSET Updaters : Heard(V)
  BY DEF HeardInv
<1>6. \A s \in Signals : Delivered(s)' = Delivered(s)
  <2>1. \A g \in Generators : pc'[g] = pc[g]
    BY <1>1, <1>3, ProcessSets
  <2> QED BY <1>2, <2>1, DeliveredSame
<1>7. Heard(V)'
  <2>1. \A v \in Updaters : /\ pc'[v] \in AfterPause => pc[v] \in AfterPause
                            /\ pc'[v] # "unborn" => pc[v] # "unborn"
    BY <1>2, <1>3, ProcessSets
  <2> QED BY <1>2, <1>5, <1>6, <2>1, HeardKept, UpdaterSets
<1> QED BY <1>4, <1>5, <1>7, SteadyStart DEF HeardInv

LEMMA NextHeardInv == TypeInv /\ LockInv /\ HeardInv /\ [Next]_vars => HeardInv'
<1>1. HeardInv /\ UNCHANGED vars => HeardInv'
  BY DEF vars, counters, histories, mainVars, HeardInv, StartOK, UnforkedOK, Started, Heard,
         Delivered, AtKill, Sending
<1> QED
  BY <1>1, ControlHeardInv, ForkHeardInv, ReceiverHeardInv, GeneratorHeardInv, UpdaterHeardInv
  DEF Next, MainProcess

\* A signal that comes while its updater is not in pause() is not counted, but
\* then an earlier one was: when a signal was sent and nothing of it is under
\* way, both updaters, if they were ready in time and live, have counted one.
THEOREM BothUpdatersHaveCounted == Spec => []BothUpdatersCount
<1>1. Init => HeardInv
  BY InitHeardInv
<1>2. ProcessInv /\ HeardInv /\ [Next]_vars => HeardInv'
  BY NextHeardInv DEF ProcessInv
<1>3. Spec => []HeardInv
  BY <1>1, <1>2, ProcessInvariant, PTL DEF Spec
<1>4. ASSUME ProcessInv, HeardInv, NEW s \in Signals, Quiet(s), sent[s] > 0
      PROVE  received[s] >= 2
  <2>1. PICK V \in SUBSET Updaters : Heard(V)
    BY <1>4 DEF HeardInv
  <2>2. Delivered(s)
    <3>1. AtKill(s) = 0
      BY <1>4, FS_EmptySet DEF Quiet, AtKill
    <3> QED BY <1>4, <3>1 DEF Delivered
  <2>3. UpdatersOf(s) \subseteq V
    BY <1>4, <2>1, <2>2, UpdaterSets DEF Quiet, At, Heard
  <2>4. V \cap UpdatersOf(s) = UpdatersOf(s)
    BY <2>3
  <2>5. taken[s] >= 2 /\ TypeInv /\ CountInv
    BY <1>4, <2>1, <2>4, UpdaterSets, CountNumbers DEF Heard, ProcessInv
  <2>6. Counting(s) = {}
    BY <1>4 DEF Quiet, At, Counting
  <2>7. received[s] + Cardinality(Counting(s)) = taken[s]
    BY <2>5 DEF CountInv, NoLostUpdates
  <2>8. Cardinality(Counting(s)) = 0
    BY <2>6, FS_EmptySet
  <2> QED BY <2>5, <2>7, <2>8, CountNumbers
<1>5. ProcessInv /\ HeardInv => BothUpdatersCount
  BY <1>4 DEF BothUpdatersCount
<1> QED BY <1>3, <1>5, ProcessInvariant, PTL
=============================================================================
