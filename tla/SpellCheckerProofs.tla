------------------------- MODULE SpellCheckerProofs -------------------------
(***************************************************************************)
(* The spell checker, for every number of workers, cells, clients, words   *)
(* and nodes.  Its threads and queues are the echo server's, so the        *)
(* inductive invariants are those of EchoServerProofs and                  *)
(* EchoServerQueueProofs, and only the three steps of its own are new: a   *)
(* word, a goodbye that signals nobody, and a signal after every word.     *)
(***************************************************************************)
EXTENDS SpellChecker, EchoServerQueueProofs

\* A worker with a client has one that was accepted.
LEMMA ServedClient ==
  ASSUME TypeInv, NEW w \in Workers, pc[w] \in ServingLabels
  PROVE  client_socket[w] \in Clients
  BY BoundsAssumption DEF TypeInv, TypeOK, OnlyAcceptedSockets, Clients

\* A word of a client, on its way from recv to the log queue, keeps types,
\* pointers and sockets.
LEMMA CheckWordTypeInv ==
  ASSUME TypeInv, NEW w \in Workers, NEW line \in Typed \cup {<<>>}, CheckWord(w, line)
  PROVE  TypeInv'
<1> DEFINE c == client_socket[w]
           text == [line |-> line, result |-> Result(line)]
<1> USE ThreadsAreApart
<1>0. TypeOK /\ PcOK(pc)
  BY DEF TypeInv, TypeOK
<1>1. /\ pc[w] = "serve" /\ Goto(w, "lockLog")
      /\ sent' = [sent EXCEPT ![c] = @ + 1]
      /\ word' = [word EXCEPT ![w] = [client |-> c, no |-> sent'[c], text |-> text]]
      /\ UNCHANGED <<locks, queues, job, client_socket, accepted, conn, log_file, halted>>
  BY DEF CheckWord, Receives, At
<1>2. c \in Clients
  BY <1>1, ServedClient DEF ServingLabels
<1>3. PcOK(pc') /\ KeepsHolders(pc, pc')
  BY <1>0, <1>1, GotoKeeps DEF WorkerLabels, ServingLabels
<1>4. sent' \in [Clients -> Nat]
  BY <1>0, <1>1, <1>2 DEF TypeOK
<1>5. [client |-> c, no |-> sent'[c], text |-> text] \in Word
  <2>1. text \in Texts
    BY TextsAssumption DEF EntryTexts, Result
  <2>2. sent'[c] \in Nat
    BY <1>2, <1>4
  <2> HIDE DEF text, c
  <2> QED BY <1>2, <2>1, <2>2 DEF Word
<1>6. word' \in [Workers \cup {Logger} -> Word]
  BY <1>0, <1>1, <1>5 DEF TypeOK
<1>7. TypeOK'
  BY <1>0, <1>1, <1>3, <1>4, <1>6 DEF TypeOK, HeapOK, QueueOK, locks, queues
<1>8. OnlyAcceptedSockets'
  BY <1>1, <1>3 DEF TypeInv, OnlyAcceptedSockets, KeepsHolders, queues
<1> QED BY <1>7, <1>8 DEF TypeInv

\* The goodbye of a client: the worker closes the connection.
LEMMA CloseClientTypeInv ==
  ASSUME TypeInv, NEW w \in Workers, CloseClient(w)
  PROVE  TypeInv'
<1> USE ThreadsAreApart
<1>0. TypeOK /\ PcOK(pc)
  BY DEF TypeInv, TypeOK
<1>1. /\ pc[w] = "serve" /\ Goto(w, "lockJobs")
      /\ UNCHANGED <<locks, queues, locals, accepted, sent, log_file, halted>>
  BY DEF CloseClient, At
<1>2. PcOK(pc') /\ KeepsHolders(pc, pc')
  BY <1>0, <1>1, GotoKeeps DEF WorkerLabels, ServingLabels
<1>3. conn' \in [Clients -> {"none", "open", "hungup", "closed"}]
  BY <1>0 DEF CloseClient, TypeOK
<1>4. TypeOK'
  BY <1>0, <1>1, <1>2, <1>3 DEF TypeOK, HeapOK, QueueOK, locks, queues, locals
<1>5. OnlyAcceptedSockets'
  BY <1>1, <1>2 DEF TypeInv, OnlyAcceptedSockets, KeepsHolders, queues, locals
<1> QED BY <1>4, <1>5 DEF TypeInv

\* The signal for a word in the log queue.
LEMMA WordLoggedTypeInv ==
  ASSUME TypeInv, NEW w \in Workers, WordLogged(w)
  PROVE  TypeInv'
<1> USE ThreadsAreApart
<1>0. TypeOK /\ PcOK(pc)
  BY DEF TypeInv, TypeOK
<1>1. pc[w] = "signalCond3" /\ Signal(w, "waitCond3", "serve")
  BY DEF WordLogged, At
<1>2. PcOK(pc') /\ KeepsHolders(pc, pc')
  BY <1>0, <1>1, SignalKeeps DEF WorkerLabels, ServingLabels, WaitLabels
<1> QED BY <1>0, <1>2, PcStepTypeInv DEF WordLogged, TypeOK, locks

-----------------------------------------------------------------------------
\* A word and a goodbye are nothing to either queue; in particular no thread
\* waits for a signal that the goodbye does not send.
LEMMA ServeSyncInv ==
  ASSUME SyncInv, NEW w \in Workers,
         CloseClient(w) \/ \E line \in Typed \cup {<<>>} : CheckWord(w, line)
  PROVE  SyncInv'
<1>0. TypeInv /\ PcOK(pc) /\ w \in Threads
  BY DEF SyncInv, TypeInv, TypeOK, Threads
<1>1. TypeInv'
  BY <1>0, CheckWordTypeInv, CloseClientTypeInv
<1>2. ASSUME NEW l \in {"lockLog", "lockJobs"}, pc[w] = "serve", Goto(w, l),
             UNCHANGED <<job_queue, job_queue_lock, log_queue, log_queue_lock>>
      PROVE  SyncInv'
  <2>1. SameAt(pc, pc', JobLabels) /\ SameAt(pc, pc', LogLabels)
    BY <1>0, <1>2, GotoSame DEF JobLabels, LogLabels
  <2> QED BY <1>1, <1>2, <2>1, JobSyncKept, LogSyncKept DEF SyncInv
<1>3. CASE CloseClient(w)
  BY <1>2, <1>3 DEF CloseClient, At, queues, locks
<1>4. ASSUME NEW line \in Typed \cup {<<>>}, CheckWord(w, line) PROVE SyncInv'
  BY <1>2, <1>4 DEF CheckWord, Receives, At, queues, locks
<1> QED BY <1>3, <1>4

\* The signal behind every word either finds nobody asleep, or wakes the log
\* thread, which is then no longer to be accounted for.
LEMMA WordLoggedSyncInv ==
  ASSUME SyncInv, NEW w \in Workers, WordLogged(w)
  PROVE  SyncInv'
<1>0. /\ TypeInv /\ JobSync /\ LogSync /\ PcOK(pc) /\ w \in Threads
      /\ cellAmount \in Nat \ {0} /\ log_queue.queue_size \in Int
  BY CellsAssumption DEF SyncInv, TypeInv, TypeOK, QueueOK, Threads
<1>1. TypeInv' /\ PcOK(pc')
  BY <1>0, WordLoggedTypeInv DEF TypeInv, TypeOK
<1>2. /\ pc[w] = "signalCond3" /\ Signal(w, "waitCond3", "serve")
      /\ UNCHANGED <<job_queue, job_queue_lock, log_queue, log_queue_lock>>
  BY DEF WordLogged, At, queues, locks
<1>3. JobSync'
  <2>1. SameAt(pc, pc', JobLabels)
    BY <1>0, <1>2, SignalSame DEF JobLabels, Woken, WaitLabels
  <2> QED BY <1>0, <1>2, <2>1, JobSyncKept
<1>4. LogHeld'
  <2>1. SameAt(pc, pc', {"pushLog", "popLog"})
    BY <1>0, <1>2, SignalSame DEF Woken, WaitLabels
  <2> QED BY <1>0, <1>2, <2>1, HeldSame DEF LogSync, LogHeld
<1>nat. \A labels : Count(pc, labels) \in Nat
  BY CountType
<1> DEFINE Moved(a, l) ==
             \A labels : Count(pc', labels) = Count(pc, labels) + Bit(l, labels) - Bit(a, labels)
           MovedAndWoken(a, l, x) ==
             \A labels : Count(pc', labels)
               = Count(pc, labels) + Bit(Woken(x), labels) - Bit(x, labels) + Bit(l, labels) - Bit(a, labels)
<1>5. \/ Count(pc, {"waitCond3"}) = 0 /\ Moved("signalCond3", "serve")
      \/ Count(pc, {"waitCond3"}) > 0 /\ MovedAndWoken("signalCond3", "serve", "waitCond3")
  BY <1>0, <1>2, CountSignal DEF WaitLabels
<1>6. /\ \/ /\ Count(pc, {"waitCond3"}) = 0
            /\ Count(pc', {"waitCond3"}) = Count(pc, {"waitCond3"})
         \/ /\ Count(pc, {"waitCond3"}) > 0
            /\ Count(pc', {"waitCond3"}) = Count(pc, {"waitCond3"}) - 1
      /\ Count(pc', {"signalCond3"}) = Count(pc, {"signalCond3"}) - 1
      /\ Count(pc', {"waitCond4"}) = Count(pc, {"waitCond4"})
      /\ Count(pc', {"wokenCond4", "pushLog"}) = Count(pc, {"wokenCond4", "pushLog"})
      /\ Count(pc', {"signalCond4"}) = Count(pc, {"signalCond4"})
  BY ONLY <1>nat, <1>5 DEF Bit, Woken
<1>7. EntriesAwaited' /\ CellsAwaited' /\ LogBounded'
  BY <1>0, <1>2, <1>6, LogCounts DEF LogSync, EntriesAwaited, CellsAwaited, LogBounded
<1> QED BY <1>1, <1>3, <1>4, <1>7 DEF SyncInv, LogSync

\* The spell checker dies of its dictionary: written past the end of the array,
\* or looked up behind its last word.
DictionaryDeath ==
  DictionaryOverflows
  \/ \E w \in Workers : \E line \in Typed \cup {<<>>} : CheckWordFaults(w, line)

LEMMA DictionaryDeathHalts ==
  ASSUME DictionaryDeath
  PROVE  /\ \E how \in {"segv", "overwritten"} : Halt(how)
         /\ UNCHANGED <<pc, queues, locks>>
  BY DEF DictionaryDeath, DictionaryOverflows, CheckWordFaults, Halt

LEMMA DictionaryDeathSyncInv ==
  ASSUME SyncInv, DictionaryDeath
  PROVE  SyncInv'
<1>1. PICK how \in {"segv", "overwritten"} : Halt(how)
  BY DictionaryDeathHalts
<1>2. UNCHANGED <<pc, queues, locks>>
  BY DictionaryDeathHalts
<1>3. TypeInv'
  BY <1>1, <1>2, HaltTypeInv DEF SyncInv, queues
<1>4. SameAt(pc, pc', JobLabels) /\ SameAt(pc, pc', LogLabels)
  BY <1>2 DEF SameAt
<1> QED BY <1>2, <1>3, <1>4, JobSyncKept, LogSyncKept DEF SyncInv, queues, locks

\* Every other step of the spell checker is one of the echo server.
LEMMA SpellNextSyncInv == SyncInv /\ [SpellNext]_spell_vars => SyncInv'
<1> SUFFICES ASSUME SyncInv, [SpellNext]_spell_vars PROVE SyncInv'
  OBVIOUS
<1>1. ASSUME NEW w \in Workers, worker_thread(w) PROVE SyncInv'
  <2>1. CASE TakeJob(w) \/ LogWord(w)
    <3>1. Worker(w)
      BY <2>1 DEF TakeJob, LogWord, Worker
    <3> QED BY <1>1, <3>1, NextSyncInv DEF Next
  <2>2. CASE CloseClient(w) \/ \E line \in Typed \cup {<<>>} : CheckWord(w, line)
    BY <2>2, ServeSyncInv
  <2>3. CASE WordLogged(w)
    BY <2>3, WordLoggedSyncInv
  <2>4. CASE \E line \in Typed \cup {<<>>} : CheckWordFaults(w, line)
    BY <2>4, DictionaryDeathSyncInv DEF DictionaryDeath
  <2> QED BY <1>1, <2>1, <2>2, <2>3, <2>4 DEF worker_thread
<1>2. CASE ServeConnections \/ WriteResults \/ UNCHANGED vars
  BY <1>2, NextSyncInv DEF ServeConnections, WriteResults, Next
<1>3. CASE \/ \E t \in SpuriousWakeups : SpuriousWakeup(t)
           \/ MainBrokenPipe \/ \E w \in Workers : WorkerBrokenPipe(w)
           \/ \E c \in Hangups : Hangup(c)
  BY <1>3, NextSyncInv DEF Next
<1>4. CASE DictionaryOverflows
  BY <1>4, DictionaryDeathSyncInv DEF DictionaryDeath
<1> QED BY <1>1, <1>2, <1>3, <1>4 DEF SpellNext, SpellStep, spell_vars

LEMMA SpellInitSyncInv == SpellInit => SyncInv
  BY InitSyncInv DEF SpellInit

-----------------------------------------------------------------------------
\* Every variable of the spell checker keeps its type, every pointer is one
\* that malloc returned, and every descriptor one that accept returned, although
\* its pop frees nodes that are still linked, like the echo server's: until a
\* text, a FILE or a dictionary too long overwrites what is in use.
THEOREM SpellTypes == SpellSpec => [](TypeOK /\ SocketsAreAccepted)
<1>1. SyncInv => TypeOK /\ SocketsAreAccepted
  BY DEF SyncInv, TypeInv, SocketsAreAccepted
<1> QED BY <1>1, SpellInitSyncInv, SpellNextSyncInv, PTL DEF SpellSpec

\* At most one thread at a time changes the job queue, and one the log queue
\* (spellchecker.c, lines 275-283 and 338-342).
THEOREM SpellMutualExclusion == SpellSpec => []OneThreadPerQueue
<1>1. SyncInv => OneThreadPerQueue
  BY DEF SyncInv, JobSync, LogSync, JobsHeld, LogHeld, Held, OneThreadPerQueue, ThreadsAt
<1> QED BY <1>1, SpellInitSyncInv, SpellNextSyncInv, PTL DEF SpellSpec

\* No wakeup is lost at either queue, although a worker that is told goodbye
\* goes back to the job queue without a signal to the log thread (lines 303-306).
THEOREM SpellWakeups == SpellSpec => [](NoLostJobWakeup /\ NoLostLogWakeup)
<1>1. SyncInv => NoLostJobWakeup /\ NoLostLogWakeup
  BY CountIsThreadsAt
     DEF SyncInv, JobSync, JobsAwaited, RoomAwaited, NoLostJobWakeup,
         LogSync, EntriesAwaited, CellsAwaited, NoLostLogWakeup
<1> QED BY <1>1, SpellInitSyncInv, SpellNextSyncInv, PTL DEF SpellSpec

\* The queues stay bounded although each test for a full one is made once.
THEOREM SpellQueuesBounded == SpellSpec => []BoundedOvershoot
<1>1. SyncInv => BoundedOvershoot
  <2> SUFFICES ASSUME SyncInv PROVE BoundedOvershoot
    OBVIOUS
  <2>1. /\ PcOK(pc) /\ job_queue.queue_size \in Int /\ log_queue.queue_size \in Int
        /\ cellAmount \in Nat
    BY CellsAssumption DEF SyncInv, TypeInv, TypeOK, QueueOK
  <2> QED BY <2>1, JobCounts, LogCounts
          DEF SyncInv, JobSync, LogSync, JobsBounded, LogBounded, BoundedOvershoot
<1> QED BY <1>1, SpellInitSyncInv, SpellNextSyncInv, PTL DEF SpellSpec

-----------------------------------------------------------------------------
(***************************************************************************)
(* The words on their way to the log file.                                 *)
(***************************************************************************)
\* What a worker says of a word, with the dictionary read at the start.
CheckedTexts == {[line |-> line, result |-> Result(line)] : line \in Typed \cup {<<>>}}

CheckedWord == [client : Clients, no : Nat, text : CheckedTexts]

LEMMA CheckedWordStays == UNCHANGED dictionary => CheckedWord' = CheckedWord
  BY DEF CheckedWord, CheckedTexts, Result, Found, open_dictionary

\* Until memory is handed out twice, the queues are in order and hold nothing
\* but checked words.
WordsInv == QueueInv /\ (~recycled => WordsFrom(CheckedWord))

\* A word the look-up comes to is found: it lost the same two bytes when the
\* dictionary was read (line 138) as when it came from the client (line 309).
LEMMA KnownWordIsCorrect ==
  ASSUME NEW line \in WordsLookedAt
  PROVE  Result(line) = "CORRECT"
  BY DEF Result, Found, open_dictionary, WordsLookedAt

LEMMA CheckWordWords ==
  ASSUME TypeInv, OnePlace, InTurn, NEW w \in Workers, NEW line \in Typed \cup {<<>>}, CheckWord(w, line),
         UNCHANGED dictionary
  PROVE  /\ OnePlace' /\ InTurn' /\ (Lists => Lists')
         /\ WordsFrom(CheckedWord) => WordsFrom(CheckedWord)'
         /\ Recycles
<1> DEFINE c == client_socket[w]
           t == [client |-> c, no |-> sent'[c], text |-> [line |-> line, result |-> Result(line)]]
<1>1. Composes(w, t)
  BY DEF CheckWord, Receives, Composes
<1>2. c \in Clients /\ sent \in [Clients -> Nat]
  BY ServedAlone DEF CheckWord, Receives, At, ServingLabels, TypeInv, TypeOK
<1>3. t.client = c /\ t.no = sent[c] + 1
  BY <1>1, <1>2 DEF Composes
<1>4. t \in CheckedWord
  <2>1. [line |-> line, result |-> Result(line)] \in CheckedTexts
    BY DEF CheckedTexts
  <2>2. sent'[c] \in Nat
    BY <1>2, <1>3
  <2> HIDE DEF c
  <2> QED BY <1>2, <2>1, <2>2 DEF CheckedWord
<1> HIDE DEF t
<1>5. (Lists => Lists') /\ OnePlace'
  BY <1>1, ComposeMoves
<1>6. InTurn'
  BY <1>1, <1>3, ComposeStep
<1>7. ASSUME WordsFrom(CheckedWord) PROVE WordsFrom(CheckedWord)'
  <2>1. /\ \A v \in Workers \ {w} : Unmoved(v) /\ Role(v, pc'[v]) = Role(v, pc[v])
        /\ word'[w] = t /\ Entries' = Entries
    BY <1>1, ComposeMoves
  <2>2. \A v \in Workers : pc'[v] \in ComposedLabels => word'[v] \in CheckedWord
    BY <1>4, <1>7, <2>1, WorkerRoles DEF Unmoved, WordsFrom
  <2>3. \A i \in 1 .. Len(Entries') : Entries'[i] \in CheckedWord
    BY <1>7, <2>1 DEF WordsFrom
  <2>4. CheckedWord' = CheckedWord
    BY CheckedWordStays
  <2> QED BY <2>2, <2>3, <2>4 DEF WordsFrom
<1> QED BY <1>5, <1>6, <1>7 DEF CheckWord, Recycles, queues

\* The goodbye: nothing the client sent is lost with its connection.
LEMMA CloseClientWords ==
  ASSUME TypeInv, OnePlace, NEW w \in Workers, CloseClient(w)
  PROVE  /\ OnePlace' /\ (InTurn => InTurn') /\ (Lists => Lists')
         /\ \A S : WordsFrom(S) => WordsFrom(S)'
         /\ Recycles
<1>1. w \in Threads /\ PcOK(pc) /\ pc[w] \in {"serve", "signalCond3"} /\ Goto(w, "lockJobs")
  BY DEF CloseClient, At, Threads, TypeInv, TypeOK
<1>2. OnlyMoves(w, "lockJobs")
  BY <1>1, GotoMoves
<1>3. /\ conn' = [conn EXCEPT ![client_socket[w]] = "closed"]
      /\ UNCHANGED <<queues, locals, accepted, sent, log_file>>
  BY DEF CloseClient
<1> QED BY <1>1, <1>2, <1>3, CloseStep DEF Recycles, queues

LEMMA WordLoggedWords ==
  ASSUME TypeInv, NEW w \in Workers, WordLogged(w)
  PROVE  /\ (OnePlace => OnePlace') /\ (InTurn => InTurn') /\ (Lists => Lists')
         /\ \A S : WordsFrom(S) => WordsFrom(S)'
         /\ Recycles
<1>1. /\ w \in Threads /\ PcOK(pc) /\ pc[w] = "signalCond3" /\ pc[w] # "waitCond3"
      /\ "waitCond3" \in WaitLabels /\ Signal(w, "waitCond3", "serve")
  BY DEF WordLogged, At, Threads, TypeInv, TypeOK, WaitLabels
<1>2. OnlyMoves(w, "serve")
  BY <1>1, SignalMoves
<1>3. UNCHANGED <<queues, locals, peers, log_file>>
  BY DEF WordLogged
<1> QED BY <1>1, <1>2, <1>3, GoOnStep DEF Recycles, queues

LEMMA DictionaryDeathKeeps ==
  ASSUME DictionaryDeath
  PROVE  AllKept /\ Recycles
<1>1. PICK how \in {"segv", "overwritten"} : Halt(how)
  BY DictionaryDeathHalts
<1> QED BY <1>1, DictionaryDeathHalts, HaltKeeps DEF Recycles, queues

LEMMA SpellNextWordsInv == SyncInv /\ WordsInv /\ [SpellNext]_spell_vars => WordsInv'
<1> SUFFICES ASSUME SyncInv, WordsInv, [SpellNext]_spell_vars PROVE WordsInv'
  OBVIOUS
<1> DEFINE Ordered == Lists /\ OnePlace /\ InTurn /\ WordsFrom(CheckedWord)
<1>0. TypeInv /\ TypeInv' /\ (~ recycled => Ordered)
  BY SpellNextSyncInv DEF SyncInv, WordsInv, QueueInv
<1>d. /\ UNCHANGED dictionary
      /\ CheckedWord' = CheckedWord
  BY CheckedWordStays DEF SpellNext, spell_vars
<1>1. ASSUME NEW w \in Workers, worker_thread(w) PROVE Recycles /\ (Ordered /\ ~ recycled' => Ordered')
  <2>0. CheckedWord' = CheckedWord
    BY <1>d
  <2>1. CASE TakeJob(w) \/ LogWord(w)
    <3>1. \/ WorkerLocksJobs(w) \/ WorkerReacquiresJobs(w) \/ PopJob(w) \/ PopJobAborts(w)
          \/ SignalCond2(w) \/ ReadSocket(w) \/ ReadSocketFaults(w)
          \/ WorkerLocksLog(w) \/ WorkerReacquiresLog(w) \/ PushLog(w) \/ PushLogDies(w)
      BY <2>1 DEF TakeJob, LogWord
    <3>2. Recycles
      BY <3>1, WorkerRecycles
    <3>3. Lists /\ OnePlace /\ InTurn /\ ~ recycled' => AllKept
      BY <1>0, <3>1, WorkerSteps
    <3> QED BY <2>0, <3>2, <3>3 DEF AllKept, OrderKept
  <2>2. ASSUME NEW line \in Typed \cup {<<>>}, CheckWord(w, line)
        PROVE  Recycles /\ (Ordered => Ordered')
    <3>1. Recycles
      BY <2>2 DEF CheckWord, Recycles, queues
    <3> QED BY <1>0, <1>d, <2>2, <3>1, CheckWordWords
  <2>3. CASE CloseClient(w)
    <3>1. Recycles
      BY <2>3 DEF CloseClient, Recycles, queues
    <3> QED BY <1>0, <2>0, <2>3, <3>1, CloseClientWords
  <2>4. CASE WordLogged(w)
    BY <1>0, <2>0, <2>4, WordLoggedWords
  <2>5. CASE \E line \in Typed \cup {<<>>} : CheckWordFaults(w, line)
    <3>1. AllKept /\ Recycles
      BY <2>5, DictionaryDeathKeeps DEF DictionaryDeath
    <3> QED BY <2>0, <3>1 DEF AllKept, OrderKept
  <2> QED BY <1>1, <2>1, <2>2, <2>3, <2>4, <2>5 DEF worker_thread
<1>2. CASE MainThread
  <2>1. Recycles /\ (Ordered /\ ~ recycled' => AllKept)
    BY <1>0, <1>2, MainSteps, MainRecycles
  <2> QED BY <1>0, <1>d, <2>1 DEF AllKept, OrderKept, WordsInv, QueueInv, Recycles
<1>3. CASE LogThread
  <2>1. Recycles /\ (Ordered => AllKept)
    BY <1>0, <1>3, LogThreadSteps, LogThreadRecycles
  <2> QED BY <1>0, <1>d, <2>1 DEF AllKept, OrderKept, WordsInv, QueueInv, Recycles
<1>4. CASE \/ \E t \in SpuriousWakeups : SpuriousWakeup(t)
           \/ MainBrokenPipe \/ \E w \in Workers : WorkerBrokenPipe(w)
           \/ \E c \in Hangups : Hangup(c)
           \/ UNCHANGED vars
  <2>1. AllKept /\ Recycles
    BY <1>0, <1>4, OtherSteps
  <2> QED BY <1>0, <1>d, <2>1 DEF AllKept, OrderKept, WordsInv, QueueInv, Recycles
<1>5. ASSUME NEW w \in Workers, worker_thread(w) PROVE WordsInv'
  BY <1>0, <1>1, <1>5 DEF WordsInv, QueueInv, Recycles
<1>6. CASE DictionaryOverflows
  <2>1. AllKept /\ Recycles
    BY <1>6, DictionaryDeathKeeps DEF DictionaryDeath
  <2> QED BY <1>0, <1>d, <2>1 DEF AllKept, OrderKept, WordsInv, QueueInv, Recycles
<1> QED BY <1>2, <1>3, <1>4, <1>5, <1>6
        DEF SpellNext, SpellStep, spell_vars, ServeConnections, WriteResults

LEMMA SpellInitWordsInv == SpellInit => WordsInv
<1> SUFFICES ASSUME Init PROVE QueueInv /\ WordsFrom(CheckedWord)
  BY DEF SpellInit, WordsInv
<1>1. QueueInv /\ InTurn
  BY InitQueueInv DEF QueueInv, Init
<1>2. \A w \in Workers : pc[w] = "lockJobs"
  BY ThreadsAreApart DEF Init, Threads
<1>3. \A c \in Clients : Pushed[c] = 0
  <2>1. \A c \in Clients : ~Composing(c)
    BY <1>2 DEF Composing, ComposedLabels
  <2>2. \A c \in Clients : sent[c] = 0
    BY DEF Init
  <2> QED BY <2>1, <2>2 DEF Pushed
<1>4. \A i \in 1 .. Len(Entries) : FALSE
  BY <1>1, <1>3 DEF InTurn, Numbered
<1> QED BY <1>1, <1>2, <1>4 DEF WordsFrom, ComposedLabels

\* The log keeps the words of each client, all of them and in the order it sent
\* them, although the worker lets go of the client at "-1" while words are still
\* in the queue (lines 303-306 and 338-342), and says CORRECT of every word among
\* the first DICTIONARY_LENGTH lines of the dictionary although both lose two
\* bytes (lines 138 and 309), whatever the dictionary, also when it is too short
\* or too long for its array (lines 115 and 313).
THEOREM SpellResultsInOrder == SpellSpec => []ResultsInOrder
<1>1. WordsInv => ResultsInOrder
  <2> SUFFICES ASSUME TypeInv, OnePlace, InTurn, WordsFrom(CheckedWord), NEW c \in Clients
               PROVE  /\ InOrder(c)
                      /\ \A i \in PlacesOf(c) :
                           Entries[i].text.line \in WordsLookedAt
                             => Entries[i].text.result = "CORRECT"
    BY DEF WordsInv, QueueInv, ResultsInOrder
  <2>1. InOrder(c)
    BY TurnIsOrder
  <2>2. ASSUME NEW i \in PlacesOf(c), Entries[i].text.line \in WordsLookedAt
        PROVE  Entries[i].text.result = "CORRECT"
    <3>1. i \in 1 .. Len(Entries)
      BY DEF PlacesOf, InTurn, Numbered
    <3>2. Entries[i].text \in CheckedTexts
      BY <3>1 DEF WordsFrom, CheckedWord
    <3>3. PICK line \in Typed \cup {<<>>} :
            Entries[i].text = [line |-> line, result |-> Result(line)]
      BY <3>2 DEF CheckedTexts
    <3>4. Entries[i].text.line = line /\ Entries[i].text.result = Result(line)
      BY <3>3
    <3> QED BY <2>2, <3>4, KnownWordIsCorrect
  <2> QED BY <2>1, <2>2
<1>2. SpellInit => SyncInv /\ WordsInv
  BY SpellInitSyncInv, SpellInitWordsInv
<1>3. SyncInv /\ WordsInv /\ [SpellNext]_spell_vars => (SyncInv /\ WordsInv)'
  BY SpellNextSyncInv, SpellNextWordsInv
<1> QED BY <1>1, <1>2, <1>3, PTL DEF SpellSpec

\* No connection of the spell checker is forgotten or checked by two workers,
\* and its queues are the lists that push and pop believe in, until malloc hands
\* out a node that is still in use.
THEOREM SpellConnections == SpellSpec => [](QueuesIntact /\ OnePlacePerClient)
<1>1. WordsInv => QueuesIntact /\ OnePlacePerClient
  BY ListsAreIntact, OnePlaceIsEnough
     DEF WordsInv, QueueInv, QueuesIntact, OnePlacePerClient
<1>2. SpellInit => SyncInv /\ WordsInv
  BY SpellInitSyncInv, SpellInitWordsInv
<1>3. SyncInv /\ WordsInv /\ [SpellNext]_spell_vars => (SyncInv /\ WordsInv)'
  BY SpellNextSyncInv, SpellNextWordsInv
<1> QED BY <1>1, <1>2, <1>3, PTL DEF SpellSpec
=============================================================================
