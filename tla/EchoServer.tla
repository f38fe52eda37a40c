----------------------------- MODULE EchoServer -----------------------------
(***************************************************************************)
(* The multi-threaded echo server of Project 3 (echoServer.c): a main      *)
(* thread accepts connections and pushes them on the job queue, workers    *)
(* pop a connection, echo its lines and push a log entry per line on the   *)
(* log queue, and a log thread pops the entries and writes the log file.   *)
(* The threads meet at two mutexes and four condition variables.           *)
(*                                                                         *)
(* A value of pc names the next call the thread makes, as in the source:   *)
(* "lockJobs" is pthread_mutex_lock(&job_queue_lock) and the test behind   *)
(* it, "waitCond1" is a thread asleep in pthread_cond_wait(&cond1, ...),   *)
(* "wokenCond1" one that was woken and has yet to get its mutex back.      *)
(***************************************************************************)
EXTENDS NodeQueue

CONSTANTS
  Workers,          \* the worker threads (-w)
  cellAmount,       \* the cells of the connection buffer (-c)
  MaxClients,       \* how many connections arrive (a bound)
  Lines,            \* per connection, lines at most before the terminator (a bound)
  Hangups,          \* connections whose client may leave without terminator
  SpuriousWakeups,  \* threads whose pthread_cond_wait may return unsignalled
  Texts             \* what log entries say beyond whose they are, if anything

Main == "main"
Logger == "log"
NoThread == "none"

\* main refuses a -w or a -c that is not positive.
ASSUME WorkersAssumption ==
  IsFiniteSet(Workers) /\ Workers # {} /\ {Main, Logger, NoThread} \cap Workers = {}
ASSUME CellsAssumption == cellAmount \in Nat \ {0}
ASSUME BoundsAssumption ==
  /\ MaxClients \in Nat
  /\ Lines \in [1 .. MaxClients -> Nat]
  /\ Hangups \subseteq 1 .. MaxClients
  /\ SpuriousWakeups \subseteq Workers \cup {Main, Logger}

Threads == Workers \cup {Main, Logger}
Clients == 1 .. MaxClients      \* a socket descriptor is the client it serves
Word ==
  [client : {0} \cup Clients, no : Nat, last : BOOLEAN]
    \cup [client : Clients, no : Nat, text : Texts]
NoWord == [client |-> 0, no |-> 0, last |-> FALSE]   \* the word of a job node
Node == [client_socket : {0} \cup Clients, word : Word, next : Pointer]

VARIABLES
  pc,               \* where each thread is
  job_queue_lock, log_queue_lock,   \* who holds each mutex
  job_queue, log_queue,             \* the Queue structs
  heap,             \* the memory nodes live in, shared by both queues
  job,              \* each worker's local variable job, a Node pointer
  client_socket,    \* each worker's local variable client_socket
  word,             \* the text a worker is to log, and the logger's word
  accepted,         \* how many connections accept has returned
  sent,             \* per client, how many log entries its worker composed
  conn,             \* per client, the state of its connection
  log_file,         \* what the log file holds
  halted,           \* "running", or what ended the process (or what we know of it)
  recycled          \* history: malloc handed out a node still in use

locks == <<job_queue_lock, log_queue_lock>>
queues == <<job_queue, log_queue, heap, recycled>>
locals == <<job, client_socket, word>>
peers == <<accepted, sent, conn>>
vars == <<pc, locks, queues, locals, peers, log_file, halted>>

MainLabels ==
  {"accept", "lockJobs", "waitCond2", "wokenCond2", "pushJob", "signalCond1"}
WorkerLabels ==
  {"lockJobs", "waitCond1", "wokenCond1", "popJob", "signalCond2", "readSocket",
   "serve", "lockLog", "waitCond4", "wokenCond4", "pushLog", "signalCond3"}
LoggerLabels ==
  {"lockLog", "waitCond3", "wokenCond3", "popLog", "signalCond4", "write"}
ServingLabels ==
  {"serve", "lockLog", "waitCond4", "wokenCond4", "pushLog", "signalCond3"}
HoldingLabels == {"lockJobs", "waitCond2", "wokenCond2", "pushJob"}
PcLabels == MainLabels \cup WorkerLabels \cup LoggerLabels
CodeOf(t) ==
  IF t = Main THEN MainLabels ELSE IF t = Logger THEN LoggerLabels ELSE WorkerLabels

Init ==
  /\ pc = [t \in Threads |-> IF t = Main THEN "accept"
                             ELSE IF t = Logger THEN "lockLog" ELSE "lockJobs"]
  /\ job_queue_lock = NoThread
  /\ log_queue_lock = NoThread
  /\ job_queue = create_queue
  /\ log_queue = create_queue
  /\ heap = [cell  |-> [a \in Addr |-> [client_socket |-> 0, word |-> NoWord, next |-> NULL]],
             frees |-> [a \in Addr |-> 0],
             brk   |-> 0]
  /\ job = [w \in Workers |-> NULL]
  /\ client_socket = [w \in Workers |-> 0]
  /\ word = [t \in Workers \cup {Logger} |-> NoWord]
  /\ accepted = 0
  /\ sent = [c \in Clients |-> 0]
  /\ conn = [c \in Clients |-> "none"]
  /\ log_file = <<>>
  /\ halted = "running"
  /\ recycled = FALSE

-----------------------------------------------------------------------------
(***************************************************************************)
(* Threads, mutexes and condition variables.                               *)
(***************************************************************************)
Running == halted = "running"

At(t, label) == Running /\ pc[t] = label

Goto(t, label) == pc' = [pc EXCEPT ![t] = label]

WaitLabels == {"waitCond1", "waitCond2", "waitCond3", "waitCond4"}

Woken(label) ==
  CASE label = "waitCond1" -> "wokenCond1"
    [] label = "waitCond2" -> "wokenCond2"
    [] label = "waitCond3" -> "wokenCond3"
    [] label = "waitCond4" -> "wokenCond4"

\* pthread_cond_signal by t, which goes on at label: wakes one of the threads
\* waiting there, or nobody when there is none.
Signal(t, waiting, label) ==
  LET waiters == {u \in Threads : pc[u] = waiting} IN
  \/ waiters = {} /\ Goto(t, label)
  \/ \E u \in waiters : pc' = [pc EXCEPT ![u] = Woken(waiting), ![t] = label]

\* pthread_cond_wait returning although nobody signalled.
SpuriousWakeup(t) ==
  /\ Running
  /\ pc[t] \in WaitLabels
  /\ Goto(t, Woken(pc[t]))
  /\ UNCHANGED <<locks, queues, locals, peers, log_file, halted>>

\* A woken thread gets its mutex back and goes on behind the if: the
\* condition it waited for is not tested again.
ReacquireJobs(t, woken, label) ==
  /\ At(t, woken)
  /\ job_queue_lock = NoThread
  /\ job_queue_lock' = t
  /\ Goto(t, label)
  /\ UNCHANGED <<log_queue_lock, queues, locals, peers, log_file, halted>>

\* Getting the mutex back without waiting for its holder.
ReacquireLogUnlocked(t, woken, label) ==
  /\ At(t, woken)
  /\ log_queue_lock' = t
  /\ Goto(t, label)
  /\ UNCHANGED <<job_queue_lock, queues, locals, peers, log_file, halted>>

ReacquireLog(t, woken, label) ==
  /\ At(t, woken)
  /\ log_queue_lock = NoThread
  /\ log_queue_lock' = t
  /\ Goto(t, label)
  /\ UNCHANGED <<job_queue_lock, queues, locals, peers, log_file, halted>>

\* Nodes some thread may still read: those in a queue, and a popped job whose
\* client_socket has not been read yet.
InUse ==
  Linked(heap, job_queue) \cup Linked(heap, log_queue)
    \cup {job[w] : w \in {v \in Workers : pc[v] \in {"signalCond2", "readSocket"}}}

\* The process ends: memory and threads are gone, so nothing else changes.
\* "overwritten": a text or a FILE was put into a node somebody still uses, and
\* from here on the process may do anything, so no property speaks of it.
Halt(how) ==
  /\ halted' = how
  /\ UNCHANGED <<pc, locks, queues, locals, peers, log_file>>

\* push ends the process: no memory left (exit) or a null front (SIGSEGV).
PushDies(q) ==
  \/ Mallocs(heap) = {} /\ Halt("exit")
  \/ Mallocs(heap) # {} /\ PushFaults(q) /\ Halt("segv")

-----------------------------------------------------------------------------
(***************************************************************************)
(* The main thread.                                                        *)
(***************************************************************************)
Accept ==
  /\ At(Main, "accept")
  /\ accepted < MaxClients
  /\ accepted' = accepted + 1
  /\ conn' = [conn EXCEPT ![accepted'] = "open"]
  /\ Goto(Main, "lockJobs")
  /\ UNCHANGED <<locks, queues, locals, sent, log_file, halted>>

\* main pushing without looking at the size.
MainNeverWaits ==
  /\ At(Main, "lockJobs")
  /\ job_queue_lock = NoThread
  /\ Goto(Main, "pushJob")
  /\ job_queue_lock' = Main
  /\ UNCHANGED <<log_queue_lock, queues, locals, peers, log_file, halted>>

MainLocksJobs ==
  /\ At(Main, "lockJobs")
  /\ job_queue_lock = NoThread
  /\ IF job_queue.queue_size >= cellAmount
     THEN Goto(Main, "waitCond2") /\ UNCHANGED job_queue_lock
     ELSE Goto(Main, "pushJob") /\ job_queue_lock' = Main
  /\ UNCHANGED <<log_queue_lock, queues, locals, peers, log_file, halted>>

MainReacquires == ReacquireJobs(Main, "wokenCond2", "pushJob")

\* push(job_queue, ...) and the unlock.
PushJob ==
  /\ At(Main, "pushJob")
  /\ \E a \in Mallocs(heap) :
       LET h == CreateNode(heap, a, accepted, NoWord) IN
       /\ PushReturns(h, job_queue)
       /\ heap' = PushedHeap(h, job_queue, a)
       /\ job_queue' = PushedQueue(job_queue, a)
       /\ recycled' = (recycled \/ a \in InUse)
  /\ job_queue_lock' = NoThread
  /\ Goto(Main, "signalCond1")
  /\ UNCHANGED <<log_queue_lock, log_queue, locals, peers, log_file, halted>>

PushJobDies == At(Main, "pushJob") /\ PushDies(job_queue)

\* main without its pthread_cond_signal(&cond1).
NoSignalCond1 ==
  /\ At(Main, "signalCond1")
  /\ Goto(Main, "accept")
  /\ UNCHANGED <<locks, queues, locals, peers, log_file, halted>>

SignalCond1 ==
  /\ At(Main, "signalCond1")
  /\ Signal(Main, "waitCond1", "accept")
  /\ UNCHANGED <<locks, queues, locals, peers, log_file, halted>>

-----------------------------------------------------------------------------
(***************************************************************************)
(* A worker thread.                                                        *)
(***************************************************************************)
WorkerLocksJobs(w) ==
  /\ At(w, "lockJobs")
  /\ job_queue_lock = NoThread
  /\ IF job_queue.queue_size <= 0
     THEN Goto(w, "waitCond1") /\ UNCHANGED job_queue_lock
     ELSE Goto(w, "popJob") /\ job_queue_lock' = w
  /\ UNCHANGED <<log_queue_lock, queues, locals, peers, log_file, halted>>

WorkerReacquiresJobs(w) == ReacquireJobs(w, "wokenCond1", "popJob")

\* pop(job_queue) and the unlock.
PopJob(w) ==
  /\ At(w, "popJob")
  /\ FreeReturns(heap, PopFrees(heap, job_queue))
  /\ job' = [job EXCEPT ![w] = job_queue.front]
  /\ heap' = PoppedHeap(heap, job_queue)
  /\ job_queue' = PoppedQueue(heap, job_queue)
  /\ job_queue_lock' = NoThread
  /\ Goto(w, "signalCond2")
  /\ UNCHANGED <<log_queue_lock, log_queue, recycled, client_socket, word,
                 peers, log_file, halted>>

\* The allocator may notice that a node is freed twice, and abort.
PopJobAborts(w) ==
  /\ At(w, "popJob")
  /\ DoubleFree(heap, PopFrees(heap, job_queue))
  /\ Halt("abort")

SignalCond2(w) ==
  /\ At(w, "signalCond2")
  /\ Signal(w, "waitCond2", "readSocket")
  /\ UNCHANGED <<locks, queues, locals, peers, log_file, halted>>

\* client_socket = job->client_socket, without the mutex.
ReadSocket(w) ==
  /\ At(w, "readSocket")
  /\ job[w] # NULL
  /\ client_socket' = [client_socket EXCEPT ![w] = heap.cell[job[w]].client_socket]
  /\ Goto(w, "serve")
  /\ UNCHANGED <<locks, queues, job, word, peers, log_file, halted>>

ReadSocketFaults(w) ==
  /\ At(w, "readSocket")
  /\ job[w] = NULL
  /\ Halt("segv")

\* Prompt, recv and reply, up to the log lock: last says that the terminating
\* character came.  A client that has gone reads as an empty line.  recv on a
\* closed descriptor fails, and the loop goes round without a change.
Serve(w, last) ==
  LET c == client_socket[w] IN
  /\ At(w, "serve")
  /\ \/ conn[c] = "open"
     \/ conn[c] = "hungup" /\ ~last
  /\ ~last => sent[c] < Lines[c]
  /\ sent' = [sent EXCEPT ![c] = @ + 1]
  /\ word' = [word EXCEPT ![w] = [client |-> c, no |-> sent'[c], last |-> last]]
  /\ Goto(w, "lockLog")
  /\ UNCHANGED <<locks, queues, job, client_socket, accepted, conn, log_file, halted>>

WorkerLocksLog(w) ==
  /\ At(w, "lockLog")
  /\ log_queue_lock = NoThread
  /\ IF log_queue.queue_size >= cellAmount
     THEN Goto(w, "waitCond4") /\ UNCHANGED log_queue_lock
     ELSE Goto(w, "pushLog") /\ log_queue_lock' = w
  /\ UNCHANGED <<job_queue_lock, queues, locals, peers, log_file, halted>>

WorkerReacquiresLog(w) == ReacquireLog(w, "wokenCond4", "pushLog")

\* push(log_queue, ...) and the unlock.  The node's text takes memory, too: a
\* piece nobody uses any more, or other memory.
PushLog(w) ==
  /\ At(w, "pushLog")
  /\ \E a \in Mallocs(heap) :
       LET n == CreateNode(heap, a, client_socket[w], word[w])
           h == PushedHeap(n, log_queue, a)
       IN
       /\ PushReturns(n, log_queue)
       /\ \E b \in {NULL} \cup (FreePieces(h) \ Shared(h, InUse \cup {a})) :
            heap' = TakenByText(h, b)
       /\ log_queue' = PushedQueue(log_queue, a)
       /\ recycled' = (recycled \/ a \in InUse)
  /\ log_queue_lock' = NoThread
  /\ Goto(w, "signalCond3")
  /\ UNCHANGED <<job_queue_lock, job_queue, locals, peers, log_file, halted>>

\* No memory for the text, or the text overwrites a node still in use.
PushLogDies(w) ==
  /\ At(w, "pushLog")
  /\ \/ PushDies(log_queue)
     \/ Halt("exit")
     \/ /\ \E a \in Mallocs(heap) :
             Shared(CreateNode(heap, a, client_socket[w], word[w]), InUse \cup {a}) # {}
        /\ Halt("overwritten")

\* The signal only behind an echoed line.
SignalCond3NotAtEnd(w) ==
  /\ At(w, "signalCond3")
  /\ IF word[w].last
     THEN /\ Goto(w, "lockJobs")
          /\ conn' = [conn EXCEPT ![client_socket[w]] = "closed"]
     ELSE /\ Signal(w, "waitCond3", "serve")
          /\ UNCHANGED conn
  /\ UNCHANGED <<locks, queues, locals, accepted, sent, log_file, halted>>

\* The signal; behind the terminator also the close and the break.
SignalCond3(w) ==
  /\ At(w, "signalCond3")
  /\ IF word[w].last
     THEN /\ Signal(w, "waitCond3", "lockJobs")
          /\ conn' = [conn EXCEPT ![client_socket[w]] = "closed"]
     ELSE /\ Signal(w, "waitCond3", "serve")
          /\ UNCHANGED conn
  /\ UNCHANGED <<locks, queues, locals, accepted, sent, log_file, halted>>

-----------------------------------------------------------------------------
(***************************************************************************)
(* The log thread.                                                         *)
(***************************************************************************)
LoggerLocksLog ==
  /\ At(Logger, "lockLog")
  /\ log_queue_lock = NoThread
  /\ IF log_queue.queue_size <= 0
     THEN Goto(Logger, "waitCond3") /\ UNCHANGED log_queue_lock
     ELSE Goto(Logger, "popLog") /\ log_queue_lock' = Logger
  /\ UNCHANGED <<job_queue_lock, queues, locals, peers, log_file, halted>>

LoggerReacquires == ReacquireLog(Logger, "wokenCond3", "popLog")

\* pop(log_queue), word = node->word, and the unlock.
PopLog ==
  /\ At(Logger, "popLog")
  /\ log_queue.front # NULL
  /\ FreeReturns(heap, PopFrees(heap, log_queue))
  /\ word' = [word EXCEPT ![Logger] = heap.cell[log_queue.front].word]
  /\ heap' = PoppedHeap(heap, log_queue)
  /\ log_queue' = PoppedQueue(heap, log_queue)
  /\ log_queue_lock' = NoThread
  /\ Goto(Logger, "signalCond4")
  /\ UNCHANGED <<job_queue_lock, job_queue, recycled, job, client_socket,
                 peers, log_file, halted>>

PopLogFaults ==
  /\ At(Logger, "popLog")
  /\ log_queue.front = NULL
  /\ Halt("segv")

PopLogAborts ==
  /\ At(Logger, "popLog")
  /\ DoubleFree(heap, PopFrees(heap, log_queue))
  /\ Halt("abort")

\* The log thread signalling its own condition.
SignalCond4AsCond3 ==
  /\ At(Logger, "signalCond4")
  /\ Signal(Logger, "waitCond3", IF word[Logger] = NoWord THEN "lockLog" ELSE "write")
  /\ UNCHANGED <<locks, queues, locals, peers, log_file, halted>>

\* The signal; a node without a word is skipped.
SignalCond4 ==
  /\ At(Logger, "signalCond4")
  /\ Signal(Logger, "waitCond4", IF word[Logger] = NoWord THEN "lockLog" ELSE "write")
  /\ UNCHANGED <<locks, queues, locals, peers, log_file, halted>>

\* fopen, fprintf and fclose under log_lock, which no other thread takes: the
\* memory of the FILE comes and goes.
WriteLog ==
  /\ At(Logger, "write")
  /\ log_file' = Append(log_file, word[Logger])
  /\ Goto(Logger, "lockLog")
  /\ UNCHANGED <<locks, queues, locals, peers, halted>>

\* fprintf on the NULL of an fopen that failed, or a FILE in a node still in use.
WriteLogDies ==
  /\ At(Logger, "write")
  /\ \/ Halt("segv")
     \/ Shared(heap, InUse) # {} /\ Halt("overwritten")

-----------------------------------------------------------------------------
(***************************************************************************)
(* The clients.                                                            *)
(***************************************************************************)
Hangup(c) ==
  /\ Running
  /\ conn[c] = "open"
  /\ conn' = [conn EXCEPT ![c] = "hungup"]
  /\ UNCHANGED <<pc, locks, queues, locals, accepted, sent, log_file, halted>>

\* A send to a client that has gone raises SIGPIPE, which ends the process:
\* main sends when the buffer is full and before it pushes a job, a worker at
\* every turn of its loop.
MainBrokenPipe ==
  /\ \/ At(Main, "pushJob")
     \/ At(Main, "lockJobs") /\ job_queue_lock = NoThread
                            /\ job_queue.queue_size >= cellAmount
  /\ conn[accepted] = "hungup"
  /\ Halt("sigpipe")

WorkerBrokenPipe(w) ==
  /\ At(w, "serve")
  /\ conn[client_socket[w]] = "hungup"
  /\ Halt("sigpipe")

-----------------------------------------------------------------------------
MainThread ==
  Accept \/ MainLocksJobs \/ MainReacquires \/ PushJob \/ PushJobDies \/ SignalCond1

Worker(w) ==
  \/ WorkerLocksJobs(w) \/ WorkerReacquiresJobs(w) \/ PopJob(w) \/ PopJobAborts(w)
  \/ SignalCond2(w) \/ ReadSocket(w) \/ ReadSocketFaults(w)
  \/ \E last \in BOOLEAN : Serve(w, last)
  \/ WorkerLocksLog(w) \/ WorkerReacquiresLog(w) \/ PushLog(w) \/ PushLogDies(w)
  \/ SignalCond3(w)

LogThread ==
  \/ LoggerLocksLog \/ LoggerReacquires \/ PopLog \/ PopLogFaults \/ PopLogAborts
  \/ SignalCond4 \/ WriteLog \/ WriteLogDies

Next ==
  \/ MainThread
  \/ \E w \in Workers : Worker(w)
  \/ LogThread
  \/ \E t \in SpuriousWakeups : SpuriousWakeup(t)
  \/ MainBrokenPipe \/ \E w \in Workers : WorkerBrokenPipe(w)
  \/ \E c \in Hangups : Hangup(c)

Spec == Init /\ [][Next]_vars

(***************************************************************************)
(* The scheduler keeps running every thread that can run.  For a worker in *)
(* recv it says that the client sends something sooner or later.           *)
(***************************************************************************)
FairSpec ==
  /\ Spec
  /\ WF_vars(MainThread)
  /\ \A w \in Workers : WF_vars(Worker(w))
  /\ WF_vars(LogThread)

-----------------------------------------------------------------------------
(***************************************************************************)
(* Safety.                                                                 *)
(***************************************************************************)
\* Every thread stays in its own code.
PcOK(f) == f \in [Threads -> PcLabels] /\ \A t \in Threads : f[t] \in CodeOf(t)

\* Pointers point to nodes that malloc returned, and only those are freed.
HeapOK(h) ==
  /\ h \in [cell : [Addr -> Node], frees : [Addr -> Nat], brk : 0 .. HeapSize]
  /\ \A a \in Addr : h.cell[a].next <= h.brk
  /\ \A a \in Addr : h.frees[a] > 0 => a <= h.brk

QueueOK(h, q) == q \in [front : 0 .. h.brk, queue_size : Int]

\* Every variable keeps its type.  As long as no text and no FILE is put into a
\* node still in use ("overwritten"), every pointer the program keeps is one
\* malloc returned, also into nodes freed too early (line 421) and made nodes anew.
TypeOK ==
  /\ PcOK(pc)
  /\ job_queue_lock \in Threads \cup {NoThread}
  /\ log_queue_lock \in Threads \cup {NoThread}
  /\ HeapOK(heap)
  /\ QueueOK(heap, job_queue)
  /\ QueueOK(heap, log_queue)
  /\ job \in [Workers -> 0 .. heap.brk]
  /\ client_socket \in [Workers -> {0} \cup Clients]
  /\ word \in [Workers \cup {Logger} -> Word]
  /\ accepted \in 0 .. MaxClients
  /\ sent \in [Clients -> Nat]
  /\ conn \in [Clients -> {"none", "open", "hungup", "closed"}]
  /\ log_file \in Seq(Word)
  /\ halted \in {"running", "exit", "segv", "abort", "sigpipe", "overwritten"}
  /\ recycled \in BOOLEAN

\* The threads whose next call is one of those.
ThreadsAt(labels) == {t \in Threads : pc[t] \in labels}

OnlyAcceptedSockets ==
  /\ \A a \in 1 .. heap.brk : heap.cell[a].client_socket \in 1 .. accepted
  /\ \A w \in Workers : pc[w] \in ServingLabels => client_socket[w] \in 1 .. accepted
  /\ pc[Main] \in HoldingLabels => accepted > 0

\* Every descriptor the server uses is one that accept returned, also when a
\* worker reads it from a node that was freed and made a node again (line 473),
\* until a text (line 350) or a FILE (line 658) is put into a node still in use.
SocketsAreAccepted == halted # "overwritten" => OnlyAcceptedSockets

\* "No more than one worker thread at a time should manipulate the log queue"
\* (lines 518 and 584), and the same for the job queue: at most one thread is
\* between a lock and its unlock, also after a wait gave the mutex back.
OneThreadPerQueue ==
  /\ \A t, u \in ThreadsAt({"pushJob", "popJob"}) : t = u
  /\ \A t, u \in ThreadsAt({"pushLog", "popLog"}) : t = u

\* No wakeup of the job queue is lost although both signals come after the
\* unlock (lines 234 and 470).  While a worker sleeps, every queued job has a
\* worker awake that will pop it or a signal main is about to send.  While main
\* sleeps and a cell is free, a worker is about to signal.
NoLostJobWakeup ==
  /\ ThreadsAt({"waitCond1"}) # {} =>
       job_queue.queue_size <=
         Cardinality(ThreadsAt({"wokenCond1", "popJob"})) + Cardinality(ThreadsAt({"signalCond1"}))
  /\ ThreadsAt({"waitCond2"}) # {} /\ job_queue.queue_size < cellAmount =>
       ThreadsAt({"signalCond2"}) # {}

\* The same for the log queue (lines 535, 601 and 646): a sleeping log thread
\* has an entry only while a worker is about to signal; while workers sleep for
\* a cell, every free cell has a worker awake that will fill it, or a signal the
\* log thread is about to send.
NoLostLogWakeup ==
  /\ ThreadsAt({"waitCond3"}) # {} /\ log_queue.queue_size > 0 => ThreadsAt({"signalCond3"}) # {}
  /\ ThreadsAt({"waitCond4"}) # {} =>
       cellAmount - log_queue.queue_size <=
         Cardinality(ThreadsAt({"wokenCond4", "pushLog"})) + Cardinality(ThreadsAt({"signalCond4"}))

\* A stale signal lets a producer push on a full queue (lines 219-222, 523 and
\* 589 test once), but never far: if no producer wakes up spuriously, no queue
\* holds more than one node per cell and one per worker.
BoundedOvershoot ==
  /\ Main \notin SpuriousWakeups =>
       job_queue.queue_size <= cellAmount + Cardinality(Workers)
  /\ Workers \cap SpuriousWakeups = {} =>
       log_queue.queue_size <= cellAmount + Cardinality(Workers)

(***************************************************************************)
(* pop frees the node behind the one it returns (line 421), so a queued    *)
(* node may be memory malloc is free to hand out again.  Until it does so, *)
(* the queues work: the properties below hold while ~recycled.             *)
(***************************************************************************)
\* The bookkeeping of push and pop agrees: a queue's size is the number of
\* nodes linked in it, no node is in both queues, and among them only a front
\* node has been freed.
QueuesIntact ==
  ~recycled =>
    /\ \A q \in {job_queue, log_queue} :
         /\ ~Cyclic(heap, q)
         /\ q.queue_size = Cardinality(Linked(heap, q))
         /\ \A a \in Linked(heap, q) \ {q.front} : heap.frees[a] = 0
    /\ Linked(heap, job_queue) \cap Linked(heap, log_queue) = {}

\* The sockets waiting in the job queue, oldest first.
JobSockets ==
  [i \in DOMAIN Chain(heap, job_queue) |-> heap.cell[Chain(heap, job_queue)[i]].client_socket]

\* The connection a worker has taken from the queue and not closed yet, or 0.
Serving(w) ==
  CASE pc[w] \in {"signalCond2", "readSocket"} ->
         IF job[w] = NULL THEN 0 ELSE heap.cell[job[w]].client_socket
    [] pc[w] \in ServingLabels -> client_socket[w]
    [] OTHER -> 0

\* No connection is forgotten and none is served twice: each accepted one is
\* with main, or once in the job queue, or with one worker, or closed.
OnePlacePerClient ==
  ~recycled =>
    \A c \in 1 .. accepted :
      Cardinality({<<"queued", i>> : i \in {j \in DOMAIN JobSockets : JobSockets[j] = c}}
                  \cup {<<"served", w>> : w \in {v \in Workers : Serving(v) = c}}
                  \cup {<<"closed", d>> : d \in {c} \cap {e \in Clients : conn[e] = "closed"}}
                  \cup {<<"main", d>> : d \in {c} \cap {accepted} \cap
                          {e \in Clients : pc[Main] \in HoldingLabels}}) = 1

\* The words waiting in the log queue, oldest first.
LogWords ==
  [i \in DOMAIN Chain(heap, log_queue) |-> heap.cell[Chain(heap, log_queue)[i]].word]

\* The entries on their way from the workers to the log file, oldest first.
Entries ==
  log_file \o (IF pc[Logger] \in {"signalCond4", "write"} THEN <<word[Logger]>> ELSE <<>>)
    \o LogWords

\* Where a client's entries are among them.
PlacesOf(c) == {i \in DOMAIN Entries : Entries[i].client = c}

WithWorker(c) ==
  Cardinality({w \in Workers :
    pc[w] \in {"lockLog", "waitCond4", "wokenCond4", "pushLog"} /\ client_socket[w] = c})

\* Its entries are numbered without a gap, in the order they were composed.
InOrder(c) ==
  /\ {Entries[i].no : i \in PlacesOf(c)} = 1 .. (sent[c] - WithWorker(c))
  /\ \A i, j \in PlacesOf(c) : i < j => Entries[i].no < Entries[j].no

\* The log of each client is complete and in order although workers and the
\* log thread hand entries over through a queue: what is in the file, with the
\* log thread, in the queue and with the worker are the entries 1 .. sent[c],
\* and the terminator's entry, which a closed connection has, is the last.
LogKeepsOrder ==
  ~recycled =>
    \A c \in Clients :
      /\ InOrder(c)
      /\ \A i \in PlacesOf(c) : Entries[i].last => Entries[i].no = sent[c]
      /\ conn[c] = "closed" => \E i \in PlacesOf(c) : Entries[i].last

\* The job queue is a first-in first-out queue of connections.
JobQueue == INSTANCE Fifo WITH
  Elements <- Clients,
  items <- IF recycled THEN <<>> ELSE JobSockets,
  intact <- ~recycled

JobQueueIsFifo == JobQueue!Spec

(***************************************************************************)
(* Liveness, as long as the process lives and its memory is its own.       *)
(***************************************************************************)
\* Every accepted connection is served to its end and closed: no signal sent
\* outside the mutex, no full queue and no other client keeps it waiting.
EveryClientServed ==
  \A c \in Clients : accepted >= c ~> conn[c] = "closed" \/ ~Running \/ recycled

\* Every entry a worker composed reaches the log file.
EveryEntryLogged ==
  \A c \in Clients : \A n \in 1 .. Lines[c] + 1 :
    sent[c] >= n ~> \/ \E i \in DOMAIN log_file : log_file[i].client = c /\ log_file[i].no = n
                    \/ ~Running \/ recycled

(***************************************************************************)
(* What the comments of the program say and its code does not do.          *)
(***************************************************************************)
\* "Now Queue is not empty" (line 460) and "Now that log queue is not empty"
\* (line 638): a thread that pops finds something.
NowQueueIsNotEmpty ==
  /\ ThreadsAt({"popJob"}) # {} => job_queue.queue_size > 0
  /\ ThreadsAt({"popLog"}) # {} => log_queue.queue_size > 0

\* "a fixed-sized data structure ... the number of elements ... is specified by
\* a program input parameter" (lines 193-194): the buffer never holds more.
FixedSizedBuffer == job_queue.queue_size <= cellAmount

\* "free the node that we are trying to pop off" (line 421): no node that is
\* still in a queue has been freed.
QueuedNodesAreNotFreed ==
  \A a \in Linked(heap, job_queue) \cup Linked(heap, log_queue) : heap.frees[a] = 0
=============================================================================
