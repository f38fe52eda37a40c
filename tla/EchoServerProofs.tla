-------------------------- MODULE EchoServerProofs --------------------------
(***************************************************************************)
(* Types, mutual exclusion, wakeups and bounds of EchoServer, for every    *)
(* number of workers, cells, clients and nodes.                            *)
(***************************************************************************)
EXTENDS EchoServer, FiniteSetTheorems, TLAPS

-----------------------------------------------------------------------------
(***************************************************************************)
(* The queue operators keep pointers inside the memory malloc handed out.  *)
(***************************************************************************)

\* A node malloc may return is a cell of the heap, one behind brk at most.
LEMMA MallocsInHeap ==
  ASSUME NEW h, HeapOK(h), NEW a \in Mallocs(h)
  PROVE  a \in Addr /\ a <= h.brk + 1 /\ h.brk \in 0 .. HeapSize
  BY HeapSizeAssumption DEF Mallocs, FreePieces, HeapOK, Addr

\* create_node (lines 333-368) yields a heap with one more node in use.
LEMMA CreateNodeOK ==
  ASSUME NEW h, HeapOK(h), NEW a \in Mallocs(h),
         NEW c \in {0} \cup Clients, NEW t \in Word
  PROVE  LET k == CreateNode(h, a, c, t) IN
         /\ HeapOK(k)
         /\ h.brk <= k.brk
         /\ a \in 1 .. k.brk
         /\ k.cell[a].client_socket = c
         /\ \A b \in 1 .. k.brk \ {a} : b \in 1 .. h.brk /\ k.cell[b] = h.cell[b]
<1> DEFINE k == CreateNode(h, a, c, t)
           n == [client_socket |-> c, word |-> t, next |-> NULL]
<1>1. a \in Addr /\ a <= h.brk + 1 /\ h.brk \in 0 .. HeapSize
  BY MallocsInHeap
<1>2. n \in Node /\ n.next = 0 /\ n.client_socket = c
  BY DEF Node, Pointer, NULL
<1>3. k.cell = [h.cell EXCEPT ![a] = n]
  BY DEF CreateNode
<1>4. k.brk = IF a = h.brk + 1 THEN a ELSE h.brk
  BY DEF CreateNode
<1>5. k.frees = [h.frees EXCEPT ![a] = IF @ > 0 THEN @ - 1 ELSE 0]
  BY DEF CreateNode
<1>6. k = [cell |-> k.cell, frees |-> k.frees, brk |-> k.brk]
  BY DEF CreateNode
<1>7. /\ h.cell \in [Addr -> Node] /\ h.frees \in [Addr -> Nat]
      /\ \A b \in Addr : h.cell[b].next <= h.brk
      /\ \A b \in Addr : h.frees[b] > 0 => b <= h.brk
  BY DEF HeapOK
<1>8. k.brk \in 0 .. HeapSize /\ h.brk <= k.brk /\ a <= k.brk
  BY <1>1, <1>4, HeapSizeAssumption DEF Addr
<1>9. k.cell \in [Addr -> Node]
  BY <1>1, <1>2, <1>3, <1>7
<1>10. k.frees \in [Addr -> Nat] /\ \A b \in Addr : b # a => k.frees[b] = h.frees[b]
  BY <1>1, <1>5, <1>7
<1>11. \A b \in Addr : k.cell[b].next <= k.brk
  <2> SUFFICES ASSUME NEW b \in Addr PROVE k.cell[b].next <= k.brk
    OBVIOUS
  <2>1. CASE b = a
    BY <2>1, <1>1, <1>2, <1>3, <1>7, <1>8
  <2>2. CASE b # a
    <3>1. k.cell[b] = h.cell[b]
      BY <2>2, <1>3, <1>7
    <3>2. h.cell[b].next \in Int /\ h.cell[b].next <= h.brk
      BY <1>7, HeapSizeAssumption DEF Node, Pointer, Addr, NULL
    <3> QED BY <3>1, <3>2, <1>1, <1>8
  <2> QED BY <2>1, <2>2
<1>12. \A b \in Addr : k.frees[b] > 0 => b <= k.brk
  BY <1>1, <1>7, <1>8, <1>10 DEF Addr
<1>13. HeapOK(k)
  BY <1>6, <1>8, <1>9, <1>10, <1>11, <1>12 DEF HeapOK
<1>14. a \in 1 .. k.brk /\ k.cell[a].client_socket = c
  <2>1. k.cell[a] = n
    BY <1>1, <1>3, <1>7
  <2>2. a \in 1 .. k.brk
    BY <1>1, <1>8, HeapSizeAssumption DEF Addr
  <2> QED BY <2>1, <2>2, <1>2
<1>15. \A b \in 1 .. k.brk \ {a} : b \in 1 .. h.brk /\ k.cell[b] = h.cell[b]
  BY <1>1, <1>3, <1>4, <1>7, <1>8, HeapSizeAssumption DEF Addr
<1> QED BY <1>8, <1>13, <1>14, <1>15

\* Linking a node (lines 390-398) changes next fields only.
LEMMA PushedHeapOK ==
  ASSUME NEW h, HeapOK(h), NEW q, NEW a \in 1 .. h.brk
  PROVE  LET k == PushedHeap(h, q, a) IN
         /\ HeapOK(k)
         /\ k.brk = h.brk
         /\ \A b \in Addr : k.cell[b].client_socket = h.cell[b].client_socket
<1> DEFINE k == PushedHeap(h, q, a)
<1>1. CASE q.queue_size = 0
  BY <1>1 DEF PushedHeap
<1>2. CASE q.queue_size # 0
  <2>1. /\ h.cell \in [Addr -> Node] /\ h.frees \in [Addr -> Nat] /\ h.brk \in 0 .. HeapSize
        /\ \A b \in Addr : h.cell[b].next <= h.brk
        /\ \A b \in Addr : h.frees[b] > 0 => b <= h.brk
        /\ h = [cell |-> h.cell, frees |-> h.frees, brk |-> h.brk]
    BY DEF HeapOK
  <2>2. k.brk = h.brk /\ k.frees = h.frees /\ k = [cell |-> k.cell, frees |-> k.frees, brk |-> k.brk]
    BY <1>2, <2>1 DEF PushedHeap
  <2>3. k.cell = [b \in Addr |-> IF b \in Ends(h, q) THEN [h.cell[b] EXCEPT !.next = a] ELSE h.cell[b]]
    BY <1>2, <2>1 DEF PushedHeap
  <2>4. a \in Addr /\ a <= h.brk
    BY <2>1, HeapSizeAssumption DEF Addr
  <2>5. ASSUME NEW b \in Addr
        PROVE  /\ k.cell[b] \in Node
               /\ k.cell[b].next <= h.brk
               /\ k.cell[b].client_socket = h.cell[b].client_socket
    <3>1. h.cell[b] \in Node /\ h.cell[b].next <= h.brk
      BY <2>1
    <3>2. CASE b \in Ends(h, q)
      <4>1. k.cell[b] = [h.cell[b] EXCEPT !.next = a]
        BY <2>3, <3>2
      <4> QED BY <4>1, <3>1, <2>4 DEF Node, Pointer
    <3>3. CASE b \notin Ends(h, q)
      BY <2>3, <3>1, <3>3
    <3> QED BY <3>2, <3>3
  <2>6. k.cell \in [Addr -> Node]
    BY <2>3, <2>5
  <2> QED BY <2>1, <2>2, <2>5, <2>6 DEF HeapOK
<1> QED BY <1>1, <1>2

\* A text takes a freed piece for good (line 350), or none: no cell changes.
LEMMA TakenByTextOK ==
  ASSUME NEW h, HeapOK(h), NEW b \in {NULL} \cup FreePieces(h)
  PROVE  LET k == TakenByText(h, b) IN
         /\ HeapOK(k)
         /\ k.cell = h.cell /\ k.brk = h.brk
         /\ \A a \in Addr : k.frees[a] \in Nat /\ k.frees[a] <= h.frees[a]
<1> DEFINE k == TakenByText(h, b)
           f == [a \in Addr |-> IF a = b THEN h.frees[a] - 1 ELSE h.frees[a]]
<1>1. /\ h = [cell |-> h.cell, frees |-> h.frees, brk |-> h.brk]
      /\ h.cell \in [Addr -> Node] /\ h.frees \in [Addr -> Nat] /\ h.brk \in 0 .. HeapSize
      /\ \A a \in Addr : h.cell[a].next <= h.brk
      /\ \A a \in Addr : h.frees[a] > 0 => a <= h.brk
  BY DEF HeapOK
<1>2. k = [cell |-> h.cell, frees |-> f, brk |-> h.brk]
  BY <1>1 DEF TakenByText
<1>3. ASSUME NEW a \in Addr PROVE f[a] \in Nat /\ f[a] <= h.frees[a]
  <2>1. a = b => h.frees[a] > 0
    BY HeapSizeAssumption DEF FreePieces, Addr, NULL
  <2> QED BY <1>1, <2>1
<1>4. f \in [Addr -> Nat]
  BY <1>3
<1>5. \A a \in Addr : f[a] > 0 => a <= h.brk
  BY <1>1, <1>3
<1> HIDE DEF f
<1>6. k.cell = h.cell /\ k.frees = f /\ k.brk = h.brk
  BY <1>2
<1>7. HeapOK(k)
  BY <1>1, <1>2, <1>4, <1>5, <1>6 DEF HeapOK
<1> QED BY <1>3, <1>6, <1>7

\* The queue record after a push.
LEMMA PushedQueueOK ==
  ASSUME NEW h, NEW k, NEW q, NEW a, h.brk \in Nat, k.brk \in Nat, h.brk <= k.brk,
         QueueOK(h, q), a \in 1 .. k.brk
  PROVE  /\ QueueOK(k, PushedQueue(q, a))
         /\ PushedQueue(q, a).queue_size = q.queue_size + 1
  BY DEF QueueOK, PushedQueue

\* The queue record of a queue nobody touched, in a heap that grew.
LEMMA SameQueueOK ==
  ASSUME NEW h, NEW k, NEW q, h.brk \in Nat, k.brk \in Nat, h.brk <= k.brk, QueueOK(h, q)
  PROVE  QueueOK(k, q)
  BY DEF QueueOK

\* pop (lines 408-423) frees a node malloc returned, or nothing.
LEMMA PoppedHeapOK ==
  ASSUME NEW h, HeapOK(h), NEW q, QueueOK(h, q)
  PROVE  /\ HeapOK(PoppedHeap(h, q))
         /\ PoppedHeap(h, q).brk = h.brk
         /\ PoppedHeap(h, q).cell = h.cell
<1> DEFINE f == PopFrees(h, q)
<1>1. f \in 0 .. h.brk /\ h.brk \in 0 .. HeapSize
  BY HeapSizeAssumption DEF PopFrees, HeapOK, QueueOK, Node, Pointer, Addr, NULL
<1>2. CASE f = NULL
  BY <1>2 DEF PoppedHeap, Free
<1>3. CASE f # NULL
  <2>1. f \in Addr /\ f <= h.brk
    BY <1>1, <1>3, HeapSizeAssumption DEF Addr, NULL
  <2>2. PoppedHeap(h, q) = [h EXCEPT !.frees[f] = @ + 1]
    BY <1>3 DEF PoppedHeap, Free
  <2> QED BY <2>1, <2>2 DEF HeapOK
<1> QED BY <1>2, <1>3

\* The queue record after a pop.
LEMMA PoppedQueueOK ==
  ASSUME NEW h, HeapOK(h), NEW q, QueueOK(h, q)
  PROVE  /\ QueueOK(h, PoppedQueue(h, q))
         /\ q.front # NULL => PoppedQueue(h, q).queue_size = q.queue_size - 1
         /\ q.front = NULL => PoppedQueue(h, q).queue_size = 0
<1>1. CASE q.front = NULL
  BY <1>1 DEF PoppedQueue, QueueOK
<1>2. CASE q.front # NULL
  <2>1. q.front \in Addr
    BY <1>2, HeapSizeAssumption DEF QueueOK, HeapOK, Addr, NULL
  <2>2. h.cell[q.front].next \in 0 .. h.brk
    <3>1. h.cell[q.front] \in Node /\ h.cell[q.front].next <= h.brk /\ h.brk \in 0 .. HeapSize
      BY <2>1 DEF HeapOK
    <3>2. h.cell[q.front].next \in {0} \cup 1 .. HeapSize
      BY <3>1 DEF Node, Pointer, Addr, NULL
    <3> QED BY <3>1, <3>2, HeapSizeAssumption
  <2> QED BY <1>2, <2>2 DEF PoppedQueue, QueueOK
<1> QED BY <1>1, <1>2

\* A whole push: the new node holds socket c, every other node what it held.
LEMMA PushOK ==
  ASSUME NEW h, HeapOK(h), NEW q, QueueOK(h, q), NEW a \in Mallocs(h),
         NEW c \in {0} \cup Clients, NEW t \in Word
  PROVE  LET k == PushedHeap(CreateNode(h, a, c, t), q, a) IN
         /\ HeapOK(k)
         /\ h.brk \in Nat /\ k.brk \in Nat /\ h.brk <= k.brk
         /\ QueueOK(k, PushedQueue(q, a))
         /\ \A b \in 1 .. k.brk :
              \/ k.cell[b].client_socket = c
              \/ b \in 1 .. h.brk /\ k.cell[b].client_socket = h.cell[b].client_socket
<1> DEFINE n == CreateNode(h, a, c, t)
           k == PushedHeap(n, q, a)
<1>1. /\ HeapOK(n) /\ h.brk <= n.brk /\ a \in 1 .. n.brk /\ n.cell[a].client_socket = c
      /\ \A b \in 1 .. n.brk \ {a} : b \in 1 .. h.brk /\ n.cell[b] = h.cell[b]
  BY CreateNodeOK
<1> HIDE DEF n
<1>2. /\ HeapOK(k) /\ k.brk = n.brk
      /\ \A b \in Addr : k.cell[b].client_socket = n.cell[b].client_socket
  BY <1>1, PushedHeapOK
<1>3. h.brk \in 0 .. HeapSize /\ n.brk \in 0 .. HeapSize
  BY <1>1 DEF HeapOK
<1> HIDE DEF k
<1>4. QueueOK(k, PushedQueue(q, a))
  BY <1>1, <1>2, <1>3, PushedQueueOK, HeapSizeAssumption
<1>5. \A b \in 1 .. k.brk : b \in Addr
  BY <1>2, <1>3, HeapSizeAssumption DEF Addr
<1>6. ASSUME NEW b \in 1 .. k.brk
      PROVE  \/ k.cell[b].client_socket = c
             \/ b \in 1 .. h.brk /\ k.cell[b].client_socket = h.cell[b].client_socket
  BY <1>1, <1>2, <1>5
<1> QED BY <1>1, <1>2, <1>3, <1>4, <1>6, HeapSizeAssumption DEF n, k

-----------------------------------------------------------------------------
(***************************************************************************)
(* Program counters: one thread moves, or one moves and wakes another.     *)
(***************************************************************************)

\* Main and the log thread are no workers, and the three are threads.
LEMMA ThreadsAreApart ==
  /\ Main \in Threads /\ Logger \in Threads /\ Workers \subseteq Threads
  /\ Main \notin Workers /\ Logger \notin Workers /\ Main # Logger
  /\ NoThread \notin Threads
  /\ \A t \in Threads : t = Main \/ t = Logger \/ t \in Workers
  /\ \A w \in Workers : CodeOf(w) = WorkerLabels
  /\ CodeOf(Main) = MainLabels
  /\ CodeOf(Logger) = LoggerLabels
  BY WorkersAssumption DEF Threads, Main, Logger, NoThread, CodeOf

\* The program counters f and g say the same about who has a connection.
KeepsHolders(f, g) ==
  /\ \A w \in Workers : g[w] \in ServingLabels => f[w] \in ServingLabels
  /\ g[Main] \in HoldingLabels => f[Main] \in HoldingLabels

\* A thread moves within its code.
LEMMA MoveOK ==
  ASSUME NEW f, PcOK(f), NEW t \in Threads, NEW l \in CodeOf(t)
  PROVE  PcOK([f EXCEPT ![t] = l])
<1>1. l \in PcLabels
  BY DEF CodeOf, PcLabels
<1> QED BY <1>1 DEF PcOK

\* A sleeping thread that is woken stays in its code.
LEMMA WokenOK ==
  ASSUME NEW f, PcOK(f), NEW u \in Threads, f[u] \in WaitLabels
  PROVE  /\ Woken(f[u]) \in CodeOf(u)
         /\ Woken(f[u]) \in ServingLabels => f[u] \in ServingLabels
         /\ Woken(f[u]) \in HoldingLabels => f[u] \in HoldingLabels
<1>1. f[u] \in CodeOf(u)
  BY DEF PcOK
<1>2. CASE f[u] = "waitCond1"
  BY <1>1, <1>2 DEF Woken, CodeOf, MainLabels, WorkerLabels, LoggerLabels, ServingLabels, HoldingLabels
<1>3. CASE f[u] = "waitCond2"
  BY <1>1, <1>3 DEF Woken, CodeOf, MainLabels, WorkerLabels, LoggerLabels, ServingLabels, HoldingLabels
<1>4. CASE f[u] = "waitCond3"
  BY <1>1, <1>4 DEF Woken, CodeOf, MainLabels, WorkerLabels, LoggerLabels, ServingLabels, HoldingLabels
<1>5. CASE f[u] = "waitCond4"
  BY <1>1, <1>5 DEF Woken, CodeOf, MainLabels, WorkerLabels, LoggerLabels, ServingLabels, HoldingLabels
<1> QED BY <1>2, <1>3, <1>4, <1>5 DEF WaitLabels

\* A move that takes no connection.
LEMMA GotoKeeps ==
  ASSUME PcOK(pc), NEW t \in Threads, NEW l \in CodeOf(t), Goto(t, l),
         l \in ServingLabels => pc[t] \in ServingLabels \/ t = Main \/ t = Logger,
         l \in HoldingLabels => pc[t] \in HoldingLabels \/ t # Main
  PROVE  PcOK(pc') /\ KeepsHolders(pc, pc')
<1>1. PcOK(pc')
  BY MoveOK DEF Goto
<1>2. pc \in [Threads -> PcLabels] /\ pc' = [pc EXCEPT ![t] = l]
  BY DEF PcOK, Goto
<1>3. ASSUME NEW w \in Workers, pc'[w] \in ServingLabels PROVE pc[w] \in ServingLabels
  BY <1>2, <1>3, ThreadsAreApart
<1>4. ASSUME pc'[Main] \in HoldingLabels PROVE pc[Main] \in HoldingLabels
  BY <1>2, <1>4, ThreadsAreApart
<1> QED BY <1>1, <1>3, <1>4 DEF KeepsHolders

\* pthread_cond_signal moves the signaller and at most one sleeper.
LEMMA SignalKeeps ==
  ASSUME PcOK(pc), NEW t \in Threads, NEW l \in CodeOf(t), NEW x \in WaitLabels,
         Signal(t, x, l),
         l \in ServingLabels => pc[t] \in ServingLabels \/ t = Main \/ t = Logger,
         l \in HoldingLabels => pc[t] \in HoldingLabels \/ t # Main
  PROVE  PcOK(pc') /\ KeepsHolders(pc, pc')
<1>1. CASE Goto(t, l)
  BY <1>1, GotoKeeps
<1>2. ASSUME NEW u \in Threads, pc[u] = x,
             pc' = [pc EXCEPT ![u] = Woken(x), ![t] = l]
      PROVE  PcOK(pc') /\ KeepsHolders(pc, pc')
  <2> DEFINE f == [pc EXCEPT ![u] = Woken(x)]
  <2>1. /\ Woken(x) \in CodeOf(u)
        /\ Woken(x) \in ServingLabels => x \in ServingLabels
        /\ Woken(x) \in HoldingLabels => x \in HoldingLabels
    BY <1>2, WokenOK
  <2>2. PcOK(f)
    BY <2>1, MoveOK
  <2>3. pc' = [f EXCEPT ![t] = l]
    BY <1>2
  <2>4. PcOK(pc')
    BY <2>2, <2>3, MoveOK
  <2>5. pc \in [Threads -> PcLabels]
    BY DEF PcOK
  <2>6. ASSUME NEW w \in Workers, pc'[w] \in ServingLabels PROVE pc[w] \in ServingLabels
    BY <1>2, <2>1, <2>5, <2>6, ThreadsAreApart
  <2>7. ASSUME pc'[Main] \in HoldingLabels PROVE pc[Main] \in HoldingLabels
    BY <1>2, <2>1, <2>5, <2>7, ThreadsAreApart
  <2> QED BY <2>4, <2>6, <2>7 DEF KeepsHolders
<1> QED BY <1>1, <1>2 DEF Signal
-----------------------------------------------------------------------------
(***************************************************************************)
(* Types, pointers and sockets.                                            *)
(***************************************************************************)
TypeInv == TypeOK /\ OnlyAcceptedSockets

\* A step that moves threads without touching the data.
LEMMA PcStepTypeInv ==
  ASSUME TypeInv, PcOK(pc'), KeepsHolders(pc, pc'),
         job_queue_lock' \in Threads \cup {NoThread},
         log_queue_lock' \in Threads \cup {NoThread},
         UNCHANGED <<queues, locals, peers, log_file, halted>>
  PROVE  TypeInv'
<1> USE DEF TypeInv, queues, locals, peers
<1>1. TypeOK'
  BY DEF TypeOK, HeapOK, QueueOK
<1>2. OnlyAcceptedSockets'
  BY DEF OnlyAcceptedSockets, KeepsHolders
<1> QED BY <1>1, <1>2

\* The process ends.
LEMMA HaltTypeInv ==
  ASSUME TypeInv, NEW how \in {"exit", "segv", "abort", "sigpipe", "overwritten"}, Halt(how),
         UNCHANGED <<heap, job_queue, log_queue>>
  PROVE  TypeInv'
<1> USE DEF TypeInv, Halt, queues, locals, peers, locks
<1>1. TypeOK'
  BY DEF TypeOK, HeapOK, QueueOK
<1>2. OnlyAcceptedSockets'
  BY DEF OnlyAcceptedSockets
<1> QED BY <1>1, <1>2

\* A push of either queue, with the moves of the thread that makes it, and what
\* the text of the node takes.
LEMMA PushTypeInv ==
  ASSUME TypeInv, PcOK(pc'), KeepsHolders(pc, pc'),
         NEW q, QueueOK(heap, q), NEW c \in 1 .. accepted, NEW t \in Word, NEW a \in Mallocs(heap),
         NEW k, k = PushedHeap(CreateNode(heap, a, c, t), q, a),
         heap' = k \/ \E b \in {NULL} \cup FreePieces(k) : heap' = TakenByText(k, b),
         \/ job_queue' = PushedQueue(q, a) /\ log_queue' = log_queue
         \/ log_queue' = PushedQueue(q, a) /\ job_queue' = job_queue,
         recycled' \in BOOLEAN,
         job_queue_lock' \in Threads \cup {NoThread},
         log_queue_lock' \in Threads \cup {NoThread},
         UNCHANGED <<locals, peers, log_file, halted>>
  PROVE  TypeInv'
<1>1. TypeOK /\ HeapOK(heap) /\ QueueOK(heap, job_queue) /\ QueueOK(heap, log_queue)
  BY DEF TypeInv, TypeOK
<1>2. c \in Clients /\ accepted' = accepted
  BY <1>1, BoundsAssumption DEF TypeOK, Clients, peers
<1>3. /\ HeapOK(heap') /\ heap.brk \in Nat /\ heap'.brk \in Nat /\ heap.brk <= heap'.brk
      /\ QueueOK(heap', PushedQueue(q, a))
      /\ \A b \in 1 .. heap'.brk :
           \/ heap'.cell[b].client_socket = c
           \/ b \in 1 .. heap.brk /\ heap'.cell[b].client_socket = heap.cell[b].client_socket
  <2>1. /\ HeapOK(k) /\ heap.brk \in Nat /\ k.brk \in Nat /\ heap.brk <= k.brk
        /\ QueueOK(k, PushedQueue(q, a))
        /\ \A b \in 1 .. k.brk :
             \/ k.cell[b].client_socket = c
             \/ b \in 1 .. heap.brk /\ k.cell[b].client_socket = heap.cell[b].client_socket
    BY <1>1, <1>2, PushOK
  <2>2. HeapOK(heap') /\ heap'.cell = k.cell /\ heap'.brk = k.brk
    <3>1. ASSUME NEW b \in {NULL} \cup FreePieces(k), heap' = TakenByText(k, b)
          PROVE  HeapOK(heap') /\ heap'.cell = k.cell /\ heap'.brk = k.brk
      BY <2>1, <3>1, TakenByTextOK
    <3> QED BY <2>1, <3>1
  <2> QED BY <2>1, <2>2 DEF QueueOK
<1>4. QueueOK(heap', job_queue') /\ QueueOK(heap', log_queue')
  BY <1>1, <1>3, SameQueueOK
<1>5. job' \in [Workers -> 0 .. heap'.brk]
  BY <1>1, <1>3 DEF TypeOK, locals
<1>6. TypeOK'
  BY <1>1, <1>3, <1>4, <1>5 DEF TypeOK, locals, peers
<1>7. \A b \in 1 .. heap'.brk : heap'.cell[b].client_socket \in 1 .. accepted'
  BY <1>2, <1>3 DEF TypeInv, OnlyAcceptedSockets
<1>8. OnlyAcceptedSockets'
  BY <1>7 DEF TypeInv, OnlyAcceptedSockets, KeepsHolders, locals, peers
<1> QED BY <1>6, <1>8 DEF TypeInv

\* The state main, create_queue and malloc start from.
LEMMA InitTypeInv == Init => TypeInv
<1> SUFFICES ASSUME Init PROVE TypeInv
  OBVIOUS
<1>1. PcOK(pc)
  BY ThreadsAreApart DEF Init, PcOK, PcLabels, MainLabels, WorkerLabels, LoggerLabels
<1>2. NoWord \in Word
  BY DEF NoWord, Word
<1>3. HeapOK(heap)
  BY <1>2, HeapSizeAssumption DEF Init, HeapOK, Node, Pointer, NULL
<1>4. QueueOK(heap, job_queue) /\ QueueOK(heap, log_queue)
  BY HeapSizeAssumption DEF Init, QueueOK, create_queue, NULL
<1>5. TypeOK
  <2>1. job \in [Workers -> 0 .. heap.brk]
    BY DEF Init, NULL
  <2>2. client_socket \in [Workers -> {0} \cup Clients] /\ word \in [Workers \cup {Logger} -> Word]
    BY <1>2 DEF Init
  <2>3. accepted \in 0 .. MaxClients
    BY BoundsAssumption DEF Init
  <2>4. sent \in [Clients -> Nat] /\ conn \in [Clients -> {"none", "open", "hungup", "closed"}]
    BY DEF Init
  <2>5. log_file \in Seq(Word)
    BY DEF Init
  <2>6. /\ job_queue_lock \in Threads \cup {NoThread} /\ log_queue_lock \in Threads \cup {NoThread}
        /\ halted = "running" /\ recycled = FALSE
    BY DEF Init
  <2> QED BY <1>1, <1>3, <1>4, <2>1, <2>2, <2>3, <2>4, <2>5, <2>6 DEF TypeOK
<1>6. OnlyAcceptedSockets
  BY <1>1, ThreadsAreApart, HeapSizeAssumption
     DEF Init, OnlyAcceptedSockets, ServingLabels, HoldingLabels
<1> QED BY <1>5, <1>6 DEF TypeInv

\* Every step of main keeps types, pointers and sockets.
LEMMA MainTypeInv == TypeInv /\ MainThread => TypeInv'
<1> SUFFICES ASSUME TypeInv, MainThread PROVE TypeInv'
  OBVIOUS
<1> USE ThreadsAreApart
<1>0. TypeOK /\ PcOK(pc)
  BY DEF TypeInv, TypeOK
<1>1. CASE Accept
  <2>1. PcOK(pc')
    BY <1>0, <1>1, MoveOK DEF Accept, Goto, MainLabels
  <2>2. accepted' = accepted + 1 /\ accepted' \in 1 .. MaxClients /\ accepted \in 0 .. MaxClients
    BY <1>0, <1>1, BoundsAssumption DEF Accept, TypeOK
  <2>3. conn' \in [Clients -> {"none", "open", "hungup", "closed"}]
    BY <1>0, <1>1, <2>2 DEF Accept, TypeOK, Clients
  <2>4. UNCHANGED <<locks, queues, locals, sent, log_file, halted>>
    BY <1>1 DEF Accept
  <2>5. TypeOK'
    BY <1>0, <2>1, <2>2, <2>3, <2>4 DEF TypeOK, HeapOK, QueueOK, locks, queues, locals
  <2>6. \A w \in Workers : pc'[w] = pc[w]
    BY <1>0, <1>1 DEF Accept, Goto, PcOK
  <2>7. OnlyAcceptedSockets'
    <3>1. \A b \in 1 .. heap'.brk : heap'.cell[b].client_socket \in 1 .. accepted'
      BY <2>2, <2>4 DEF TypeInv, OnlyAcceptedSockets, queues
    <3>2. \A w \in Workers : pc'[w] \in ServingLabels => client_socket'[w] \in 1 .. accepted'
      BY <2>2, <2>4, <2>6 DEF TypeInv, OnlyAcceptedSockets, locals
    <3>3. accepted' > 0
      BY <2>2
    <3> QED BY <3>1, <3>2, <3>3 DEF OnlyAcceptedSockets
  <2> QED BY <2>5, <2>7 DEF TypeInv
<1>2. CASE MainLocksJobs
  <2>1. pc[Main] = "lockJobs"
    BY <1>2 DEF MainLocksJobs, At
  <2>2. CASE Goto(Main, "waitCond2") /\ UNCHANGED job_queue_lock
    BY <1>0, <1>2, <2>1, <2>2, GotoKeeps, PcStepTypeInv
       DEF MainLocksJobs, MainLabels, ServingLabels, HoldingLabels, TypeOK
  <2>3. CASE Goto(Main, "pushJob") /\ job_queue_lock' = Main
    BY <1>0, <1>2, <2>1, <2>3, GotoKeeps, PcStepTypeInv
       DEF MainLocksJobs, MainLabels, ServingLabels, HoldingLabels, TypeOK
  <2> QED BY <1>2, <2>2, <2>3 DEF MainLocksJobs
<1>3. CASE MainReacquires
  BY <1>0, <1>3, GotoKeeps, PcStepTypeInv
     DEF MainReacquires, ReacquireJobs, At, MainLabels, ServingLabels, HoldingLabels, TypeOK
<1>4. CASE PushJob
  <2>1. pc[Main] = "pushJob" /\ Goto(Main, "signalCond1")
    BY <1>4 DEF PushJob, At
  <2>2. PcOK(pc') /\ KeepsHolders(pc, pc')
    BY <1>0, <2>1, GotoKeeps DEF MainLabels, ServingLabels, HoldingLabels
  <2>3. PICK a \in Mallocs(heap) :
          /\ heap' = PushedHeap(CreateNode(heap, a, accepted, NoWord), job_queue, a)
          /\ job_queue' = PushedQueue(job_queue, a)
          /\ recycled' = (recycled \/ a \in InUse)
    BY <1>4 DEF PushJob
  <2>4. /\ QueueOK(heap, job_queue) /\ accepted \in 1 .. accepted /\ NoWord \in Word
        /\ log_queue_lock \in Threads \cup {NoThread}
    BY <1>0, <2>1, BoundsAssumption
       DEF TypeInv, TypeOK, OnlyAcceptedSockets, HoldingLabels, NoWord, Word
  <2>5. UNCHANGED <<log_queue_lock, log_queue, locals, peers, log_file, halted>>
        /\ job_queue_lock' = NoThread
    BY <1>4 DEF PushJob
  <2> QED BY <2>2, <2>3, <2>4, <2>5, PushTypeInv
<1>5. CASE PushJobDies
  BY <1>5, HaltTypeInv DEF PushJobDies, PushDies, Halt, queues
<1>6. CASE SignalCond1
  BY <1>0, <1>6, SignalKeeps, PcStepTypeInv
     DEF SignalCond1, At, MainLabels, ServingLabels, HoldingLabels, WaitLabels, TypeOK, locks
<1> QED BY <1>1, <1>2, <1>3, <1>4, <1>5, <1>6 DEF MainThread

\* pop moves the front of a queue and frees a node: no cell changes.
LEMMA PopTypeInv ==
  ASSUME TypeInv, PcOK(pc'), KeepsHolders(pc, pc'),
         NEW q, QueueOK(heap, q),
         heap' = PoppedHeap(heap, q),
         \/ job_queue' = PoppedQueue(heap, q) /\ log_queue' = log_queue
         \/ log_queue' = PoppedQueue(heap, q) /\ job_queue' = job_queue,
         job' \in [Workers -> 0 .. heap.brk], word' \in [Workers \cup {Logger} -> Word],
         job_queue_lock' \in Threads \cup {NoThread},
         log_queue_lock' \in Threads \cup {NoThread},
         UNCHANGED <<recycled, client_socket, peers, log_file, halted>>
  PROVE  TypeInv'
<1>1. TypeOK /\ HeapOK(heap) /\ QueueOK(heap, job_queue) /\ QueueOK(heap, log_queue)
  BY DEF TypeInv, TypeOK
<1>2. HeapOK(heap') /\ heap'.brk = heap.brk /\ heap'.cell = heap.cell
  BY <1>1, PoppedHeapOK
<1>3. QueueOK(heap', job_queue') /\ QueueOK(heap', log_queue')
  <2>1. QueueOK(heap, PoppedQueue(heap, q))
    BY <1>1, PoppedQueueOK
  <2>2. QueueOK(heap, job_queue') /\ QueueOK(heap, log_queue')
    BY <1>1, <2>1
  <2> QED BY <1>2, <2>2 DEF QueueOK
<1>4. TypeOK'
  BY <1>1, <1>2, <1>3 DEF TypeOK, peers
<1>5. OnlyAcceptedSockets'
  BY <1>2 DEF TypeInv, OnlyAcceptedSockets, KeepsHolders, peers
<1> QED BY <1>4, <1>5 DEF TypeInv

\* Every step of a worker keeps types, pointers and sockets.
LEMMA WorkerTypeInv ==
  ASSUME TypeInv, NEW w \in Workers, Worker(w)
  PROVE  TypeInv'
<1> USE ThreadsAreApart
<1>0. TypeOK /\ PcOK(pc) /\ w \in Threads /\ w # Main /\ CodeOf(w) = WorkerLabels
  BY DEF TypeInv, TypeOK
<1>1. CASE WorkerLocksJobs(w)
  <2>1. \E l \in {"waitCond1", "popJob"} : Goto(w, l)
    BY <1>1 DEF WorkerLocksJobs
  <2>2. PcOK(pc') /\ KeepsHolders(pc, pc')
    BY <1>0, <2>1, GotoKeeps DEF WorkerLabels, ServingLabels
  <2> QED BY <1>0, <1>1, <2>2, PcStepTypeInv DEF WorkerLocksJobs, TypeOK
<1>2. CASE WorkerReacquiresJobs(w)
  <2>1. PcOK(pc') /\ KeepsHolders(pc, pc')
    BY <1>0, <1>2, GotoKeeps DEF WorkerReacquiresJobs, ReacquireJobs, WorkerLabels, ServingLabels
  <2> QED BY <1>0, <1>2, <2>1, PcStepTypeInv DEF WorkerReacquiresJobs, ReacquireJobs, TypeOK
<1>3. CASE PopJob(w)
  <2>1. PcOK(pc') /\ KeepsHolders(pc, pc')
    BY <1>0, <1>3, GotoKeeps DEF PopJob, WorkerLabels, ServingLabels
  <2>2. job' \in [Workers -> 0 .. heap.brk]
    BY <1>0, <1>3 DEF PopJob, TypeOK, QueueOK
  <2> QED BY <1>0, <1>3, <2>1, <2>2, PopTypeInv DEF PopJob, TypeOK
<1>4. CASE PopJobAborts(w)
  BY <1>4, HaltTypeInv DEF PopJobAborts, Halt, queues
<1>5. CASE SignalCond2(w)
  <2>1. PcOK(pc') /\ KeepsHolders(pc, pc')
    BY <1>0, <1>5, SignalKeeps DEF SignalCond2, WorkerLabels, ServingLabels, WaitLabels
  <2> QED BY <1>0, <1>5, <2>1, PcStepTypeInv DEF SignalCond2, TypeOK, locks
<1>6. CASE ReadSocket(w)
  <2>1. pc[w] = "readSocket" /\ Goto(w, "serve") /\ job[w] # NULL
    BY <1>6 DEF ReadSocket, At
  <2>2. PcOK(pc')
    BY <1>0, <2>1, MoveOK DEF Goto, WorkerLabels
  <2>3. job[w] \in 1 .. heap.brk /\ heap.brk \in 0 .. HeapSize
    BY <1>0, <2>1, HeapSizeAssumption DEF TypeOK, HeapOK, NULL
  <2> DEFINE c == heap.cell[job[w]].client_socket
  <2>4. c \in 1 .. accepted /\ c \in {0} \cup Clients
    BY <1>0, <2>3, BoundsAssumption DEF TypeInv, OnlyAcceptedSockets, TypeOK, Clients
  <2>5. /\ client_socket' = [client_socket EXCEPT ![w] = c]
        /\ UNCHANGED <<locks, queues, job, word, peers, log_file, halted>>
    BY <1>6 DEF ReadSocket
  <2>6. client_socket' \in [Workers -> {0} \cup Clients]
    BY <1>0, <2>4, <2>5 DEF TypeOK
  <2>7. TypeOK'
    BY <1>0, <2>2, <2>5, <2>6 DEF TypeOK, HeapOK, QueueOK, locks, queues, peers
  <2>8. \A v \in Workers : pc'[v] \in ServingLabels => client_socket'[v] \in 1 .. accepted'
    <3> SUFFICES ASSUME NEW v \in Workers, pc'[v] \in ServingLabels
                 PROVE  client_socket'[v] \in 1 .. accepted'
      OBVIOUS
    <3>1. client_socket \in [Workers -> {0} \cup Clients] /\ pc \in [Threads -> PcLabels]
      BY <1>0 DEF TypeOK, PcOK
    <3>2. CASE v = w
      BY <2>4, <2>5, <3>1, <3>2 DEF peers
    <3>3. CASE v # w
      <4>1. pc'[v] = pc[v] /\ client_socket'[v] = client_socket[v]
        BY <2>1, <2>5, <3>1, <3>3 DEF Goto
      <4> QED BY <2>5, <4>1 DEF TypeInv, OnlyAcceptedSockets, peers
    <3> QED BY <3>2, <3>3
  <2>9. pc'[Main] = pc[Main]
    BY <1>0, <2>1 DEF Goto, PcOK
  <2>10. OnlyAcceptedSockets'
    BY <2>5, <2>8, <2>9 DEF TypeInv, OnlyAcceptedSockets, queues, peers
  <2> QED BY <2>7, <2>10 DEF TypeInv
<1>7. CASE ReadSocketFaults(w)
  BY <1>7, HaltTypeInv DEF ReadSocketFaults, Halt, queues
<1>8. CASE \E last \in BOOLEAN : Serve(w, last)
  <2>1. PICK last \in BOOLEAN : Serve(w, last)
    BY <1>8
  <2> DEFINE c == client_socket[w]
  <2>2. pc[w] = "serve" /\ Goto(w, "lockLog")
        /\ UNCHANGED <<locks, queues, job, client_socket, accepted, conn, log_file, halted>>
    BY <2>1 DEF Serve, At
  <2>3. PcOK(pc') /\ KeepsHolders(pc, pc')
    BY <1>0, <2>2, GotoKeeps DEF WorkerLabels, ServingLabels
  <2>4. c \in Clients
    BY <1>0, <2>2, BoundsAssumption
       DEF TypeInv, OnlyAcceptedSockets, TypeOK, Clients, ServingLabels
  <2>5. sent' = [sent EXCEPT ![c] = @ + 1] /\ sent' \in [Clients -> Nat]
    BY <1>0, <2>1, <2>4 DEF Serve, TypeOK
  <2>6. [client |-> c, no |-> sent'[c], last |-> last] \in Word
    BY <2>4, <2>5 DEF Word
  <2>7. word' \in [Workers \cup {Logger} -> Word]
    BY <1>0, <2>1, <2>6 DEF Serve, TypeOK
  <2>8. TypeOK'
    BY <1>0, <2>2, <2>3, <2>5, <2>7 DEF TypeOK, HeapOK, QueueOK, locks, queues
  <2>9. OnlyAcceptedSockets'
    BY <2>2, <2>3 DEF TypeInv, OnlyAcceptedSockets, KeepsHolders, queues
  <2> QED BY <2>8, <2>9 DEF TypeInv
<1>9. CASE WorkerLocksLog(w)
  <2>1. pc[w] \in ServingLabels /\ \E l \in {"waitCond4", "pushLog"} : Goto(w, l)
    BY <1>9 DEF WorkerLocksLog, At, ServingLabels
  <2>2. PcOK(pc') /\ KeepsHolders(pc, pc')
    BY <1>0, <2>1, GotoKeeps DEF WorkerLabels
  <2> QED BY <1>0, <1>9, <2>2, PcStepTypeInv DEF WorkerLocksLog, TypeOK
<1>10. CASE WorkerReacquiresLog(w)
  <2>1. PcOK(pc') /\ KeepsHolders(pc, pc')
    BY <1>0, <1>10, GotoKeeps
       DEF WorkerReacquiresLog, ReacquireLog, At, WorkerLabels, ServingLabels
  <2> QED BY <1>0, <1>10, <2>1, PcStepTypeInv DEF WorkerReacquiresLog, ReacquireLog, TypeOK
<1>11. CASE PushLog(w)
  <2>1. pc[w] \in ServingLabels /\ Goto(w, "signalCond3")
    BY <1>11 DEF PushLog, At, ServingLabels
  <2>2. PcOK(pc') /\ KeepsHolders(pc, pc')
    BY <1>0, <2>1, GotoKeeps DEF WorkerLabels
  <2>3. PICK a \in Mallocs(heap) :
          LET k == PushedHeap(CreateNode(heap, a, client_socket[w], word[w]), log_queue, a) IN
          /\ \E b \in {NULL} \cup FreePieces(k) : heap' = TakenByText(k, b)
          /\ log_queue' = PushedQueue(log_queue, a)
          /\ recycled' = (recycled \/ a \in InUse)
    BY <1>11 DEF PushLog
  <2>4. /\ QueueOK(heap, log_queue) /\ client_socket[w] \in 1 .. accepted /\ word[w] \in Word
        /\ job_queue_lock \in Threads \cup {NoThread}
    BY <1>0, <2>1 DEF TypeInv, TypeOK, OnlyAcceptedSockets
  <2>5. UNCHANGED <<job_queue_lock, job_queue, locals, peers, log_file, halted>>
        /\ log_queue_lock' = NoThread
    BY <1>11 DEF PushLog
  <2> QED BY <2>2, <2>3, <2>4, <2>5, PushTypeInv
<1>12. CASE PushLogDies(w)
  BY <1>12, HaltTypeInv DEF PushLogDies, PushDies, Halt, queues
<1>13. CASE SignalCond3(w)
  <2>1. pc[w] = "signalCond3" /\ \E l \in {"lockJobs", "serve"} : Signal(w, "waitCond3", l)
    BY <1>13 DEF SignalCond3, At
  <2>2. PcOK(pc') /\ KeepsHolders(pc, pc')
    BY <1>0, <2>1, SignalKeeps DEF WorkerLabels, ServingLabels, WaitLabels
  <2>3. conn' \in [Clients -> {"none", "open", "hungup", "closed"}]
    BY <1>0, <1>13 DEF SignalCond3, TypeOK
  <2>4. UNCHANGED <<locks, queues, locals, accepted, sent, log_file, halted>>
    BY <1>13 DEF SignalCond3
  <2>5. TypeOK'
    BY <1>0, <2>2, <2>3, <2>4 DEF TypeOK, HeapOK, QueueOK, locks, queues, locals
  <2>6. OnlyAcceptedSockets'
    BY <2>2, <2>4 DEF TypeInv, OnlyAcceptedSockets, KeepsHolders, queues, locals
  <2> QED BY <2>5, <2>6 DEF TypeInv
<1> QED BY <1>1, <1>2, <1>3, <1>4, <1>5, <1>6, <1>7, <1>8, <1>9, <1>10, <1>11, <1>12, <1>13
        DEF Worker

\* Every step of the log thread keeps types, pointers and sockets.
LEMMA LogThreadTypeInv == TypeInv /\ LogThread => TypeInv'
<1> SUFFICES ASSUME TypeInv, LogThread PROVE TypeInv'
  OBVIOUS
<1> USE ThreadsAreApart
<1>0. TypeOK /\ PcOK(pc)
  BY DEF TypeInv, TypeOK
<1>1. CASE LoggerLocksLog
  <2>1. \E l \in {"waitCond3", "popLog"} : Goto(Logger, l)
    BY <1>1 DEF LoggerLocksLog
  <2>2. PcOK(pc') /\ KeepsHolders(pc, pc')
    BY <1>0, <2>1, GotoKeeps DEF LoggerLabels
  <2> QED BY <1>0, <1>1, <2>2, PcStepTypeInv DEF LoggerLocksLog, TypeOK
<1>2. CASE LoggerReacquires
  <2>1. PcOK(pc') /\ KeepsHolders(pc, pc')
    BY <1>0, <1>2, GotoKeeps DEF LoggerReacquires, ReacquireLog, LoggerLabels
  <2> QED BY <1>0, <1>2, <2>1, PcStepTypeInv DEF LoggerReacquires, ReacquireLog, TypeOK
<1>3. CASE PopLog
  <2>1. PcOK(pc') /\ KeepsHolders(pc, pc')
    BY <1>0, <1>3, GotoKeeps DEF PopLog, LoggerLabels
  <2>2. log_queue.front \in Addr
    BY <1>0, <1>3, HeapSizeAssumption DEF PopLog, TypeOK, QueueOK, HeapOK, Addr, NULL
  <2>3. word' \in [Workers \cup {Logger} -> Word]
    BY <1>0, <1>3, <2>2 DEF PopLog, TypeOK, HeapOK, Node
  <2> QED BY <1>0, <1>3, <2>1, <2>3, PopTypeInv DEF PopLog, TypeOK
<1>4. CASE PopLogFaults
  BY <1>4, HaltTypeInv DEF PopLogFaults, Halt, queues
<1>5. CASE PopLogAborts
  BY <1>5, HaltTypeInv DEF PopLogAborts, Halt, queues
<1>6. CASE SignalCond4
  <2>1. \E l \in {"lockLog", "write"} : Signal(Logger, "waitCond4", l)
    BY <1>6 DEF SignalCond4
  <2>2. PcOK(pc') /\ KeepsHolders(pc, pc')
    BY <1>0, <2>1, SignalKeeps DEF LoggerLabels, WaitLabels
  <2> QED BY <1>0, <1>6, <2>2, PcStepTypeInv DEF SignalCond4, TypeOK, locks
<1>7. CASE WriteLog
  <2>1. PcOK(pc') /\ KeepsHolders(pc, pc')
    BY <1>0, <1>7, GotoKeeps DEF WriteLog, LoggerLabels
  <2>2. log_file' \in Seq(Word)
    BY <1>0, <1>7 DEF WriteLog, TypeOK
  <2>3. UNCHANGED <<locks, queues, locals, peers, halted>>
    BY <1>7 DEF WriteLog
  <2>4. TypeOK'
    BY <1>0, <2>1, <2>2, <2>3 DEF TypeOK, HeapOK, QueueOK, locks, queues, locals, peers
  <2>5. OnlyAcceptedSockets'
    BY <2>1, <2>3 DEF TypeInv, OnlyAcceptedSockets, KeepsHolders, queues, locals, peers
  <2> QED BY <2>4, <2>5 DEF TypeInv
<1>8. CASE WriteLogDies
  BY <1>8, HaltTypeInv DEF WriteLogDies, Halt, queues
<1> QED BY <1>1, <1>2, <1>3, <1>4, <1>5, <1>6, <1>7, <1>8 DEF LogThread

\* Spurious wakeups and what clients do.
LEMMA OthersTypeInv ==
  ASSUME TypeInv,
         \/ \E t \in SpuriousWakeups : SpuriousWakeup(t)
         \/ MainBrokenPipe \/ \E w \in Workers : WorkerBrokenPipe(w)
         \/ \E c \in Hangups : Hangup(c)
         \/ UNCHANGED vars
  PROVE  TypeInv'
<1> USE ThreadsAreApart
<1>0. TypeOK /\ PcOK(pc) /\ pc \in [Threads -> PcLabels]
  BY DEF TypeInv, TypeOK, PcOK
<1>1. ASSUME NEW t \in SpuriousWakeups, SpuriousWakeup(t) PROVE TypeInv'
  <2>1. t \in Threads /\ pc[t] \in WaitLabels /\ Goto(t, Woken(pc[t]))
    BY <1>1, BoundsAssumption DEF SpuriousWakeup, Threads
  <2>2. /\ Woken(pc[t]) \in CodeOf(t)
        /\ Woken(pc[t]) \in ServingLabels => pc[t] \in ServingLabels
        /\ Woken(pc[t]) \in HoldingLabels => pc[t] \in HoldingLabels
    BY <1>0, <2>1, WokenOK
  <2>3. PcOK(pc') /\ KeepsHolders(pc, pc')
    BY <1>0, <2>1, <2>2, GotoKeeps
  <2> QED BY <1>0, <1>1, <2>3, PcStepTypeInv DEF SpuriousWakeup, TypeOK, locks
<1>2. CASE MainBrokenPipe
  BY <1>2, HaltTypeInv DEF MainBrokenPipe, Halt, queues
<1>3. ASSUME NEW w \in Workers, WorkerBrokenPipe(w) PROVE TypeInv'
  BY <1>3, HaltTypeInv DEF WorkerBrokenPipe, Halt, queues
<1>4. ASSUME NEW c \in Hangups, Hangup(c) PROVE TypeInv'
  <2>1. UNCHANGED <<pc, locks, queues, locals, accepted, sent, log_file, halted>>
    BY <1>4 DEF Hangup
  <2>2. conn' \in [Clients -> {"none", "open", "hungup", "closed"}]
    BY <1>0, <1>4 DEF Hangup, TypeOK
  <2>3. TypeOK'
    BY <1>0, <2>1, <2>2 DEF TypeOK, HeapOK, QueueOK, locks, queues, locals
  <2>4. OnlyAcceptedSockets'
    BY <2>1 DEF TypeInv, OnlyAcceptedSockets, queues, locals
  <2> QED BY <2>3, <2>4 DEF TypeInv
<1>5. CASE UNCHANGED vars
  <2>1. PcOK(pc') /\ KeepsHolders(pc, pc')
    BY <1>0, <1>5 DEF vars, KeepsHolders
  <2> QED BY <1>0, <1>5, <2>1, PcStepTypeInv DEF vars, TypeOK, locks
<1> QED BY <1>1, <1>2, <1>3, <1>4, <1>5

\* TypeInv is inductive.
LEMMA NextTypeInv == TypeInv /\ [Next]_vars => TypeInv'
  BY MainTypeInv, WorkerTypeInv, LogThreadTypeInv, OthersTypeInv DEF Next

\* In every run of the server, for every number of threads, cells, clients and
\* nodes: until a text (line 350) or a FILE (line 658) is put into a node still
\* in use, each variable keeps its type and no pointer leaves the memory malloc
\* handed out, although pop frees nodes that are still linked (line 421).
THEOREM TypeCorrect == Spec => []TypeOK
<1>1. TypeInv => TypeOK
  BY DEF TypeInv
<1> QED BY <1>1, InitTypeInv, NextTypeInv, PTL DEF Spec

\* The server only talks to connections accept returned: a worker that reads a
\* node which was freed and made a node again (line 473) still finds a socket
\* that was accepted, never an uninitialised one.  A text or a FILE put into a
\* node still in use ends what is known (lines 350 and 658).
THEOREM SocketsAccepted == Spec => []SocketsAreAccepted
<1>1. TypeInv => SocketsAreAccepted
  BY DEF TypeInv, SocketsAreAccepted
<1> QED BY <1>1, InitTypeInv, NextTypeInv, PTL DEF Spec

-----------------------------------------------------------------------------
(***************************************************************************)
(* Mutual exclusion, the wakeups and the bounds of the two queues.  All of *)
(* it is arithmetic on how many threads stand at certain calls, so the     *)
(* first lemmas say how a step changes these counts.                       *)
(***************************************************************************)

Count(f, labels) == Cardinality({t \in Threads : f[t] \in labels})

Bit(label, labels) == IF label \in labels THEN 1 ELSE 0

\* The threads are finitely many, so counts are natural numbers.
LEMMA CountType ==
  ASSUME NEW f, NEW labels
  PROVE  /\ IsFiniteSet({t \in Threads : f[t] \in labels})
         /\ Count(f, labels) \in Nat
         /\ Count(f, labels) = 0 <=> \A t \in Threads : f[t] \notin labels
<1>1. IsFiniteSet(Threads)
  <2>1. IsFiniteSet(Workers \cup {Main})
    BY FS_AddElement, WorkersAssumption
  <2>2. IsFiniteSet((Workers \cup {Main}) \cup {Logger})
    BY <2>1, FS_AddElement
  <2>3. Threads = (Workers \cup {Main}) \cup {Logger}
    BY DEF Threads
  <2> QED BY <2>2, <2>3
<1> DEFINE S == {t \in Threads : f[t] \in labels}
<1>2. IsFiniteSet(S)
  BY <1>1, FS_Subset
<1>3. Cardinality(S) \in Nat /\ (Cardinality(S) = 0 <=> S = {})
  BY <1>2, FS_CardinalityType, FS_EmptySet
<1> QED BY <1>2, <1>3 DEF Count

\* One thread moves: it leaves one count and enters another.
LEMMA CountMove ==
  ASSUME NEW f, PcOK(f), NEW t \in Threads, NEW l
  PROVE  \A labels : Count([f EXCEPT ![t] = l], labels)
                       = Count(f, labels) + Bit(l, labels) - Bit(f[t], labels)
<1> TAKE labels
<1> DEFINE g == [f EXCEPT ![t] = l]
           A == {u \in Threads : f[u] \in labels}
           B == {u \in Threads : g[u] \in labels}
           R == A \ {t}
<1>1. IsFiniteSet(A) /\ Cardinality(A) \in Nat
  BY CountType, FS_CardinalityType
<1>2. \A u \in Threads : g[u] = IF u = t THEN l ELSE f[u]
  BY DEF PcOK
<1>3. IsFiniteSet(R) /\ Cardinality(R) = Cardinality(A) - Bit(f[t], labels)
  <2>1. Bit(f[t], labels) = IF t \in A THEN 1 ELSE 0
    BY DEF Bit
  <2>2. IsFiniteSet(R) /\ Cardinality(R) = IF t \in A THEN Cardinality(A) - 1 ELSE Cardinality(A)
    <3> HIDE DEF A
    <3> QED BY <1>1, FS_RemoveElement
  <2> QED BY <1>1, <2>1, <2>2
<1>4. Cardinality(R) \in Nat /\ t \notin R
  BY <1>3, FS_CardinalityType
<1>5. Cardinality(B) = Cardinality(R) + Bit(l, labels)
  <2>1. CASE l \in labels
    <3>1. B = R \cup {t}
      BY <1>2, <2>1
    <3>2. Cardinality(R \cup {t}) = Cardinality(R) + 1
      BY <1>3, <1>4, FS_AddElement
    <3> QED BY <3>1, <3>2, <2>1 DEF Bit
  <2>2. CASE l \notin labels
    <3>1. B = R
      BY <1>2, <2>2
    <3>2. Bit(l, labels) = 0
      BY <2>2 DEF Bit
    <3> QED BY ONLY <3>1, <3>2, <1>4
  <2> QED BY <2>1, <2>2
<1>6. Bit(l, labels) \in Nat /\ Bit(f[t], labels) \in Nat
  BY DEF Bit
<1> HIDE DEF A, B, R, g
<1>7. Cardinality(B) = Cardinality(A) + Bit(l, labels) - Bit(f[t], labels)
  BY <1>1, <1>3, <1>4, <1>5, <1>6
<1> QED BY <1>7 DEF Count, A, B, g

\* The same for a step of the server.
LEMMA CountGoto ==
  ASSUME PcOK(pc), NEW t \in Threads, NEW l, Goto(t, l)
  PROVE  \A labels : Count(pc', labels) = Count(pc, labels) + Bit(l, labels) - Bit(pc[t], labels)
<1>1. pc' = [pc EXCEPT ![t] = l]
  BY DEF Goto
<1>2. \A labels : Count([pc EXCEPT ![t] = l], labels)
                    = Count(pc, labels) + Bit(l, labels) - Bit(pc[t], labels)
  BY ONLY PcOK(pc), t \in Threads, CountMove
<1> QED BY ONLY <1>1, <1>2

\* pthread_cond_signal by t: nobody slept, or one sleeper is woken.
LEMMA CountSignal ==
  ASSUME PcOK(pc), NEW t \in Threads, NEW l, NEW x \in WaitLabels, pc[t] \notin WaitLabels,
         Signal(t, x, l)
  PROVE  \/ /\ Count(pc, {x}) = 0
            /\ \A labels : Count(pc', labels) = Count(pc, labels) + Bit(l, labels) - Bit(pc[t], labels)
         \/ /\ Count(pc, {x}) > 0
            /\ \A labels : Count(pc', labels)
                 = Count(pc, labels) + Bit(Woken(x), labels) - Bit(x, labels)
                   + Bit(l, labels) - Bit(pc[t], labels)
<1>1. CASE {u \in Threads : pc[u] = x} = {} /\ Goto(t, l)
  <2>1. Count(pc, {x}) = 0
    BY <1>1, CountType
  <2>2. \A labels : Count(pc', labels) = Count(pc, labels) + Bit(l, labels) - Bit(pc[t], labels)
    BY ONLY PcOK(pc), t \in Threads, <1>1, CountGoto
  <2> QED BY <2>1, <2>2
<1>2. ASSUME NEW u \in Threads, pc[u] = x, pc' = [pc EXCEPT ![u] = Woken(x), ![t] = l]
      PROVE  /\ Count(pc, {x}) > 0
             /\ \A labels : Count(pc', labels)
                  = Count(pc, labels) + Bit(Woken(x), labels) - Bit(x, labels)
                    + Bit(l, labels) - Bit(pc[t], labels)
  <2>1. Count(pc, {x}) \in Nat /\ Count(pc, {x}) # 0
    BY <1>2, CountType
  <2> DEFINE f == [pc EXCEPT ![u] = Woken(x)]
  <2>2. PcOK(f)
    BY <1>2, WokenOK, MoveOK
  <2>3. f[t] = pc[t]
    BY <1>2 DEF PcOK
  <2>4. pc' = [f EXCEPT ![t] = l]
    BY <1>2
  <2>5. ASSUME NEW labels
        PROVE  Count(pc', labels)
                 = Count(pc, labels) + Bit(Woken(x), labels) - Bit(x, labels)
                   + Bit(l, labels) - Bit(pc[t], labels)
    <3>1. Count(f, labels) = Count(pc, labels) + Bit(Woken(x), labels) - Bit(pc[u], labels)
      BY ONLY PcOK(pc), u \in Threads, CountMove
    <3>2. Count(pc', labels) = Count(f, labels) + Bit(l, labels) - Bit(pc[t], labels)
      <4> DEFINE g == [f EXCEPT ![t] = l]
      <4>1. Count(g, labels) = Count(f, labels) + Bit(l, labels) - Bit(f[t], labels)
        <5> HIDE DEF f
        <5> QED BY ONLY <2>2, t \in Threads, CountMove
      <4> QED BY <2>3, <2>4, <4>1
    <3> QED BY <3>1, <3>2, <1>2
  <2> QED BY <2>1, <2>5
<1> QED BY <1>1, <1>2 DEF Signal

\* A count is at most the size of a set all counted threads are in.
LEMMA CountAtMost ==
  ASSUME NEW f, NEW labels, NEW T, IsFiniteSet(T), \A t \in Threads : f[t] \in labels => t \in T
  PROVE  Count(f, labels) <= Cardinality(T)
<1>1. {t \in Threads : f[t] \in labels} \in SUBSET T
  OBVIOUS
<1> QED BY <1>1, FS_Subset DEF Count

\* f and g agree on which threads are at which of those labels.
SameAt(f, g, labels) ==
  \A t \in Threads : f[t] = g[t] \/ (f[t] \notin labels /\ g[t] \notin labels)

\* Then the counts agree as well.
LEMMA CountSame ==
  ASSUME NEW f, NEW g, NEW all, SameAt(f, g, all), NEW labels, labels \subseteq all
  PROVE  Count(f, labels) = Count(g, labels)
<1>1. {t \in Threads : f[t] \in labels} = {t \in Threads : g[t] \in labels}
  BY DEF SameAt
<1> QED BY <1>1 DEF Count

\* Moves between other labels.
LEMMA GotoSame ==
  ASSUME PcOK(pc), NEW t \in Threads, NEW l, NEW labels, Goto(t, l),
         l \notin labels, pc[t] \notin labels
  PROVE  SameAt(pc, pc', labels)
  BY DEF Goto, PcOK, SameAt

LEMMA SignalSame ==
  ASSUME PcOK(pc), NEW t \in Threads, NEW l, NEW x, NEW labels, Signal(t, x, l),
         l \notin labels, pc[t] \notin labels, x \notin labels, Woken(x) \notin labels
  PROVE  SameAt(pc, pc', labels)
<1>1. CASE Goto(t, l)
  BY <1>1, GotoSame
<1>2. ASSUME NEW u \in Threads, pc[u] = x, pc' = [pc EXCEPT ![u] = Woken(x), ![t] = l]
      PROVE  SameAt(pc, pc', labels)
  BY <1>2 DEF PcOK, SameAt
<1> QED BY <1>1, <1>2 DEF Signal

-----------------------------------------------------------------------------
(***************************************************************************)
(* Who holds a mutex.                                                      *)
(***************************************************************************)
\* Exactly the holder is at one of the labels between lock and unlock.
Held(f, lock, labels) == \A t \in Threads : f[t] \in labels <=> lock = t

\* A thread gets a free mutex, gives its own back, or does neither.
LEMMA HeldEnter ==
  ASSUME PcOK(pc), NEW t \in Threads, NEW l, NEW labels, Goto(t, l), l \in labels,
         Held(pc, NoThread, labels)
  PROVE  Held(pc', t, labels)
  BY ThreadsAreApart DEF Held, Goto, PcOK

LEMMA HeldLeave ==
  ASSUME PcOK(pc), NEW t \in Threads, NEW l, NEW labels, NEW lock, Goto(t, l), l \notin labels,
         pc[t] \in labels, Held(pc, lock, labels)
  PROVE  Held(pc', NoThread, labels)
  BY ThreadsAreApart DEF Held, Goto, PcOK

LEMMA HeldSame ==
  ASSUME NEW f, NEW g, NEW all, SameAt(f, g, all), NEW labels, labels \subseteq all,
         NEW lock, Held(f, lock, labels)
  PROVE  Held(g, lock, labels)
  BY DEF Held, SameAt

-----------------------------------------------------------------------------
(***************************************************************************)
(* The job queue.                                                          *)
(***************************************************************************)
JobLabels == {"waitCond1", "wokenCond1", "popJob", "signalCond1",
              "waitCond2", "wokenCond2", "pushJob", "signalCond2"}

JobsHeld == Held(pc, job_queue_lock, {"pushJob", "popJob"})

\* While a worker sleeps, each job has a worker awake or a signal to come.
JobsAwaited ==
  Count(pc, {"waitCond1"}) > 0 =>
    job_queue.queue_size <= Count(pc, {"wokenCond1", "popJob"}) + Count(pc, {"signalCond1"})

\* While main sleeps and there is room, a signal is to come.
RoomAwaited ==
  Count(pc, {"waitCond2"}) > 0 /\ job_queue.queue_size < cellAmount =>
    Count(pc, {"signalCond2"}) > 0

\* Jobs, main on its way to a push and signals that may send it there are
\* bounded together.
JobsBounded ==
  Main \notin SpuriousWakeups =>
    job_queue.queue_size + Count(pc, {"signalCond2"}) + Count(pc, {"wokenCond2", "pushJob"})
      <= cellAmount + Cardinality(Workers)

JobSync == JobsHeld /\ JobsAwaited /\ RoomAwaited /\ JobsBounded

\* Which threads can be at which of these calls.
LEMMA JobCounts ==
  ASSUME NEW f, PcOK(f)
  PROVE  /\ Count(f, {"waitCond2"}) <= 1
         /\ Count(f, {"wokenCond2", "pushJob"}) <= 1
         /\ Count(f, {"signalCond2"}) <= Cardinality(Workers)
         /\ \A labels : Count(f, labels) \in Nat
         /\ Cardinality(Workers) \in Nat
<1>1. IsFiniteSet({Main}) /\ Cardinality({Main}) = 1 /\ IsFiniteSet(Workers)
      /\ Cardinality(Workers) \in Nat
  BY WorkersAssumption, FS_Singleton, FS_CardinalityType
<1>2. \A t \in Threads : f[t] \in CodeOf(t)
  BY DEF PcOK
<1>3. \A t \in Threads : f[t] \in {"waitCond2"} => t \in {Main}
  BY <1>2, ThreadsAreApart DEF CodeOf, WorkerLabels, LoggerLabels
<1>4. \A t \in Threads : f[t] \in {"wokenCond2", "pushJob"} => t \in {Main}
  BY <1>2, ThreadsAreApart DEF CodeOf, WorkerLabels, LoggerLabels
<1>5. \A t \in Threads : f[t] \in {"signalCond2"} => t \in Workers
  BY <1>2, ThreadsAreApart DEF CodeOf, MainLabels, LoggerLabels
<1>6. Count(f, {"waitCond2"}) <= 1
  BY <1>1, <1>3, CountAtMost
<1>7. Count(f, {"wokenCond2", "pushJob"}) <= 1
  BY <1>1, <1>4, CountAtMost
<1>8. Count(f, {"signalCond2"}) <= Cardinality(Workers)
  BY <1>1, <1>5, CountAtMost
<1>9. \A labels : Count(f, labels) \in Nat
  BY CountType
<1> QED BY <1>1, <1>6, <1>7, <1>8, <1>9

\* Steps that have nothing to do with the job queue.
LEMMA JobSyncKept ==
  ASSUME JobSync, SameAt(pc, pc', JobLabels), UNCHANGED <<job_queue, job_queue_lock>>
  PROVE  JobSync'
<1>1. /\ Count(pc', {"waitCond1"}) = Count(pc, {"waitCond1"})
      /\ Count(pc', {"wokenCond1", "popJob"}) = Count(pc, {"wokenCond1", "popJob"})
      /\ Count(pc', {"signalCond1"}) = Count(pc, {"signalCond1"})
      /\ Count(pc', {"waitCond2"}) = Count(pc, {"waitCond2"})
      /\ Count(pc', {"signalCond2"}) = Count(pc, {"signalCond2"})
      /\ Count(pc', {"wokenCond2", "pushJob"}) = Count(pc, {"wokenCond2", "pushJob"})
  BY CountSame DEF JobLabels
<1>2. JobsHeld'
  BY HeldSame DEF JobSync, JobsHeld, JobLabels
<1> QED BY <1>1, <1>2 DEF JobSync, JobsAwaited, RoomAwaited, JobsBounded

\* Every step of main keeps JobSync.
LEMMA MainJobSync == TypeInv /\ JobSync /\ MainThread => JobSync'
<1> SUFFICES ASSUME TypeInv, JobSync, MainThread PROVE JobSync'
  OBVIOUS
<1>0. /\ PcOK(pc) /\ PcOK(pc') /\ Main \in Threads /\ cellAmount \in Nat \ {0}
      /\ job_queue.queue_size \in Int
  BY MainTypeInv, ThreadsAreApart, CellsAssumption DEF TypeInv, TypeOK, QueueOK
<1>nat. \A labels : Count(pc, labels) \in Nat
  BY CountType
<1> DEFINE Moved(a, l) ==
             \A labels : Count(pc', labels) = Count(pc, labels) + Bit(l, labels) - Bit(a, labels)
           MovedAndWoken(a, l, x) ==
             \A labels : Count(pc', labels)
               = Count(pc, labels) + Bit(Woken(x), labels) - Bit(x, labels) + Bit(l, labels) - Bit(a, labels)
<1>1. CASE Accept
  <2>1. SameAt(pc, pc', JobLabels)
    BY <1>0, <1>1, GotoSame DEF Accept, At, JobLabels
  <2> QED BY <1>1, <2>1, JobSyncKept DEF Accept, queues, locks
<1>2. CASE MainLocksJobs
  <2>1. CASE job_queue.queue_size >= cellAmount
    <3>1. pc[Main] = "lockJobs" /\ Goto(Main, "waitCond2") /\ UNCHANGED job_queue_lock
          /\ job_queue.queue_size >= cellAmount /\ UNCHANGED job_queue
      BY <1>0, <1>2, <2>1 DEF MainLocksJobs, At, queues
    <3>2. Moved("lockJobs", "waitCond2")
      BY ONLY <1>0, <3>1, CountGoto
    <3>3. JobsHeld'
      <4>1. SameAt(pc, pc', {"pushJob", "popJob"})
        BY <1>0, <3>1, GotoSame
      <4> QED BY <3>1, <4>1, HeldSame DEF JobSync, JobsHeld
    <3>4. /\ Count(pc', {"waitCond1"}) = Count(pc, {"waitCond1"})
          /\ Count(pc', {"wokenCond1", "popJob"}) = Count(pc, {"wokenCond1", "popJob"})
          /\ Count(pc', {"signalCond1"}) = Count(pc, {"signalCond1"})
          /\ Count(pc', {"waitCond2"}) = Count(pc, {"waitCond2"}) + 1
          /\ Count(pc', {"signalCond2"}) = Count(pc, {"signalCond2"})
          /\ Count(pc', {"wokenCond2", "pushJob"}) = Count(pc, {"wokenCond2", "pushJob"})
      BY ONLY <1>nat, <3>2 DEF Bit
    <3>5. JobsAwaited'
      BY <1>0, <3>1, <3>4, JobCounts DEF JobSync, JobsAwaited
    <3>6. RoomAwaited'
      BY <1>0, <3>1, <3>4, JobCounts DEF JobSync, RoomAwaited
    <3>7. JobsBounded'
      BY <1>0, <3>1, <3>4, JobCounts DEF JobSync, JobsBounded
    <3> QED BY <3>3, <3>5, <3>6, <3>7 DEF JobSync
  <2>2. CASE job_queue.queue_size < cellAmount
    <3>1. pc[Main] = "lockJobs" /\ Goto(Main, "pushJob") /\ job_queue_lock = NoThread /\ job_queue_lock' = Main
          /\ job_queue.queue_size < cellAmount /\ UNCHANGED job_queue
      BY <1>0, <1>2, <2>2 DEF MainLocksJobs, At, queues
    <3>2. Moved("lockJobs", "pushJob")
      BY ONLY <1>0, <3>1, CountGoto
    <3>3. JobsHeld'
      BY <1>0, <3>1, HeldEnter DEF JobSync, JobsHeld
    <3>4. /\ Count(pc', {"waitCond1"}) = Count(pc, {"waitCond1"})
          /\ Count(pc', {"wokenCond1", "popJob"}) = Count(pc, {"wokenCond1", "popJob"})
          /\ Count(pc', {"signalCond1"}) = Count(pc, {"signalCond1"})
          /\ Count(pc', {"waitCond2"}) = Count(pc, {"waitCond2"})
          /\ Count(pc', {"signalCond2"}) = Count(pc, {"signalCond2"})
          /\ Count(pc', {"wokenCond2", "pushJob"}) = Count(pc, {"wokenCond2", "pushJob"}) + 1
      BY ONLY <1>nat, <3>2 DEF Bit
    <3>5. JobsAwaited'
      BY <1>0, <3>1, <3>4, JobCounts DEF JobSync, JobsAwaited
    <3>6. RoomAwaited'
      BY <1>0, <3>1, <3>4, JobCounts DEF JobSync, RoomAwaited
    <3>7. JobsBounded'
      BY <1>0, <3>1, <3>4, JobCounts DEF JobSync, JobsBounded
    <3> QED BY <3>3, <3>5, <3>6, <3>7 DEF JobSync
  <2> QED BY <1>0, <2>1, <2>2
<1>3. CASE MainReacquires
  <2>1. pc[Main] = "wokenCond2" /\ Goto(Main, "pushJob") /\ job_queue_lock = NoThread /\ job_queue_lock' = Main
        /\ UNCHANGED job_queue
    BY <1>0, <1>3 DEF MainReacquires, ReacquireJobs, At, queues
  <2>2. Moved("wokenCond2", "pushJob")
    BY ONLY <1>0, <2>1, CountGoto
  <2>3. JobsHeld'
    BY <1>0, <2>1, HeldEnter DEF JobSync, JobsHeld
  <2>4. /\ Count(pc', {"waitCond1"}) = Count(pc, {"waitCond1"})
        /\ Count(pc', {"wokenCond1", "popJob"}) = Count(pc, {"wokenCond1", "popJob"})
        /\ Count(pc', {"signalCond1"}) = Count(pc, {"signalCond1"})
        /\ Count(pc', {"waitCond2"}) = Count(pc, {"waitCond2"})
        /\ Count(pc', {"signalCond2"}) = Count(pc, {"signalCond2"})
        /\ Count(pc', {"wokenCond2", "pushJob"}) = Count(pc, {"wokenCond2", "pushJob"})
    BY ONLY <1>nat, <2>2 DEF Bit
  <2>5. JobsAwaited'
    BY <1>0, <2>1, <2>4, JobCounts DEF JobSync, JobsAwaited
  <2>6. RoomAwaited'
    BY <1>0, <2>1, <2>4, JobCounts DEF JobSync, RoomAwaited
  <2>7. JobsBounded'
    BY <1>0, <2>1, <2>4, JobCounts DEF JobSync, JobsBounded
  <2> QED BY <2>3, <2>5, <2>6, <2>7 DEF JobSync
<1>4. CASE PushJob
  <2>1. pc[Main] = "pushJob" /\ Goto(Main, "signalCond1") /\ job_queue_lock' = NoThread
        /\ job_queue'.queue_size = job_queue.queue_size + 1
    BY <1>0, <1>4 DEF PushJob, PushedQueue, At
  <2>2. Moved("pushJob", "signalCond1")
    BY ONLY <1>0, <2>1, CountGoto
  <2>3. JobsHeld'
    BY <1>0, <2>1, HeldLeave DEF JobSync, JobsHeld
  <2>4. /\ Count(pc', {"waitCond1"}) = Count(pc, {"waitCond1"})
        /\ Count(pc', {"wokenCond1", "popJob"}) = Count(pc, {"wokenCond1", "popJob"})
        /\ Count(pc', {"signalCond1"}) = Count(pc, {"signalCond1"}) + 1
        /\ Count(pc', {"waitCond2"}) = Count(pc, {"waitCond2"})
        /\ Count(pc', {"signalCond2"}) = Count(pc, {"signalCond2"})
        /\ Count(pc', {"wokenCond2", "pushJob"}) = Count(pc, {"wokenCond2", "pushJob"}) - 1
    BY ONLY <1>nat, <2>2 DEF Bit
  <2>5. JobsAwaited'
    BY <1>0, <2>1, <2>4, JobCounts DEF JobSync, JobsAwaited
  <2>6. RoomAwaited'
    BY <1>0, <2>1, <2>4, JobCounts DEF JobSync, RoomAwaited
  <2>7. JobsBounded'
    BY <1>0, <2>1, <2>4, JobCounts DEF JobSync, JobsBounded
  <2> QED BY <2>3, <2>5, <2>6, <2>7 DEF JobSync
<1>5. CASE PushJobDies
  <2>1. SameAt(pc, pc', JobLabels) /\ UNCHANGED <<job_queue, job_queue_lock>>
    BY <1>5 DEF PushJobDies, PushDies, Halt, queues, locks, SameAt
  <2> QED BY <2>1, JobSyncKept
<1>6. CASE SignalCond1
  <2>1. pc[Main] = "signalCond1" /\ Signal(Main, "waitCond1", "accept") /\ UNCHANGED job_queue_lock
        /\ UNCHANGED job_queue
    BY <1>0, <1>6 DEF SignalCond1, At, queues, locks
  <2>2. \/ Count(pc, {"waitCond1"}) = 0 /\ Moved("signalCond1", "accept")
        \/ Count(pc, {"waitCond1"}) > 0 /\ MovedAndWoken("signalCond1", "accept", "waitCond1")
    BY <1>0, <2>1, CountSignal DEF WaitLabels
  <2>3. JobsHeld'
    <3>1. SameAt(pc, pc', {"pushJob", "popJob"})
      BY <1>0, <2>1, SignalSame DEF Woken
    <3> QED BY <2>1, <3>1, HeldSame DEF JobSync, JobsHeld
  <2>4. \/ /\ Count(pc, {"waitCond1"}) = 0
           /\ Count(pc', {"waitCond1"}) = Count(pc, {"waitCond1"})
           /\ Count(pc', {"wokenCond1", "popJob"}) = Count(pc, {"wokenCond1", "popJob"})
           /\ Count(pc', {"signalCond1"}) = Count(pc, {"signalCond1"}) - 1
           /\ Count(pc', {"waitCond2"}) = Count(pc, {"waitCond2"})
           /\ Count(pc', {"signalCond2"}) = Count(pc, {"signalCond2"})
           /\ Count(pc', {"wokenCond2", "pushJob"}) = Count(pc, {"wokenCond2", "pushJob"})
        \/ /\ Count(pc, {"waitCond1"}) > 0
           /\ Count(pc', {"waitCond1"}) = Count(pc, {"waitCond1"}) - 1
           /\ Count(pc', {"wokenCond1", "popJob"}) = Count(pc, {"wokenCond1", "popJob"}) + 1
           /\ Count(pc', {"signalCond1"}) = Count(pc, {"signalCond1"}) - 1
           /\ Count(pc', {"waitCond2"}) = Count(pc, {"waitCond2"})
           /\ Count(pc', {"signalCond2"}) = Count(pc, {"signalCond2"})
           /\ Count(pc', {"wokenCond2", "pushJob"}) = Count(pc, {"wokenCond2", "pushJob"})
    BY ONLY <1>nat, <2>2 DEF Bit, Woken
  <2>5. JobsAwaited'
    BY <1>0, <2>1, <2>4, JobCounts DEF JobSync, JobsAwaited
  <2>6. RoomAwaited'
    BY <1>0, <2>1, <2>4, JobCounts DEF JobSync, RoomAwaited
  <2>7. JobsBounded'
    BY <1>0, <2>1, <2>4, JobCounts DEF JobSync, JobsBounded
  <2> QED BY <2>3, <2>5, <2>6, <2>7 DEF JobSync
<1> QED BY <1>1, <1>2, <1>3, <1>4, <1>5, <1>6 DEF MainThread

\* Every step of a worker keeps JobSync.
LEMMA WorkerJobSync ==
  ASSUME TypeInv, JobSync, NEW w \in Workers, Worker(w)
  PROVE  JobSync'
<1>0. /\ PcOK(pc) /\ PcOK(pc') /\ w \in Threads /\ cellAmount \in Nat \ {0}
      /\ job_queue.queue_size \in Int
  BY WorkerTypeInv, ThreadsAreApart, CellsAssumption DEF TypeInv, TypeOK, QueueOK
<1>nat. \A labels : Count(pc, labels) \in Nat
  BY CountType
<1> DEFINE Moved(a, l) ==
             \A labels : Count(pc', labels) = Count(pc, labels) + Bit(l, labels) - Bit(a, labels)
           MovedAndWoken(a, l, x) ==
             \A labels : Count(pc', labels)
               = Count(pc, labels) + Bit(Woken(x), labels) - Bit(x, labels) + Bit(l, labels) - Bit(a, labels)
<1>1. CASE WorkerLocksJobs(w)
  <2>1. CASE job_queue.queue_size <= 0
    <3>1. pc[w] = "lockJobs" /\ Goto(w, "waitCond1") /\ UNCHANGED job_queue_lock
          /\ job_queue.queue_size <= 0 /\ UNCHANGED job_queue
      BY <1>0, <1>1, <2>1 DEF WorkerLocksJobs, At, queues
    <3>2. Moved("lockJobs", "waitCond1")
      BY ONLY <1>0, <3>1, CountGoto
    <3>3. JobsHeld'
      <4>1. SameAt(pc, pc', {"pushJob", "popJob"})
        BY <1>0, <3>1, GotoSame
      <4> QED BY <3>1, <4>1, HeldSame DEF JobSync, JobsHeld
    <3>4. /\ Count(pc', {"waitCond1"}) = Count(pc, {"waitCond1"}) + 1
          /\ Count(pc', {"wokenCond1", "popJob"}) = Count(pc, {"wokenCond1", "popJob"})
          /\ Count(pc', {"signalCond1"}) = Count(pc, {"signalCond1"})
          /\ Count(pc', {"waitCond2"}) = Count(pc, {"waitCond2"})
          /\ Count(pc', {"signalCond2"}) = Count(pc, {"signalCond2"})
          /\ Count(pc', {"wokenCond2", "pushJob"}) = Count(pc, {"wokenCond2", "pushJob"})
      BY ONLY <1>nat, <3>2 DEF Bit
    <3>5. JobsAwaited'
      BY <1>0, <3>1, <3>4, JobCounts DEF JobSync, JobsAwaited
    <3>6. RoomAwaited'
      BY <1>0, <3>1, <3>4, JobCounts DEF JobSync, RoomAwaited
    <3>7. JobsBounded'
      BY <1>0, <3>1, <3>4, JobCounts DEF JobSync, JobsBounded
    <3> QED BY <3>3, <3>5, <3>6, <3>7 DEF JobSync
  <2>2. CASE job_queue.queue_size > 0
    <3>1. pc[w] = "lockJobs" /\ Goto(w, "popJob") /\ job_queue_lock = NoThread /\ job_queue_lock' = w
          /\ UNCHANGED job_queue
      BY <1>0, <1>1, <2>2 DEF WorkerLocksJobs, At, queues
    <3>2. Moved("lockJobs", "popJob")
      BY ONLY <1>0, <3>1, CountGoto
    <3>3. JobsHeld'
      BY <1>0, <3>1, HeldEnter DEF JobSync, JobsHeld
    <3>4. /\ Count(pc', {"waitCond1"}) = Count(pc, {"waitCond1"})
          /\ Count(pc', {"wokenCond1", "popJob"}) = Count(pc, {"wokenCond1", "popJob"}) + 1
          /\ Count(pc', {"signalCond1"}) = Count(pc, {"signalCond1"})
          /\ Count(pc', {"waitCond2"}) = Count(pc, {"waitCond2"})
          /\ Count(pc', {"signalCond2"}) = Count(pc, {"signalCond2"})
          /\ Count(pc', {"wokenCond2", "pushJob"}) = Count(pc, {"wokenCond2", "pushJob"})
      BY ONLY <1>nat, <3>2 DEF Bit
    <3>5. JobsAwaited'
      BY <1>0, <3>1, <3>4, JobCounts DEF JobSync, JobsAwaited
    <3>6. RoomAwaited'
      BY <1>0, <3>1, <3>4, JobCounts DEF JobSync, RoomAwaited
    <3>7. JobsBounded'
      BY <1>0, <3>1, <3>4, JobCounts DEF JobSync, JobsBounded
    <3> QED BY <3>3, <3>5, <3>6, <3>7 DEF JobSync
  <2> QED BY <1>0, <2>1, <2>2
<1>2. CASE WorkerReacquiresJobs(w)
  <2>1. pc[w] = "wokenCond1" /\ Goto(w, "popJob") /\ job_queue_lock = NoThread /\ job_queue_lock' = w
        /\ UNCHANGED job_queue
    BY <1>0, <1>2 DEF WorkerReacquiresJobs, ReacquireJobs, At, queues
  <2>2. Moved("wokenCond1", "popJob")
    BY ONLY <1>0, <2>1, CountGoto
  <2>3. JobsHeld'
    BY <1>0, <2>1, HeldEnter DEF JobSync, JobsHeld
  <2>4. /\ Count(pc', {"waitCond1"}) = Count(pc, {"waitCond1"})
        /\ Count(pc', {"wokenCond1", "popJob"}) = Count(pc, {"wokenCond1", "popJob"})
        /\ Count(pc', {"signalCond1"}) = Count(pc, {"signalCond1"})
        /\ Count(pc', {"waitCond2"}) = Count(pc, {"waitCond2"})
        /\ Count(pc', {"signalCond2"}) = Count(pc, {"signalCond2"})
        /\ Count(pc', {"wokenCond2", "pushJob"}) = Count(pc, {"wokenCond2", "pushJob"})
    BY ONLY <1>nat, <2>2 DEF Bit
  <2>5. JobsAwaited'
    BY <1>0, <2>1, <2>4, JobCounts DEF JobSync, JobsAwaited
  <2>6. RoomAwaited'
    BY <1>0, <2>1, <2>4, JobCounts DEF JobSync, RoomAwaited
  <2>7. JobsBounded'
    BY <1>0, <2>1, <2>4, JobCounts DEF JobSync, JobsBounded
  <2> QED BY <2>3, <2>5, <2>6, <2>7 DEF JobSync
<1>3. CASE PopJob(w)
  <2>1. pc[w] = "popJob" /\ Goto(w, "signalCond2") /\ job_queue_lock' = NoThread
        /\ job_queue'.queue_size \in {0, job_queue.queue_size - 1}
    BY <1>0, <1>3 DEF PopJob, PoppedQueue, At
  <2>2. Moved("popJob", "signalCond2")
    BY ONLY <1>0, <2>1, CountGoto
  <2>3. JobsHeld'
    BY <1>0, <2>1, HeldLeave DEF JobSync, JobsHeld
  <2>4. /\ Count(pc', {"waitCond1"}) = Count(pc, {"waitCond1"})
        /\ Count(pc', {"wokenCond1", "popJob"}) = Count(pc, {"wokenCond1", "popJob"}) - 1
        /\ Count(pc', {"signalCond1"}) = Count(pc, {"signalCond1"})
        /\ Count(pc', {"waitCond2"}) = Count(pc, {"waitCond2"})
        /\ Count(pc', {"signalCond2"}) = Count(pc, {"signalCond2"}) + 1
        /\ Count(pc', {"wokenCond2", "pushJob"}) = Count(pc, {"wokenCond2", "pushJob"})
    BY ONLY <1>nat, <2>2 DEF Bit
  <2>5. JobsAwaited'
    BY <1>0, <2>1, <2>4, JobCounts DEF JobSync, JobsAwaited
  <2>6. RoomAwaited'
    BY <1>0, <2>1, <2>4, JobCounts DEF JobSync, RoomAwaited
  <2>7. JobsBounded'
    BY <1>0, <2>1, <2>4, JobCounts DEF JobSync, JobsBounded
  <2> QED BY <2>3, <2>5, <2>6, <2>7 DEF JobSync
<1>4. CASE PopJobAborts(w)
  <2>1. SameAt(pc, pc', JobLabels) /\ UNCHANGED <<job_queue, job_queue_lock>>
    BY <1>4 DEF PopJobAborts, Halt, queues, locks, SameAt
  <2> QED BY <2>1, JobSyncKept
<1>5. CASE SignalCond2(w)
  <2>1. pc[w] = "signalCond2" /\ Signal(w, "waitCond2", "readSocket") /\ UNCHANGED job_queue_lock
        /\ UNCHANGED job_queue
    BY <1>0, <1>5 DEF SignalCond2, At, queues, locks
  <2>2. \/ Count(pc, {"waitCond2"}) = 0 /\ Moved("signalCond2", "readSocket")
        \/ Count(pc, {"waitCond2"}) > 0 /\ MovedAndWoken("signalCond2", "readSocket", "waitCond2")
    BY <1>0, <2>1, CountSignal DEF WaitLabels
  <2>3. JobsHeld'
    <3>1. SameAt(pc, pc', {"pushJob", "popJob"})
      BY <1>0, <2>1, SignalSame DEF Woken
    <3> QED BY <2>1, <3>1, HeldSame DEF JobSync, JobsHeld
  <2>4. \/ /\ Count(pc, {"waitCond2"}) = 0
           /\ Count(pc', {"waitCond1"}) = Count(pc, {"waitCond1"})
           /\ Count(pc', {"wokenCond1", "popJob"}) = Count(pc, {"wokenCond1", "popJob"})
           /\ Count(pc', {"signalCond1"}) = Count(pc, {"signalCond1"})
           /\ Count(pc', {"waitCond2"}) = Count(pc, {"waitCond2"})
           /\ Count(pc', {"signalCond2"}) = Count(pc, {"signalCond2"}) - 1
           /\ Count(pc', {"wokenCond2", "pushJob"}) = Count(pc, {"wokenCond2", "pushJob"})
        \/ /\ Count(pc, {"waitCond2"}) > 0
           /\ Count(pc', {"waitCond1"}) = Count(pc, {"waitCond1"})
           /\ Count(pc', {"wokenCond1", "popJob"}) = Count(pc, {"wokenCond1", "popJob"})
           /\ Count(pc', {"signalCond1"}) = Count(pc, {"signalCond1"})
           /\ Count(pc', {"waitCond2"}) = Count(pc, {"waitCond2"}) - 1
           /\ Count(pc', {"signalCond2"}) = Count(pc, {"signalCond2"}) - 1
           /\ Count(pc', {"wokenCond2", "pushJob"}) = Count(pc, {"wokenCond2", "pushJob"}) + 1
    BY ONLY <1>nat, <2>2 DEF Bit, Woken
  <2>5. JobsAwaited'
    BY <1>0, <2>1, <2>4, JobCounts DEF JobSync, JobsAwaited
  <2>6. RoomAwaited'
    BY <1>0, <2>1, <2>4, JobCounts DEF JobSync, RoomAwaited
  <2>7. JobsBounded'
    BY <1>0, <2>1, <2>4, JobCounts DEF JobSync, JobsBounded
  <2> QED BY <2>3, <2>5, <2>6, <2>7 DEF JobSync
<1>6. CASE ReadSocket(w)
  <2>1. SameAt(pc, pc', JobLabels)
    BY <1>0, <1>6, GotoSame DEF ReadSocket, At, JobLabels
  <2> QED BY <1>6, <2>1, JobSyncKept DEF ReadSocket, queues, locks
<1>7. CASE ReadSocketFaults(w)
  <2>1. SameAt(pc, pc', JobLabels) /\ UNCHANGED <<job_queue, job_queue_lock>>
    BY <1>7 DEF ReadSocketFaults, Halt, queues, locks, SameAt
  <2> QED BY <2>1, JobSyncKept
<1>8. CASE \E last \in BOOLEAN : Serve(w, last)
  <2>1. SameAt(pc, pc', JobLabels)
    BY <1>0, <1>8, GotoSame DEF Serve, At, JobLabels
  <2> QED BY <1>8, <2>1, JobSyncKept DEF Serve, queues, locks
<1>9. CASE WorkerLocksLog(w)
  <2>1. SameAt(pc, pc', JobLabels)
    BY <1>0, <1>9, GotoSame DEF WorkerLocksLog, At, JobLabels
  <2> QED BY <1>9, <2>1, JobSyncKept DEF WorkerLocksLog, queues, locks
<1>10. CASE WorkerReacquiresLog(w)
  <2>1. SameAt(pc, pc', JobLabels)
    BY <1>0, <1>10, GotoSame DEF WorkerReacquiresLog, ReacquireLog, At, JobLabels
  <2> QED BY <1>10, <2>1, JobSyncKept DEF WorkerReacquiresLog, ReacquireLog, queues, locks
<1>11. CASE PushLog(w)
  <2>1. SameAt(pc, pc', JobLabels)
    BY <1>0, <1>11, GotoSame DEF PushLog, At, JobLabels
  <2> QED BY <1>11, <2>1, JobSyncKept DEF PushLog, queues, locks
<1>12. CASE PushLogDies(w)
  <2>1. SameAt(pc, pc', JobLabels) /\ UNCHANGED <<job_queue, job_queue_lock>>
    BY <1>12 DEF PushLogDies, PushDies, Halt, queues, locks, SameAt
  <2> QED BY <2>1, JobSyncKept
<1>13. CASE SignalCond3(w)
  <2>1. SameAt(pc, pc', JobLabels)
    BY <1>0, <1>13, SignalSame DEF SignalCond3, At, JobLabels, Woken, WaitLabels
  <2> QED BY <1>13, <2>1, JobSyncKept DEF SignalCond3, queues, locks
<1> QED BY <1>1, <1>2, <1>3, <1>4, <1>5, <1>6, <1>7, <1>8, <1>9, <1>10, <1>11, <1>12, <1>13 DEF Worker

\* The log thread has nothing to do with the job queue.
LEMMA LogThreadJobSync == TypeInv /\ JobSync /\ LogThread => JobSync'
<1> SUFFICES ASSUME TypeInv, JobSync, LogThread PROVE JobSync'
  OBVIOUS
<1>0. /\ PcOK(pc) /\ PcOK(pc') /\ Logger \in Threads /\ cellAmount \in Nat \ {0}
      /\ job_queue.queue_size \in Int
  BY LogThreadTypeInv, ThreadsAreApart, CellsAssumption DEF TypeInv, TypeOK, QueueOK
<1>1. CASE LoggerLocksLog
  <2>1. SameAt(pc, pc', JobLabels)
    BY <1>0, <1>1, GotoSame DEF LoggerLocksLog, At, JobLabels
  <2> QED BY <1>1, <2>1, JobSyncKept DEF LoggerLocksLog, queues, locks
<1>2. CASE LoggerReacquires
  <2>1. SameAt(pc, pc', JobLabels)
    BY <1>0, <1>2, GotoSame DEF LoggerReacquires, ReacquireLog, At, JobLabels
  <2> QED BY <1>2, <2>1, JobSyncKept DEF LoggerReacquires, ReacquireLog, queues, locks
<1>3. CASE PopLog
  <2>1. SameAt(pc, pc', JobLabels)
    BY <1>0, <1>3, GotoSame DEF PopLog, At, JobLabels
  <2> QED BY <1>3, <2>1, JobSyncKept DEF PopLog, queues, locks
<1>4. CASE PopLogFaults
  <2>1. SameAt(pc, pc', JobLabels) /\ UNCHANGED <<job_queue, job_queue_lock>>
    BY <1>4 DEF PopLogFaults, Halt, queues, locks, SameAt
  <2> QED BY <2>1, JobSyncKept
<1>5. CASE PopLogAborts
  <2>1. SameAt(pc, pc', JobLabels) /\ UNCHANGED <<job_queue, job_queue_lock>>
    BY <1>5 DEF PopLogAborts, Halt, queues, locks, SameAt
  <2> QED BY <2>1, JobSyncKept
<1>6. CASE SignalCond4
  <2>1. SameAt(pc, pc', JobLabels)
    BY <1>0, <1>6, SignalSame DEF SignalCond4, At, JobLabels, Woken, WaitLabels
  <2> QED BY <1>6, <2>1, JobSyncKept DEF SignalCond4, queues, locks
<1>7. CASE WriteLog
  <2>1. SameAt(pc, pc', JobLabels)
    BY <1>0, <1>7, GotoSame DEF WriteLog, At, JobLabels
  <2> QED BY <1>7, <2>1, JobSyncKept DEF WriteLog, queues, locks
<1>8. CASE WriteLogDies
  <2>1. SameAt(pc, pc', JobLabels) /\ UNCHANGED <<job_queue, job_queue_lock>>
    BY <1>8 DEF WriteLogDies, Halt, queues, locks, SameAt
  <2> QED BY <2>1, JobSyncKept
<1> QED BY <1>1, <1>2, <1>3, <1>4, <1>5, <1>6, <1>7, <1>8 DEF LogThread

\* A spurious wakeup of a sleeping worker only adds a thread that is awake; one of
\* main voids the bound, which JobSync then does not claim.
LEMMA OthersJobSync ==
  ASSUME TypeInv, JobSync,
         \/ \E t \in SpuriousWakeups : SpuriousWakeup(t)
         \/ MainBrokenPipe \/ \E w \in Workers : WorkerBrokenPipe(w)
         \/ \E c \in Hangups : Hangup(c)
         \/ UNCHANGED vars
  PROVE  JobSync'
<1>0. /\ PcOK(pc) /\ PcOK(pc') /\ cellAmount \in Nat \ {0} /\ job_queue.queue_size \in Int
  BY OthersTypeInv, CellsAssumption DEF TypeInv, TypeOK, QueueOK
<1>nat. \A labels : Count(pc, labels) \in Nat
  BY CountType
<1> DEFINE Moved(a, l) ==
             \A labels : Count(pc', labels) = Count(pc, labels) + Bit(l, labels) - Bit(a, labels)
<1>1. ASSUME NEW t \in SpuriousWakeups, SpuriousWakeup(t) PROVE JobSync'
  <2>0. t \in Threads /\ pc[t] \in WaitLabels /\ pc[t] \in CodeOf(t)
    BY <1>0, <1>1, BoundsAssumption DEF SpuriousWakeup, Threads, PcOK
  <2>1. CASE pc[t] = "waitCond1"
    <3>1. pc[t] = "waitCond1" /\ Goto(t, "wokenCond1") /\ UNCHANGED job_queue_lock
          /\ UNCHANGED job_queue
      BY <1>0, <1>1, <2>1 DEF SpuriousWakeup, Woken, queues, locks
    <3>2. Moved("waitCond1", "wokenCond1")
      BY ONLY <1>0, <2>0, <3>1, CountGoto
    <3>3. JobsHeld'
      <4>1. SameAt(pc, pc', {"pushJob", "popJob"})
        BY <1>0, <2>0, <3>1, GotoSame
      <4> QED BY <3>1, <4>1, HeldSame DEF JobSync, JobsHeld
    <3>4. /\ Count(pc', {"waitCond1"}) = Count(pc, {"waitCond1"}) - 1
          /\ Count(pc', {"wokenCond1", "popJob"}) = Count(pc, {"wokenCond1", "popJob"}) + 1
          /\ Count(pc', {"signalCond1"}) = Count(pc, {"signalCond1"})
          /\ Count(pc', {"waitCond2"}) = Count(pc, {"waitCond2"})
          /\ Count(pc', {"signalCond2"}) = Count(pc, {"signalCond2"})
          /\ Count(pc', {"wokenCond2", "pushJob"}) = Count(pc, {"wokenCond2", "pushJob"})
      BY ONLY <1>nat, <3>2 DEF Bit
    <3>5. JobsAwaited'
      BY <1>0, <2>0, <3>1, <3>4, JobCounts DEF JobSync, JobsAwaited
    <3>6. RoomAwaited'
      BY <1>0, <2>0, <3>1, <3>4, JobCounts DEF JobSync, RoomAwaited
    <3>7. JobsBounded'
      BY <1>0, <2>0, <3>1, <3>4, JobCounts DEF JobSync, JobsBounded
    <3> QED BY <3>3, <3>5, <3>6, <3>7 DEF JobSync
  <2>2. CASE pc[t] = "waitCond2"
    <3>0. t = Main
      BY <2>0, <2>2 DEF CodeOf, WorkerLabels, LoggerLabels
    <3>1. pc[t] = "waitCond2" /\ Goto(t, "wokenCond2") /\ UNCHANGED job_queue_lock
          /\ UNCHANGED job_queue
      BY <1>0, <1>1, <2>2 DEF SpuriousWakeup, Woken, queues, locks
    <3>2. Moved("waitCond2", "wokenCond2")
      BY ONLY <1>0, <2>0, <3>0, <3>1, CountGoto
    <3>3. JobsHeld'
      <4>1. SameAt(pc, pc', {"pushJob", "popJob"})
        BY <1>0, <2>0, <3>0, <3>1, GotoSame
      <4> QED BY <3>1, <4>1, HeldSame DEF JobSync, JobsHeld
    <3>4. /\ Count(pc', {"waitCond1"}) = Count(pc, {"waitCond1"})
          /\ Count(pc', {"wokenCond1", "popJob"}) = Count(pc, {"wokenCond1", "popJob"})
          /\ Count(pc', {"signalCond1"}) = Count(pc, {"signalCond1"})
          /\ Count(pc', {"waitCond2"}) = Count(pc, {"waitCond2"}) - 1
          /\ Count(pc', {"signalCond2"}) = Count(pc, {"signalCond2"})
          /\ Count(pc', {"wokenCond2", "pushJob"}) = Count(pc, {"wokenCond2", "pushJob"}) + 1
      BY ONLY <1>nat, <3>2 DEF Bit
    <3>5. JobsAwaited'
      BY <1>0, <2>0, <3>0, <3>1, <3>4, JobCounts DEF JobSync, JobsAwaited
    <3>6. RoomAwaited'
      BY <1>0, <2>0, <3>0, <3>1, <3>4, JobCounts DEF JobSync, RoomAwaited
    <3>7. JobsBounded'
      BY <1>0, <2>0, <3>0, <3>1, <3>4, JobCounts DEF JobSync, JobsBounded
    <3> QED BY <3>3, <3>5, <3>6, <3>7 DEF JobSync
  <2>3. CASE pc[t] \notin {"waitCond1", "waitCond2"}
    <3>1. SameAt(pc, pc', JobLabels)
      BY <1>0, <1>1, <2>0, <2>3, GotoSame DEF SpuriousWakeup, Woken, WaitLabels, JobLabels
    <3> QED BY <1>1, <3>1, JobSyncKept DEF SpuriousWakeup, queues, locks
  <2> QED BY <2>1, <2>2, <2>3
<1>2. CASE UNCHANGED <<pc, job_queue, job_queue_lock>>
  <2>1. SameAt(pc, pc', JobLabels)
    BY <1>2 DEF SameAt
  <2> QED BY <1>2, <2>1, JobSyncKept
<1> QED BY <1>1, <1>2
        DEF MainBrokenPipe, WorkerBrokenPipe, Hangup, Halt, vars, queues, locks

\* JobSync is inductive, relative to the types.
LEMMA NextJobSync == TypeInv /\ JobSync /\ [Next]_vars => JobSync'
  BY MainJobSync, WorkerJobSync, LogThreadJobSync, OthersJobSync DEF Next

-----------------------------------------------------------------------------
(***************************************************************************)
(* The log queue.                                                          *)
(***************************************************************************)
LogLabels == {"waitCond3", "wokenCond3", "popLog", "signalCond3",
              "waitCond4", "wokenCond4", "pushLog", "signalCond4"}

LogHeld == Held(pc, log_queue_lock, {"pushLog", "popLog"})

\* While the log thread sleeps and there are entries, a signal is to come.
EntriesAwaited ==
  Count(pc, {"waitCond3"}) > 0 /\ log_queue.queue_size > 0 => Count(pc, {"signalCond3"}) > 0

\* While workers sleep, each free cell has a worker awake or a signal to come.
CellsAwaited ==
  Count(pc, {"waitCond4"}) > 0 =>
    cellAmount - log_queue.queue_size
      <= Count(pc, {"wokenCond4", "pushLog"}) + Count(pc, {"signalCond4"})

\* Entries, workers on their way to a push and the signal that may send one
\* there are bounded together.
LogBounded ==
  Workers \cap SpuriousWakeups = {} =>
    log_queue.queue_size + Count(pc, {"wokenCond4", "pushLog"}) + Count(pc, {"signalCond4"})
      <= cellAmount + Cardinality(Workers)

LogSync == LogHeld /\ EntriesAwaited /\ CellsAwaited /\ LogBounded

\* Which threads can be at which of these calls.
LEMMA LogCounts ==
  ASSUME NEW f, PcOK(f)
  PROVE  /\ Count(f, {"waitCond3"}) <= 1
         /\ Count(f, {"signalCond4"}) <= 1
         /\ Count(f, {"wokenCond4", "pushLog"}) <= Cardinality(Workers)
         /\ \A labels : Count(f, labels) \in Nat
         /\ Cardinality(Workers) \in Nat
<1>1. IsFiniteSet({Logger}) /\ Cardinality({Logger}) = 1 /\ IsFiniteSet(Workers)
      /\ Cardinality(Workers) \in Nat
  BY WorkersAssumption, FS_Singleton, FS_CardinalityType
<1>2. \A t \in Threads : f[t] \in CodeOf(t)
  BY DEF PcOK
<1>3. \A t \in Threads : f[t] \in {"waitCond3"} => t \in {Logger}
  BY <1>2, ThreadsAreApart DEF CodeOf, WorkerLabels, MainLabels
<1>4. \A t \in Threads : f[t] \in {"signalCond4"} => t \in {Logger}
  BY <1>2, ThreadsAreApart DEF CodeOf, WorkerLabels, MainLabels
<1>5. \A t \in Threads : f[t] \in {"wokenCond4", "pushLog"} => t \in Workers
  BY <1>2, ThreadsAreApart DEF CodeOf, MainLabels, LoggerLabels
<1>6. Count(f, {"waitCond3"}) <= 1
  BY <1>1, <1>3, CountAtMost
<1>7. Count(f, {"signalCond4"}) <= 1
  BY <1>1, <1>4, CountAtMost
<1>8. Count(f, {"wokenCond4", "pushLog"}) <= Cardinality(Workers)
  BY <1>1, <1>5, CountAtMost
<1>9. \A labels : Count(f, labels) \in Nat
  BY CountType
<1> QED BY <1>1, <1>6, <1>7, <1>8, <1>9

\* Steps that have nothing to do with the log queue.
LEMMA LogSyncKept ==
  ASSUME LogSync, SameAt(pc, pc', LogLabels), UNCHANGED <<log_queue, log_queue_lock>>
  PROVE  LogSync'
<1>1. /\ Count(pc', {"waitCond3"}) = Count(pc, {"waitCond3"})
      /\ Count(pc', {"signalCond3"}) = Count(pc, {"signalCond3"})
      /\ Count(pc', {"waitCond4"}) = Count(pc, {"waitCond4"})
      /\ Count(pc', {"wokenCond4", "pushLog"}) = Count(pc, {"wokenCond4", "pushLog"})
      /\ Count(pc', {"signalCond4"}) = Count(pc, {"signalCond4"})
  BY CountSame DEF LogLabels
<1>2. LogHeld'
  BY HeldSame DEF LogSync, LogHeld, LogLabels
<1> QED BY <1>1, <1>2 DEF LogSync, EntriesAwaited, CellsAwaited, LogBounded

\* main has nothing to do with the log queue.
LEMMA MainLogSync == TypeInv /\ LogSync /\ MainThread => LogSync'
<1> SUFFICES ASSUME TypeInv, LogSync, MainThread PROVE LogSync'
  OBVIOUS
<1>0. /\ PcOK(pc) /\ PcOK(pc') /\ Main \in Threads /\ cellAmount \in Nat \ {0}
      /\ log_queue.queue_size \in Int
  BY MainTypeInv, ThreadsAreApart, CellsAssumption DEF TypeInv, TypeOK, QueueOK
<1>1. CASE Accept
  <2>1. SameAt(pc, pc', LogLabels)
    BY <1>0, <1>1, GotoSame DEF Accept, At, LogLabels
  <2> QED BY <1>1, <2>1, LogSyncKept DEF Accept, queues, locks
<1>2. CASE MainLocksJobs
  <2>1. SameAt(pc, pc', LogLabels)
    BY <1>0, <1>2, GotoSame DEF MainLocksJobs, At, LogLabels
  <2> QED BY <1>2, <2>1, LogSyncKept DEF MainLocksJobs, queues, locks
<1>3. CASE MainReacquires
  <2>1. SameAt(pc, pc', LogLabels)
    BY <1>0, <1>3, GotoSame DEF MainReacquires, ReacquireJobs, At, LogLabels
  <2> QED BY <1>3, <2>1, LogSyncKept DEF MainReacquires, ReacquireJobs, queues, locks
<1>4. CASE PushJob
  <2>1. SameAt(pc, pc', LogLabels)
    BY <1>0, <1>4, GotoSame DEF PushJob, At, LogLabels
  <2> QED BY <1>4, <2>1, LogSyncKept DEF PushJob, queues, locks
<1>5. CASE PushJobDies
  <2>1. SameAt(pc, pc', LogLabels) /\ UNCHANGED <<log_queue, log_queue_lock>>
    BY <1>5 DEF PushJobDies, PushDies, Halt, queues, locks, SameAt
  <2> QED BY <2>1, LogSyncKept
<1>6. CASE SignalCond1
  <2>1. SameAt(pc, pc', LogLabels)
    BY <1>0, <1>6, SignalSame DEF SignalCond1, At, LogLabels, Woken, WaitLabels
  <2> QED BY <1>6, <2>1, LogSyncKept DEF SignalCond1, queues, locks
<1> QED BY <1>1, <1>2, <1>3, <1>4, <1>5, <1>6 DEF MainThread

\* Every step of a worker keeps LogSync.
LEMMA WorkerLogSync ==
  ASSUME TypeInv, LogSync, NEW w \in Workers, Worker(w)
  PROVE  LogSync'
<1>0. /\ PcOK(pc) /\ PcOK(pc') /\ w \in Threads /\ cellAmount \in Nat \ {0}
      /\ log_queue.queue_size \in Int
  BY WorkerTypeInv, ThreadsAreApart, CellsAssumption DEF TypeInv, TypeOK, QueueOK
<1>nat. \A labels : Count(pc, labels) \in Nat
  BY CountType
<1> DEFINE Moved(a, l) ==
             \A labels : Count(pc', labels) = Count(pc, labels) + Bit(l, labels) - Bit(a, labels)
           MovedAndWoken(a, l, x) ==
             \A labels : Count(pc', labels)
               = Count(pc, labels) + Bit(Woken(x), labels) - Bit(x, labels) + Bit(l, labels) - Bit(a, labels)
<1>1. CASE WorkerLocksJobs(w)
  <2>1. SameAt(pc, pc', LogLabels)
    BY <1>0, <1>1, GotoSame DEF WorkerLocksJobs, At, LogLabels
  <2> QED BY <1>1, <2>1, LogSyncKept DEF WorkerLocksJobs, queues, locks
<1>2. CASE WorkerReacquiresJobs(w)
  <2>1. SameAt(pc, pc', LogLabels)
    BY <1>0, <1>2, GotoSame DEF WorkerReacquiresJobs, ReacquireJobs, At, LogLabels
  <2> QED BY <1>2, <2>1, LogSyncKept DEF WorkerReacquiresJobs, ReacquireJobs, queues, locks
<1>3. CASE PopJob(w)
  <2>1. SameAt(pc, pc', LogLabels)
    BY <1>0, <1>3, GotoSame DEF PopJob, At, LogLabels
  <2> QED BY <1>3, <2>1, LogSyncKept DEF PopJob, queues, locks
<1>4. CASE PopJobAborts(w)
  <2>1. SameAt(pc, pc', LogLabels) /\ UNCHANGED <<log_queue, log_queue_lock>>
    BY <1>4 DEF PopJobAborts, Halt, queues, locks, SameAt
  <2> QED BY <2>1, LogSyncKept
<1>5. CASE SignalCond2(w)
  <2>1. SameAt(pc, pc', LogLabels)
    BY <1>0, <1>5, SignalSame DEF SignalCond2, At, LogLabels, Woken, WaitLabels
  <2> QED BY <1>5, <2>1, LogSyncKept DEF SignalCond2, queues, locks
<1>6. CASE ReadSocket(w)
  <2>1. SameAt(pc, pc', LogLabels)
    BY <1>0, <1>6, GotoSame DEF ReadSocket, At, LogLabels
  <2> QED BY <1>6, <2>1, LogSyncKept DEF ReadSocket, queues, locks
<1>7. CASE ReadSocketFaults(w)
  <2>1. SameAt(pc, pc', LogLabels) /\ UNCHANGED <<log_queue, log_queue_lock>>
    BY <1>7 DEF ReadSocketFaults, Halt, queues, locks, SameAt
  <2> QED BY <2>1, LogSyncKept
<1>8. CASE \E last \in BOOLEAN : Serve(w, last)
  <2>1. SameAt(pc, pc', LogLabels)
    BY <1>0, <1>8, GotoSame DEF Serve, At, LogLabels
  <2> QED BY <1>8, <2>1, LogSyncKept DEF Serve, queues, locks
<1>9. CASE WorkerLocksLog(w)
  <2>1. CASE log_queue.queue_size >= cellAmount
    <3>1. pc[w] = "lockLog" /\ Goto(w, "waitCond4") /\ UNCHANGED log_queue_lock
          /\ log_queue.queue_size >= cellAmount /\ UNCHANGED log_queue
      BY <1>0, <1>9, <2>1 DEF WorkerLocksLog, At, queues
    <3>2. Moved("lockLog", "waitCond4")
      BY ONLY <1>0, <3>1, CountGoto
    <3>3. LogHeld'
      <4>1. SameAt(pc, pc', {"pushLog", "popLog"})
        BY <1>0, <3>1, GotoSame
      <4> QED BY <3>1, <4>1, HeldSame DEF LogSync, LogHeld
    <3>4. /\ Count(pc', {"waitCond3"}) = Count(pc, {"waitCond3"})
          /\ Count(pc', {"signalCond3"}) = Count(pc, {"signalCond3"})
          /\ Count(pc', {"waitCond4"}) = Count(pc, {"waitCond4"}) + 1
          /\ Count(pc', {"wokenCond4", "pushLog"}) = Count(pc, {"wokenCond4", "pushLog"})
          /\ Count(pc', {"signalCond4"}) = Count(pc, {"signalCond4"})
      BY ONLY <1>nat, <3>2 DEF Bit
    <3>5. EntriesAwaited'
      BY <1>0, <3>1, <3>4, LogCounts DEF LogSync, EntriesAwaited
    <3>6. CellsAwaited'
      BY <1>0, <3>1, <3>4, LogCounts DEF LogSync, CellsAwaited
    <3>7. LogBounded'
      BY <1>0, <3>1, <3>4, LogCounts DEF LogSync, LogBounded
    <3> QED BY <3>3, <3>5, <3>6, <3>7 DEF LogSync
  <2>2. CASE log_queue.queue_size < cellAmount
    <3>1. pc[w] = "lockLog" /\ Goto(w, "pushLog") /\ log_queue_lock = NoThread /\ log_queue_lock' = w
          /\ log_queue.queue_size < cellAmount /\ UNCHANGED log_queue
      BY <1>0, <1>9, <2>2 DEF WorkerLocksLog, At, queues
    <3>2. Moved("lockLog", "pushLog")
      BY ONLY <1>0, <3>1, CountGoto
    <3>3. LogHeld'
      BY <1>0, <3>1, HeldEnter DEF LogSync, LogHeld
    <3>4. /\ Count(pc', {"waitCond3"}) = Count(pc, {"waitCond3"})
          /\ Count(pc', {"signalCond3"}) = Count(pc, {"signalCond3"})
          /\ Count(pc', {"waitCond4"}) = Count(pc, {"waitCond4"})
          /\ Count(pc', {"wokenCond4", "pushLog"}) = Count(pc, {"wokenCond4", "pushLog"}) + 1
          /\ Count(pc', {"signalCond4"}) = Count(pc, {"signalCond4"})
      BY ONLY <1>nat, <3>2 DEF Bit
    <3>5. EntriesAwaited'
      BY <1>0, <3>1, <3>4, LogCounts DEF LogSync, EntriesAwaited
    <3>6. CellsAwaited'
      BY <1>0, <3>1, <3>4, LogCounts DEF LogSync, CellsAwaited
    <3>7. LogBounded'
      BY <1>0, <3>1, <3>4, LogCounts DEF LogSync, LogBounded
    <3> QED BY <3>3, <3>5, <3>6, <3>7 DEF LogSync
  <2> QED BY <1>0, <2>1, <2>2
<1>10. CASE WorkerReacquiresLog(w)
  <2>1. pc[w] = "wokenCond4" /\ Goto(w, "pushLog") /\ log_queue_lock = NoThread /\ log_queue_lock' = w
        /\ UNCHANGED log_queue
    BY <1>0, <1>10 DEF WorkerReacquiresLog, ReacquireLog, At, queues
  <2>2. Moved("wokenCond4", "pushLog")
    BY ONLY <1>0, <2>1, CountGoto
  <2>3. LogHeld'
    BY <1>0, <2>1, HeldEnter DEF LogSync, LogHeld
  <2>4. /\ Count(pc', {"waitCond3"}) = Count(pc, {"waitCond3"})
        /\ Count(pc', {"signalCond3"}) = Count(pc, {"signalCond3"})
        /\ Count(pc', {"waitCond4"}) = Count(pc, {"waitCond4"})
        /\ Count(pc', {"wokenCond4", "pushLog"}) = Count(pc, {"wokenCond4", "pushLog"})
        /\ Count(pc', {"signalCond4"}) = Count(pc, {"signalCond4"})
    BY ONLY <1>nat, <2>2 DEF Bit
  <2>5. EntriesAwaited'
    BY <1>0, <2>1, <2>4, LogCounts DEF LogSync, EntriesAwaited
  <2>6. CellsAwaited'
    BY <1>0, <2>1, <2>4, LogCounts DEF LogSync, CellsAwaited
  <2>7. LogBounded'
    BY <1>0, <2>1, <2>4, LogCounts DEF LogSync, LogBounded
  <2> QED BY <2>3, <2>5, <2>6, <2>7 DEF LogSync
<1>11. CASE PushLog(w)
  <2>1. pc[w] = "pushLog" /\ Goto(w, "signalCond3") /\ log_queue_lock' = NoThread
        /\ log_queue'.queue_size = log_queue.queue_size + 1
    BY <1>0, <1>11 DEF PushLog, PushedQueue, At
  <2>2. Moved("pushLog", "signalCond3")
    BY ONLY <1>0, <2>1, CountGoto
  <2>3. LogHeld'
    BY <1>0, <2>1, HeldLeave DEF LogSync, LogHeld
  <2>4. /\ Count(pc', {"waitCond3"}) = Count(pc, {"waitCond3"})
        /\ Count(pc', {"signalCond3"}) = Count(pc, {"signalCond3"}) + 1
        /\ Count(pc', {"waitCond4"}) = Count(pc, {"waitCond4"})
        /\ Count(pc', {"wokenCond4", "pushLog"}) = Count(pc, {"wokenCond4", "pushLog"}) - 1
        /\ Count(pc', {"signalCond4"}) = Count(pc, {"signalCond4"})
    BY ONLY <1>nat, <2>2 DEF Bit
  <2>5. EntriesAwaited'
    BY <1>0, <2>1, <2>4, LogCounts DEF LogSync, EntriesAwaited
  <2>6. CellsAwaited'
    BY <1>0, <2>1, <2>4, LogCounts DEF LogSync, CellsAwaited
  <2>7. LogBounded'
    BY <1>0, <2>1, <2>4, LogCounts DEF LogSync, LogBounded
  <2> QED BY <2>3, <2>5, <2>6, <2>7 DEF LogSync
<1>12. CASE PushLogDies(w)
  <2>1. SameAt(pc, pc', LogLabels) /\ UNCHANGED <<log_queue, log_queue_lock>>
    BY <1>12 DEF PushLogDies, PushDies, Halt, queues, locks, SameAt
  <2> QED BY <2>1, LogSyncKept
<1>13. CASE SignalCond3(w)
  <2>1. CASE word[w].last
    <3>1. pc[w] = "signalCond3" /\ Signal(w, "waitCond3", "lockJobs") /\ UNCHANGED log_queue_lock
          /\ UNCHANGED log_queue
      BY <1>0, <1>13, <2>1 DEF SignalCond3, At, queues, locks
    <3>2. \/ Count(pc, {"waitCond3"}) = 0 /\ Moved("signalCond3", "lockJobs")
          \/ Count(pc, {"waitCond3"}) > 0 /\ MovedAndWoken("signalCond3", "lockJobs", "waitCond3")
      BY <1>0, <3>1, CountSignal DEF WaitLabels
    <3>3. LogHeld'
      <4>1. SameAt(pc, pc', {"pushLog", "popLog"})
        BY <1>0, <3>1, SignalSame DEF Woken
      <4> QED BY <3>1, <4>1, HeldSame DEF LogSync, LogHeld
    <3>4. \/ /\ Count(pc, {"waitCond3"}) = 0
             /\ Count(pc', {"waitCond3"}) = Count(pc, {"waitCond3"})
             /\ Count(pc', {"signalCond3"}) = Count(pc, {"signalCond3"}) - 1
             /\ Count(pc', {"waitCond4"}) = Count(pc, {"waitCond4"})
             /\ Count(pc', {"wokenCond4", "pushLog"}) = Count(pc, {"wokenCond4", "pushLog"})
             /\ Count(pc', {"signalCond4"}) = Count(pc, {"signalCond4"})
          \/ /\ Count(pc, {"waitCond3"}) > 0
             /\ Count(pc', {"waitCond3"}) = Count(pc, {"waitCond3"}) - 1
             /\ Count(pc', {"signalCond3"}) = Count(pc, {"signalCond3"}) - 1
             /\ Count(pc', {"waitCond4"}) = Count(pc, {"waitCond4"})
             /\ Count(pc', {"wokenCond4", "pushLog"}) = Count(pc, {"wokenCond4", "pushLog"})
             /\ Count(pc', {"signalCond4"}) = Count(pc, {"signalCond4"})
      BY ONLY <1>nat, <3>2 DEF Bit, Woken
    <3>5. EntriesAwaited'
      BY <1>0, <3>1, <3>4, LogCounts DEF LogSync, EntriesAwaited
    <3>6. CellsAwaited'
      BY <1>0, <3>1, <3>4, LogCounts DEF LogSync, CellsAwaited
    <3>7. LogBounded'
      BY <1>0, <3>1, <3>4, LogCounts DEF LogSync, LogBounded
    <3> QED BY <3>3, <3>5, <3>6, <3>7 DEF LogSync
  <2>2. CASE ~word[w].last
    <3>1. pc[w] = "signalCond3" /\ Signal(w, "waitCond3", "serve") /\ UNCHANGED log_queue_lock
          /\ UNCHANGED log_queue
      BY <1>0, <1>13, <2>2 DEF SignalCond3, At, queues, locks
    <3>2. \/ Count(pc, {"waitCond3"}) = 0 /\ Moved("signalCond3", "serve")
          \/ Count(pc, {"waitCond3"}) > 0 /\ MovedAndWoken("signalCond3", "serve", "waitCond3")
      BY <1>0, <3>1, CountSignal DEF WaitLabels
    <3>3. LogHeld'
      <4>1. SameAt(pc, pc', {"pushLog", "popLog"})
        BY <1>0, <3>1, SignalSame DEF Woken
      <4> QED BY <3>1, <4>1, HeldSame DEF LogSync, LogHeld
    <3>4. \/ /\ Count(pc, {"waitCond3"}) = 0
             /\ Count(pc', {"waitCond3"}) = Count(pc, {"waitCond3"})
             /\ Count(pc', {"signalCond3"}) = Count(pc, {"signalCond3"}) - 1
             /\ Count(pc', {"waitCond4"}) = Count(pc, {"waitCond4"})
             /\ Count(pc', {"wokenCond4", "pushLog"}) = Count(pc, {"wokenCond4", "pushLog"})
             /\ Count(pc', {"signalCond4"}) = Count(pc, {"signalCond4"})
          \/ /\ Count(pc, {"waitCond3"}) > 0
             /\ Count(pc', {"waitCond3"}) = Count(pc, {"waitCond3"}) - 1
             /\ Count(pc', {"signalCond3"}) = Count(pc, {"signalCond3"}) - 1
             /\ Count(pc', {"waitCond4"}) = Count(pc, {"waitCond4"})
             /\ Count(pc', {"wokenCond4", "pushLog"}) = Count(pc, {"wokenCond4", "pushLog"})
             /\ Count(pc', {"signalCond4"}) = Count(pc, {"signalCond4"})
      BY ONLY <1>nat, <3>2 DEF Bit, Woken
    <3>5. EntriesAwaited'
      BY <1>0, <3>1, <3>4, LogCounts DEF LogSync, EntriesAwaited
    <3>6. CellsAwaited'
      BY <1>0, <3>1, <3>4, LogCounts DEF LogSync, CellsAwaited
    <3>7. LogBounded'
      BY <1>0, <3>1, <3>4, LogCounts DEF LogSync, LogBounded
    <3> QED BY <3>3, <3>5, <3>6, <3>7 DEF LogSync
  <2> QED BY <2>1, <2>2
<1> QED BY <1>1, <1>2, <1>3, <1>4, <1>5, <1>6, <1>7, <1>8, <1>9, <1>10, <1>11, <1>12, <1>13 DEF Worker

\* Every step of the log thread keeps LogSync.
LEMMA LogThreadLogSync == TypeInv /\ LogSync /\ LogThread => LogSync'
<1> SUFFICES ASSUME TypeInv, LogSync, LogThread PROVE LogSync'
  OBVIOUS
<1>0. /\ PcOK(pc) /\ PcOK(pc') /\ Logger \in Threads /\ cellAmount \in Nat \ {0}
      /\ log_queue.queue_size \in Int
  BY LogThreadTypeInv, ThreadsAreApart, CellsAssumption DEF TypeInv, TypeOK, QueueOK
<1>nat. \A labels : Count(pc, labels) \in Nat
  BY CountType
<1> DEFINE Moved(a, l) ==
             \A labels : Count(pc', labels) = Count(pc, labels) + Bit(l, labels) - Bit(a, labels)
           MovedAndWoken(a, l, x) ==
             \A labels : Count(pc', labels)
               = Count(pc, labels) + Bit(Woken(x), labels) - Bit(x, labels) + Bit(l, labels) - Bit(a, labels)
<1>1. CASE LoggerLocksLog
  <2>1. CASE log_queue.queue_size <= 0
    <3>1. pc[Logger] = "lockLog" /\ Goto(Logger, "waitCond3") /\ UNCHANGED log_queue_lock
          /\ log_queue.queue_size <= 0 /\ UNCHANGED log_queue
      BY <1>0, <1>1, <2>1 DEF LoggerLocksLog, At, queues
    <3>2. Moved("lockLog", "waitCond3")
      BY ONLY <1>0, <3>1, CountGoto
    <3>3. LogHeld'
      <4>1. SameAt(pc, pc', {"pushLog", "popLog"})
        BY <1>0, <3>1, GotoSame
      <4> QED BY <3>1, <4>1, HeldSame DEF LogSync, LogHeld
    <3>4. /\ Count(pc', {"waitCond3"}) = Count(pc, {"waitCond3"}) + 1
          /\ Count(pc', {"signalCond3"}) = Count(pc, {"signalCond3"})
          /\ Count(pc', {"waitCond4"}) = Count(pc, {"waitCond4"})
          /\ Count(pc', {"wokenCond4", "pushLog"}) = Count(pc, {"wokenCond4", "pushLog"})
          /\ Count(pc', {"signalCond4"}) = Count(pc, {"signalCond4"})
      BY ONLY <1>nat, <3>2 DEF Bit
    <3>5. EntriesAwaited'
      BY <1>0, <3>1, <3>4, LogCounts DEF LogSync, EntriesAwaited
    <3>6. CellsAwaited'
      BY <1>0, <3>1, <3>4, LogCounts DEF LogSync, CellsAwaited
    <3>7. LogBounded'
      BY <1>0, <3>1, <3>4, LogCounts DEF LogSync, LogBounded
    <3> QED BY <3>3, <3>5, <3>6, <3>7 DEF LogSync
  <2>2. CASE log_queue.queue_size > 0
    <3>1. pc[Logger] = "lockLog" /\ Goto(Logger, "popLog") /\ log_queue_lock = NoThread /\ log_queue_lock' = Logger
          /\ UNCHANGED log_queue
      BY <1>0, <1>1, <2>2 DEF LoggerLocksLog, At, queues
    <3>2. Moved("lockLog", "popLog")
      BY ONLY <1>0, <3>1, CountGoto
    <3>3. LogHeld'
      BY <1>0, <3>1, HeldEnter DEF LogSync, LogHeld
    <3>4. /\ Count(pc', {"waitCond3"}) = Count(pc, {"waitCond3"})
          /\ Count(pc', {"signalCond3"}) = Count(pc, {"signalCond3"})
          /\ Count(pc', {"waitCond4"}) = Count(pc, {"waitCond4"})
          /\ Count(pc', {"wokenCond4", "pushLog"}) = Count(pc, {"wokenCond4", "pushLog"})
          /\ Count(pc', {"signalCond4"}) = Count(pc, {"signalCond4"})
      BY ONLY <1>nat, <3>2 DEF Bit
    <3>5. EntriesAwaited'
      BY <1>0, <3>1, <3>4, LogCounts DEF LogSync, EntriesAwaited
    <3>6. CellsAwaited'
      BY <1>0, <3>1, <3>4, LogCounts DEF LogSync, CellsAwaited
    <3>7. LogBounded'
      BY <1>0, <3>1, <3>4, LogCounts DEF LogSync, LogBounded
    <3> QED BY <3>3, <3>5, <3>6, <3>7 DEF LogSync
  <2> QED BY <1>0, <2>1, <2>2
<1>2. CASE LoggerReacquires
  <2>1. pc[Logger] = "wokenCond3" /\ Goto(Logger, "popLog") /\ log_queue_lock = NoThread /\ log_queue_lock' = Logger
        /\ UNCHANGED log_queue
    BY <1>0, <1>2 DEF LoggerReacquires, ReacquireLog, At, queues
  <2>2. Moved("wokenCond3", "popLog")
    BY ONLY <1>0, <2>1, CountGoto
  <2>3. LogHeld'
    BY <1>0, <2>1, HeldEnter DEF LogSync, LogHeld
  <2>4. /\ Count(pc', {"waitCond3"}) = Count(pc, {"waitCond3"})
        /\ Count(pc', {"signalCond3"}) = Count(pc, {"signalCond3"})
        /\ Count(pc', {"waitCond4"}) = Count(pc, {"waitCond4"})
        /\ Count(pc', {"wokenCond4", "pushLog"}) = Count(pc, {"wokenCond4", "pushLog"})
        /\ Count(pc', {"signalCond4"}) = Count(pc, {"signalCond4"})
    BY ONLY <1>nat, <2>2 DEF Bit
  <2>5. EntriesAwaited'
    BY <1>0, <2>1, <2>4, LogCounts DEF LogSync, EntriesAwaited
  <2>6. CellsAwaited'
    BY <1>0, <2>1, <2>4, LogCounts DEF LogSync, CellsAwaited
  <2>7. LogBounded'
    BY <1>0, <2>1, <2>4, LogCounts DEF LogSync, LogBounded
  <2> QED BY <2>3, <2>5, <2>6, <2>7 DEF LogSync
<1>3. CASE PopLog
  <2>1. pc[Logger] = "popLog" /\ Goto(Logger, "signalCond4") /\ log_queue_lock' = NoThread
        /\ log_queue'.queue_size = log_queue.queue_size - 1
    BY <1>0, <1>3 DEF PopLog, PoppedQueue, At
  <2>2. Moved("popLog", "signalCond4")
    BY ONLY <1>0, <2>1, CountGoto
  <2>3. LogHeld'
    BY <1>0, <2>1, HeldLeave DEF LogSync, LogHeld
  <2>4. /\ Count(pc', {"waitCond3"}) = Count(pc, {"waitCond3"})
        /\ Count(pc', {"signalCond3"}) = Count(pc, {"signalCond3"})
        /\ Count(pc', {"waitCond4"}) = Count(pc, {"waitCond4"})
        /\ Count(pc', {"wokenCond4", "pushLog"}) = Count(pc, {"wokenCond4", "pushLog"})
        /\ Count(pc', {"signalCond4"}) = Count(pc, {"signalCond4"}) + 1
    BY ONLY <1>nat, <2>2 DEF Bit
  <2>5. EntriesAwaited'
    BY <1>0, <2>1, <2>4, LogCounts DEF LogSync, EntriesAwaited
  <2>6. CellsAwaited'
    BY <1>0, <2>1, <2>4, LogCounts DEF LogSync, CellsAwaited
  <2>7. LogBounded'
    BY <1>0, <2>1, <2>4, LogCounts DEF LogSync, LogBounded
  <2> QED BY <2>3, <2>5, <2>6, <2>7 DEF LogSync
<1>4. CASE PopLogFaults
  <2>1. SameAt(pc, pc', LogLabels) /\ UNCHANGED <<log_queue, log_queue_lock>>
    BY <1>4 DEF PopLogFaults, Halt, queues, locks, SameAt
  <2> QED BY <2>1, LogSyncKept
<1>5. CASE PopLogAborts
  <2>1. SameAt(pc, pc', LogLabels) /\ UNCHANGED <<log_queue, log_queue_lock>>
    BY <1>5 DEF PopLogAborts, Halt, queues, locks, SameAt
  <2> QED BY <2>1, LogSyncKept
<1>6. CASE SignalCond4
  <2>1. CASE word[Logger] = NoWord
    <3>1. pc[Logger] = "signalCond4" /\ Signal(Logger, "waitCond4", "lockLog") /\ UNCHANGED log_queue_lock
          /\ UNCHANGED log_queue
      BY <1>0, <1>6, <2>1 DEF SignalCond4, At, queues, locks
    <3>2. \/ Count(pc, {"waitCond4"}) = 0 /\ Moved("signalCond4", "lockLog")
          \/ Count(pc, {"waitCond4"}) > 0 /\ MovedAndWoken("signalCond4", "lockLog", "waitCond4")
      BY <1>0, <3>1, CountSignal DEF WaitLabels
    <3>3. LogHeld'
      <4>1. SameAt(pc, pc', {"pushLog", "popLog"})
        BY <1>0, <3>1, SignalSame DEF Woken
      <4> QED BY <3>1, <4>1, HeldSame DEF LogSync, LogHeld
    <3>4. \/ /\ Count(pc, {"waitCond4"}) = 0
             /\ Count(pc', {"waitCond3"}) = Count(pc, {"waitCond3"})
             /\ Count(pc', {"signalCond3"}) = Count(pc, {"signalCond3"})
             /\ Count(pc', {"waitCond4"}) = Count(pc, {"waitCond4"})
             /\ Count(pc', {"wokenCond4", "pushLog"}) = Count(pc, {"wokenCond4", "pushLog"})
             /\ Count(pc', {"signalCond4"}) = Count(pc, {"signalCond4"}) - 1
          \/ /\ Count(pc, {"waitCond4"}) > 0
             /\ Count(pc', {"waitCond3"}) = Count(pc, {"waitCond3"})
             /\ Count(pc', {"signalCond3"}) = Count(pc, {"signalCond3"})
             /\ Count(pc', {"waitCond4"}) = Count(pc, {"waitCond4"}) - 1
             /\ Count(pc', {"wokenCond4", "pushLog"}) = Count(pc, {"wokenCond4", "pushLog"}) + 1
             /\ Count(pc', {"signalCond4"}) = Count(pc, {"signalCond4"}) - 1
      BY ONLY <1>nat, <3>2 DEF Bit, Woken
    <3>5. EntriesAwaited'
      BY <1>0, <3>1, <3>4, LogCounts DEF LogSync, EntriesAwaited
    <3>6. CellsAwaited'
      BY <1>0, <3>1, <3>4, LogCounts DEF LogSync, CellsAwaited
    <3>7. LogBounded'
      BY <1>0, <3>1, <3>4, LogCounts DEF LogSync, LogBounded
    <3> QED BY <3>3, <3>5, <3>6, <3>7 DEF LogSync
  <2>2. CASE word[Logger] # NoWord
    <3>1. pc[Logger] = "signalCond4" /\ Signal(Logger, "waitCond4", "write") /\ UNCHANGED log_queue_lock
          /\ UNCHANGED log_queue
      BY <1>0, <1>6, <2>2 DEF SignalCond4, At, queues, locks
    <3>2. \/ Count(pc, {"waitCond4"}) = 0 /\ Moved("signalCond4", "write")
          \/ Count(pc, {"waitCond4"}) > 0 /\ MovedAndWoken("signalCond4", "write", "waitCond4")
      BY <1>0, <3>1, CountSignal DEF WaitLabels
    <3>3. LogHeld'
      <4>1. SameAt(pc, pc', {"pushLog", "popLog"})
        BY <1>0, <3>1, SignalSame DEF Woken
      <4> QED BY <3>1, <4>1, HeldSame DEF LogSync, LogHeld
    <3>4. \/ /\ Count(pc, {"waitCond4"}) = 0
             /\ Count(pc', {"waitCond3"}) = Count(pc, {"waitCond3"})
             /\ Count(pc', {"signalCond3"}) = Count(pc, {"signalCond3"})
             /\ Count(pc', {"waitCond4"}) = Count(pc, {"waitCond4"})
             /\ Count(pc', {"wokenCond4", "pushLog"}) = Count(pc, {"wokenCond4", "pushLog"})
             /\ Count(pc', {"signalCond4"}) = Count(pc, {"signalCond4"}) - 1
          \/ /\ Count(pc, {"waitCond4"}) > 0
             /\ Count(pc', {"waitCond3"}) = Count(pc, {"waitCond3"})
             /\ Count(pc', {"signalCond3"}) = Count(pc, {"signalCond3"})
             /\ Count(pc', {"waitCond4"}) = Count(pc, {"waitCond4"}) - 1
             /\ Count(pc', {"wokenCond4", "pushLog"}) = Count(pc, {"wokenCond4", "pushLog"}) + 1
             /\ Count(pc', {"signalCond4"}) = Count(pc, {"signalCond4"}) - 1
      BY ONLY <1>nat, <3>2 DEF Bit, Woken
    <3>5. EntriesAwaited'
      BY <1>0, <3>1, <3>4, LogCounts DEF LogSync, EntriesAwaited
    <3>6. CellsAwaited'
      BY <1>0, <3>1, <3>4, LogCounts DEF LogSync, CellsAwaited
    <3>7. LogBounded'
      BY <1>0, <3>1, <3>4, LogCounts DEF LogSync, LogBounded
    <3> QED BY <3>3, <3>5, <3>6, <3>7 DEF LogSync
  <2> QED BY <2>1, <2>2
<1>7. CASE WriteLog
  <2>1. SameAt(pc, pc', LogLabels)
    BY <1>0, <1>7, GotoSame DEF WriteLog, At, LogLabels
  <2> QED BY <1>7, <2>1, LogSyncKept DEF WriteLog, queues, locks
<1>8. CASE WriteLogDies
  <2>1. SameAt(pc, pc', LogLabels) /\ UNCHANGED <<log_queue, log_queue_lock>>
    BY <1>8 DEF WriteLogDies, Halt, queues, locks, SameAt
  <2> QED BY <2>1, LogSyncKept
<1> QED BY <1>1, <1>2, <1>3, <1>4, <1>5, <1>6, <1>7, <1>8 DEF LogThread

\* A spurious wakeup of a sleeping log thread only adds a thread that is awake; one of
\* a worker voids the bound, which LogSync then does not claim.
LEMMA OthersLogSync ==
  ASSUME TypeInv, LogSync,
         \/ \E t \in SpuriousWakeups : SpuriousWakeup(t)
         \/ MainBrokenPipe \/ \E w \in Workers : WorkerBrokenPipe(w)
         \/ \E c \in Hangups : Hangup(c)
         \/ UNCHANGED vars
  PROVE  LogSync'
<1>0. /\ PcOK(pc) /\ PcOK(pc') /\ cellAmount \in Nat \ {0} /\ log_queue.queue_size \in Int
  BY OthersTypeInv, CellsAssumption DEF TypeInv, TypeOK, QueueOK
<1>nat. \A labels : Count(pc, labels) \in Nat
  BY CountType
<1> DEFINE Moved(a, l) ==
             \A labels : Count(pc', labels) = Count(pc, labels) + Bit(l, labels) - Bit(a, labels)
<1>1. ASSUME NEW t \in SpuriousWakeups, SpuriousWakeup(t) PROVE LogSync'
  <2>0. t \in Threads /\ pc[t] \in WaitLabels /\ pc[t] \in CodeOf(t)
    BY <1>0, <1>1, BoundsAssumption DEF SpuriousWakeup, Threads, PcOK
  <2>1. CASE pc[t] = "waitCond3"
    <3>1. pc[t] = "waitCond3" /\ Goto(t, "wokenCond3") /\ UNCHANGED log_queue_lock
          /\ UNCHANGED log_queue
      BY <1>0, <1>1, <2>1 DEF SpuriousWakeup, Woken, queues, locks
    <3>2. Moved("waitCond3", "wokenCond3")
      BY ONLY <1>0, <2>0, <3>1, CountGoto
    <3>3. LogHeld'
      <4>1. SameAt(pc, pc', {"pushLog", "popLog"})
        BY <1>0, <2>0, <3>1, GotoSame
      <4> QED BY <3>1, <4>1, HeldSame DEF LogSync, LogHeld
    <3>4. /\ Count(pc', {"waitCond3"}) = Count(pc, {"waitCond3"}) - 1
          /\ Count(pc', {"signalCond3"}) = Count(pc, {"signalCond3"})
          /\ Count(pc', {"waitCond4"}) = Count(pc, {"waitCond4"})
          /\ Count(pc', {"wokenCond4", "pushLog"}) = Count(pc, {"wokenCond4", "pushLog"})
          /\ Count(pc', {"signalCond4"}) = Count(pc, {"signalCond4"})
      BY ONLY <1>nat, <3>2 DEF Bit
    <3>5. EntriesAwaited'
      BY <1>0, <2>0, <3>1, <3>4, LogCounts DEF LogSync, EntriesAwaited
    <3>6. CellsAwaited'
      BY <1>0, <2>0, <3>1, <3>4, LogCounts DEF LogSync, CellsAwaited
    <3>7. LogBounded'
      BY <1>0, <2>0, <3>1, <3>4, LogCounts DEF LogSync, LogBounded
    <3> QED BY <3>3, <3>5, <3>6, <3>7 DEF LogSync
  <2>2. CASE pc[t] = "waitCond4"
    <3>0. t \in Workers
      BY <2>0, <2>2 DEF CodeOf, MainLabels, LoggerLabels, Threads
    <3>1. pc[t] = "waitCond4" /\ Goto(t, "wokenCond4") /\ UNCHANGED log_queue_lock
          /\ UNCHANGED log_queue
      BY <1>0, <1>1, <2>2 DEF SpuriousWakeup, Woken, queues, locks
    <3>2. Moved("waitCond4", "wokenCond4")
      BY ONLY <1>0, <2>0, <3>0, <3>1, CountGoto
    <3>3. LogHeld'
      <4>1. SameAt(pc, pc', {"pushLog", "popLog"})
        BY <1>0, <2>0, <3>0, <3>1, GotoSame
      <4> QED BY <3>1, <4>1, HeldSame DEF LogSync, LogHeld
    <3>4. /\ Count(pc', {"waitCond3"}) = Count(pc, {"waitCond3"})
          /\ Count(pc', {"signalCond3"}) = Count(pc, {"signalCond3"})
          /\ Count(pc', {"waitCond4"}) = Count(pc, {"waitCond4"}) - 1
          /\ Count(pc', {"wokenCond4", "pushLog"}) = Count(pc, {"wokenCond4", "pushLog"}) + 1
          /\ Count(pc', {"signalCond4"}) = Count(pc, {"signalCond4"})
      BY ONLY <1>nat, <3>2 DEF Bit
    <3>5. EntriesAwaited'
      BY <1>0, <2>0, <3>0, <3>1, <3>4, LogCounts DEF LogSync, EntriesAwaited
    <3>6. CellsAwaited'
      BY <1>0, <2>0, <3>0, <3>1, <3>4, LogCounts DEF LogSync, CellsAwaited
    <3>7. LogBounded'
      BY <1>0, <2>0, <3>0, <3>1, <3>4, LogCounts DEF LogSync, LogBounded
    <3> QED BY <3>3, <3>5, <3>6, <3>7 DEF LogSync
  <2>3. CASE pc[t] \notin {"waitCond3", "waitCond4"}
    <3>1. SameAt(pc, pc', LogLabels)
      BY <1>0, <1>1, <2>0, <2>3, GotoSame DEF SpuriousWakeup, Woken, WaitLabels, LogLabels
    <3> QED BY <1>1, <3>1, LogSyncKept DEF SpuriousWakeup, queues, locks
  <2> QED BY <2>1, <2>2, <2>3
<1>2. CASE UNCHANGED <<pc, log_queue, log_queue_lock>>
  <2>1. SameAt(pc, pc', LogLabels)
    BY <1>2 DEF SameAt
  <2> QED BY <1>2, <2>1, LogSyncKept
<1> QED BY <1>1, <1>2
        DEF MainBrokenPipe, WorkerBrokenPipe, Hangup, Halt, vars, queues, locks

\* LogSync is inductive, relative to the types.
LEMMA NextLogSync == TypeInv /\ LogSync /\ [Next]_vars => LogSync'
  BY MainLogSync, WorkerLogSync, LogThreadLogSync, OthersLogSync DEF Next

-----------------------------------------------------------------------------
(***************************************************************************)
(* What follows for every run of the server.                               *)
(***************************************************************************)
SyncInv == TypeInv /\ JobSync /\ LogSync

\* Nobody sleeps, waits for a signal or holds a mutex at the start.
LEMMA InitSyncInv == Init => SyncInv
<1> SUFFICES ASSUME Init PROVE SyncInv
  OBVIOUS
<1>1. TypeInv
  BY InitTypeInv
<1>2. \A t \in Threads : pc[t] \notin JobLabels \cup LogLabels
  BY DEF Init, JobLabels, LogLabels
<1>3. /\ job_queue.queue_size = 0 /\ log_queue.queue_size = 0
      /\ job_queue_lock = NoThread /\ log_queue_lock = NoThread
  BY DEF Init, create_queue
<1>4. \A labels : labels \subseteq JobLabels \cup LogLabels => Count(pc, labels) = 0
  BY <1>2, CountType
<1>5. cellAmount \in Nat /\ Cardinality(Workers) \in Nat
  BY CellsAssumption, WorkersAssumption, FS_CardinalityType
<1>6. JobsHeld /\ LogHeld
  BY <1>2, <1>3, ThreadsAreApart DEF JobsHeld, LogHeld, Held, JobLabels, LogLabels
<1>7. JobsAwaited /\ RoomAwaited /\ JobsBounded
  BY <1>3, <1>4, <1>5 DEF JobsAwaited, RoomAwaited, JobsBounded, JobLabels, LogLabels
<1>8. EntriesAwaited /\ CellsAwaited /\ LogBounded
  BY <1>3, <1>4, <1>5 DEF EntriesAwaited, CellsAwaited, LogBounded, JobLabels, LogLabels
<1> QED BY <1>1, <1>6, <1>7, <1>8 DEF SyncInv, JobSync, LogSync

\* SyncInv is inductive.
LEMMA NextSyncInv == SyncInv /\ [Next]_vars => SyncInv'
  BY NextTypeInv, NextJobSync, NextLogSync DEF SyncInv

\* Counts of threads, in the words of the properties.
LEMMA CountIsThreadsAt ==
  ASSUME NEW labels
  PROVE  /\ Cardinality(ThreadsAt(labels)) = Count(pc, labels)
         /\ ThreadsAt(labels) # {} <=> Count(pc, labels) > 0
<1>1. Cardinality(ThreadsAt(labels)) = Count(pc, labels) /\ Count(pc, labels) \in Nat
  BY CountType DEF ThreadsAt, Count
<1>2. ThreadsAt(labels) = {} <=> Count(pc, labels) = 0
  BY CountType DEF ThreadsAt
<1> QED BY <1>1, <1>2

\* At most one thread at a time changes the job queue, and one the log queue
\* (lines 518 and 584), however many workers there are.
THEOREM MutualExclusion == Spec => []OneThreadPerQueue
<1>1. SyncInv => OneThreadPerQueue
  BY DEF SyncInv, JobSync, LogSync, JobsHeld, LogHeld, Held, OneThreadPerQueue, ThreadsAt
<1> QED BY <1>1, InitSyncInv, NextSyncInv, PTL DEF Spec

\* No signal is lost between main and the workers, although both are sent after
\* the unlock (lines 234 and 470).
THEOREM JobWakeups == Spec => []NoLostJobWakeup
<1>1. SyncInv => NoLostJobWakeup
  BY CountIsThreadsAt
     DEF SyncInv, JobSync, JobsAwaited, RoomAwaited, NoLostJobWakeup
<1> QED BY <1>1, InitSyncInv, NextSyncInv, PTL DEF Spec

\* No signal is lost between the workers and the log thread (lines 601 and 646).
THEOREM LogWakeups == Spec => []NoLostLogWakeup
<1>1. SyncInv => NoLostLogWakeup
  BY CountIsThreadsAt
     DEF SyncInv, LogSync, EntriesAwaited, CellsAwaited, NoLostLogWakeup
<1> QED BY <1>1, InitSyncInv, NextSyncInv, PTL DEF Spec

\* The queues stay bounded although each test for a full one is made once
\* (lines 219 and 589).
THEOREM QueuesBounded == Spec => []BoundedOvershoot
<1>1. SyncInv => BoundedOvershoot
  <2> SUFFICES ASSUME SyncInv PROVE BoundedOvershoot
    OBVIOUS
  <2>1. /\ PcOK(pc) /\ job_queue.queue_size \in Int /\ log_queue.queue_size \in Int
        /\ cellAmount \in Nat
    BY CellsAssumption DEF SyncInv, TypeInv, TypeOK, QueueOK
  <2> QED BY <2>1, JobCounts, LogCounts
          DEF SyncInv, JobSync, LogSync, JobsBounded, LogBounded, BoundedOvershoot
<1> QED BY <1>1, InitSyncInv, NextSyncInv, PTL DEF Spec
=============================================================================
