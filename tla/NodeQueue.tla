----------------------------- MODULE NodeQueue -----------------------------
(***************************************************************************)
(* The linked-list queue of echoServer.c and the part of malloc it relies  *)
(* on.  A heap is a record                                                 *)
(*   cell   what each node-sized piece of memory holds, freed ones included*)
(*   frees  how often each piece lies in the allocator's free lists        *)
(*   brk    the number of pieces ever handed out                           *)
(* Addresses are 1..HeapSize.  free() leaves the fields the program reads  *)
(* as they are (the client address lies in front of them, echoServer.h:33), *)
(* and a later malloc may return any free piece: nothing in the program    *)
(* says which.  The same memory serves the texts of log nodes and FILEs.   *)
(***************************************************************************)
EXTENDS Integers, Sequences, FiniteSets

CONSTANT HeapSize   \* how many nodes fit in memory (a bound)

ASSUME HeapSizeAssumption == HeapSize \in Nat

NULL == 0
Addr == 1 .. HeapSize
Pointer == {NULL} \cup Addr

(***************************************************************************)
(* malloc, free and create_node.                                           *)
(***************************************************************************)
FreePieces(h) == {a \in Addr : h.frees[a] > 0}

Mallocs(h) == FreePieces(h) \cup ({h.brk + 1} \cap Addr)

\* create_node without temp->next = NULL: the pointer is whatever was there.
CreateNodeKeepsNext(h, a, socket, text) ==
  [cell  |-> [h.cell EXCEPT ![a] =
               [client_socket |-> socket, word |-> text, next |-> HeapSize + 1]],
   frees |-> [h.frees EXCEPT ![a] = IF @ > 0 THEN @ - 1 ELSE 0],
   brk   |-> IF a = h.brk + 1 THEN a ELSE h.brk]

\* create_node without temp->client_socket = socket.
CreateNodeKeepsSocket(h, a, socket, text) ==
  [cell  |-> [h.cell EXCEPT ![a] = [@ EXCEPT !.word = text, !.next = NULL]],
   frees |-> [h.frees EXCEPT ![a] = IF @ > 0 THEN @ - 1 ELSE 0],
   brk   |-> IF a = h.brk + 1 THEN a ELSE h.brk]

CreateNode(h, a, socket, text) ==
  [cell  |-> [h.cell EXCEPT ![a] =
               [client_socket |-> socket, word |-> text, next |-> NULL]],
   frees |-> [h.frees EXCEPT ![a] = IF @ > 0 THEN @ - 1 ELSE 0],
   brk   |-> IF a = h.brk + 1 THEN a ELSE h.brk]

(***************************************************************************)
(* The memory of a log node's text (temp->word) and of a FILE: other       *)
(* memory, or a piece a node was freed from.  It is shared when a node in  *)
(* it is still used, or when a piece freed twice is handed out again.      *)
(***************************************************************************)
Shared(h, used) == {a \in FreePieces(h) : a \in used \/ h.frees[a] > 1}

\* Texts are never freed, so a piece they take is gone.
TakenByText(h, a) ==
  [h EXCEPT !.frees = [b \in Addr |-> IF b = a THEN h.frees[b] - 1 ELSE h.frees[b]]]

Free(h, a) == IF a = NULL THEN h ELSE [h EXCEPT !.frees[a] = @ + 1]

DoubleFree(h, a) == a \in Addr /\ h.frees[a] > 0

\* free notices a node freed twice, or does not; the third time it does.
MaxFrees == 2    \* (a bound)

FreeReturns(h, a) == a \in Addr => h.frees[a] < MaxFrees

(***************************************************************************)
(* Following the next pointers from the front of a queue.                  *)
(***************************************************************************)
Hops(h, q) ==
  LET hop[n \in 0 .. HeapSize] ==
        IF n = 0 THEN q.front
        ELSE IF hop[n - 1] = NULL THEN NULL ELSE h.cell[hop[n - 1]].next
  IN  hop

Linked(h, q) == {Hops(h, q)[n] : n \in 0 .. HeapSize} \ {NULL}

Ends(h, q) == {a \in Linked(h, q) : h.cell[a].next = NULL}

Cyclic(h, q) == Linked(h, q) # {} /\ Ends(h, q) = {}

\* The linked nodes in order, for a queue that is not cyclic.
Chain(h, q) == [i \in 1 .. Cardinality(Linked(h, q)) |-> Hops(h, q)[i - 1]]

(***************************************************************************)
(* create_queue, push and pop.  push walks from the front to the node      *)
(* without a successor: with a size that is not 0 and no front it follows  *)
(* a null pointer, and around a cycle it walks for ever.                   *)
(***************************************************************************)
create_queue == [front |-> NULL, queue_size |-> 0]

PushFaults(q) == q.queue_size # 0 /\ q.front = NULL

PushReturns(h, q) == q.queue_size = 0 \/ Ends(h, q) # {}

PushedHeap(h, q, a) ==
  IF q.queue_size = 0 THEN h
  ELSE [h EXCEPT !.cell = [b \in Addr |->
          IF b \in Ends(h, q) THEN [h.cell[b] EXCEPT !.next = a] ELSE h.cell[b]]]

\* A push that makes every new node the front.
PushedQueueAtFront(q, a) == [front |-> a, queue_size |-> q.queue_size + 1]

PushedQueue(q, a) ==
  [front      |-> IF q.queue_size = 0 THEN a ELSE q.front,
   queue_size |-> q.queue_size + 1]

\* The node after the one that pop returns: the argument pop passes to free.
PopFrees(h, q) == IF q.front = NULL THEN NULL ELSE h.cell[q.front].next

\* A pop that forgets to count, and one that forgets to move the front.
PoppedQueueKeepsSize(h, q) ==
  IF q.front = NULL THEN [q EXCEPT !.queue_size = 0]
  ELSE [q EXCEPT !.front = h.cell[q.front].next]

PoppedQueueKeepsFront(h, q) ==
  IF q.front = NULL THEN [q EXCEPT !.queue_size = 0]
  ELSE [q EXCEPT !.queue_size = @ - 1]

PoppedQueue(h, q) ==
  IF q.front = NULL THEN [q EXCEPT !.queue_size = 0]
  ELSE [front |-> h.cell[q.front].next, queue_size |-> q.queue_size - 1]

PoppedHeap(h, q) == Free(h, PopFrees(h, q))
=============================================================================
