----------------------- MODULE EchoServerQueueProofs -----------------------
(***************************************************************************)
(* What the queues of EchoServer hold and in which order, for every number *)
(* of workers, cells, clients and nodes: until malloc hands out a node     *)
(* that is still in use, the linked lists are the lists push and pop       *)
(* believe in, every connection is in one place and every log entry in its *)
(* turn.                                                                   *)
(***************************************************************************)
EXTENDS EchoServerProofs, SequenceTheorems, WellFoundedInduction

-----------------------------------------------------------------------------
(***************************************************************************)
(* Following next pointers.                                                *)
(***************************************************************************)

\* Every set of natural numbers with a member has a least one.
LEMMA LeastNumber ==
  ASSUME NEW T, T \subseteq Nat, T # {}
  PROVE  \E m \in T : \A n \in T : m <= n
<1> DEFINE R == OpToRel(<, Nat)
<1>1. IsWellFoundedOn(R, Nat)
  BY NatLessThanWellFounded
<1>2. PICK m \in T : \A n \in T : ~ (<<n, m>> \in R)
  <2> HIDE DEF R
  <2> QED BY <1>1, WFMin
<1>3. \A n \in T : ~ (n < m)
  BY <1>2 DEF OpToRel
<1> QED BY <1>3

\* One hop of the walk that push makes (lines 390-396).
Hop(h, q, hop, n) ==
  IF n = 0 THEN q.front ELSE IF hop[n - 1] = NULL THEN NULL ELSE h.cell[hop[n - 1]].next

\* The walk of any length exists: a shortest one that did not would follow
\* from the one before it.
LEMMA WalkExists ==
  ASSUME NEW h, NEW q, NEW m \in Nat
  PROVE  \E f : f = [n \in 0 .. m |-> Hop(h, q, f, n)]
<1> DEFINE Walks(k) == \E f : f = [n \in 0 .. k |-> Hop(h, q, f, n)]
           T == {k \in Nat : ~ Walks(k)}
<1> SUFFICES ASSUME T # {} PROVE FALSE
  OBVIOUS
<1>1. PICK k \in T : \A j \in T : k <= j
  <2> HIDE DEF T
  <2> T \subseteq Nat
    BY DEF T
  <2> QED BY LeastNumber
<1>2. CASE k = 0
  <2> DEFINE f == [n \in 0 .. 0 |-> q.front]
  <2>1. f = [n \in 0 .. 0 |-> Hop(h, q, f, n)]
    BY DEF Hop
  <2> QED BY <1>1, <1>2, <2>1
<1>3. CASE k # 0
  <2>1. k - 1 \in Nat /\ Walks(k - 1)
    BY <1>1, <1>3
  <2>2. PICK f : f = [n \in 0 .. k - 1 |-> Hop(h, q, f, n)]
    BY <2>1
  <2> DEFINE g == [n \in 0 .. k |-> IF n = k THEN Hop(h, q, f, k) ELSE f[n]]
  <2>3. ASSUME NEW n \in 0 .. k PROVE g[n] = Hop(h, q, g, n)
    <3>1. CASE n = k
      BY <1>1, <1>3, <3>1 DEF Hop
    <3>2. CASE n # k
      <4>1. n \in 0 .. k - 1
        BY <1>1, <3>2
      <4> DEFINE hop(i) == Hop(h, q, f, i)
      <4>11. f = [i \in 0 .. k - 1 |-> hop(i)]
        BY <2>2
      <4>12. f[n] = hop(n)
        <5> HIDE DEF hop
        <5> QED BY <4>1, <4>11
      <4>2. n # 0 => g[n - 1] = f[n - 1]
        BY <1>1, <3>2
      <4>3. Hop(h, q, f, n) = Hop(h, q, g, n)
        BY <4>2 DEF Hop
      <4> QED BY <3>2, <4>12, <4>3
    <3> QED BY <3>1, <3>2
  <2>4. g = [n \in 0 .. k |-> Hop(h, q, g, n)]
    <3> HIDE DEF Hop
    <3>1. g = [n \in 0 .. k |-> g[n]]
      OBVIOUS
    <3> HIDE DEF g
    <3> QED BY <3>1, <2>3
  <2>5. Walks(k)
    <3> HIDE DEF g
    <3> QED BY <2>4
  <2> QED BY <1>1, <2>5
<1> QED BY <1>2, <1>3

\* The recursion of Hops defines a function.
LEMMA HopsWalk ==
  ASSUME NEW h, NEW q
  PROVE  Hops(h, q) = [n \in 0 .. HeapSize |-> Hop(h, q, Hops(h, q), n)]
<1>1. PICK f : f = [n \in 0 .. HeapSize |-> Hop(h, q, f, n)]
  BY WalkExists, HeapSizeAssumption
<1> QED BY <1>1 DEF Hops, Hop

-----------------------------------------------------------------------------
(***************************************************************************)
(* Lists.  s is what a queue holds: its nodes in order, no node twice, the *)
(* last one without a successor, and as many as the queue has counted.     *)
(***************************************************************************)
IsList(h, q, s) ==
  /\ s \in Seq(Addr)
  /\ q.queue_size = Len(s)
  /\ q.front = IF Len(s) = 0 THEN NULL ELSE s[1]
  /\ \A i \in 1 .. Len(s) : h.cell[s[i]].next = IF i = Len(s) THEN NULL ELSE s[i + 1]
  /\ \A i, j \in 1 .. Len(s) : s[i] = s[j] => i = j

Nodes(s) == {s[i] : i \in 1 .. Len(s)}

\* As many nodes as a list has.
LEMMA NodesCounted ==
  ASSUME NEW h, NEW q, NEW s, IsList(h, q, s)
  PROVE  /\ IsFiniteSet(Nodes(s)) /\ Cardinality(Nodes(s)) = Len(s)
         /\ Len(s) <= HeapSize
         /\ Nodes(s) \subseteq Addr
<1>1. s \in Seq(Addr) /\ Len(s) \in Nat /\ s \in [1 .. Len(s) -> Addr]
  BY DEF IsList
<1>2. Nodes(s) \subseteq Addr
  BY <1>1 DEF Nodes
<1>3. s \in Bijection(1 .. Len(s), Nodes(s))
  BY <1>1 DEF IsList, Nodes, Bijection, Injection, Surjection, IsInjective
<1>4. IsFiniteSet(1 .. Len(s)) /\ Cardinality(1 .. Len(s)) = Len(s)
  BY <1>1, FS_Interval
<1>5. IsFiniteSet(Nodes(s)) /\ Cardinality(Nodes(s)) = Len(s)
  BY <1>3, <1>4, FS_Bijection DEF ExistsBijection
<1>6. IsFiniteSet(Addr) /\ Cardinality(Addr) = HeapSize
  BY FS_Interval, HeapSizeAssumption DEF Addr
<1> QED BY <1>2, <1>5, <1>6, FS_Subset

\* The walk along a list passes its nodes in order and then stays at NULL.
LEMMA HopsOfList ==
  ASSUME NEW h, NEW q, NEW s, IsList(h, q, s)
  PROVE  \A n \in 0 .. HeapSize : Hops(h, q)[n] = IF n < Len(s) THEN s[n + 1] ELSE NULL
<1> DEFINE Passed(n) == IF n < Len(s) THEN s[n + 1] ELSE NULL
           T == {n \in 0 .. HeapSize : Hops(h, q)[n] # Passed(n)}
<1> SUFFICES ASSUME T # {} PROVE FALSE
  OBVIOUS
<1>0. Len(s) \in Nat /\ HeapSize \in Nat /\ \A i \in 1 .. Len(s) : s[i] \in Addr
  BY HeapSizeAssumption DEF IsList
<1>1. PICK n \in T : \A j \in T : n <= j
  <2> T \subseteq Nat
    BY <1>0
  <2> HIDE DEF T
  <2> QED BY LeastNumber
<1>2. n \in 0 .. HeapSize /\ Hops(h, q)[n] = Hop(h, q, Hops(h, q), n)
  <2>1. n \in 0 .. HeapSize
    BY <1>1
  <2> HIDE DEF T
  <2> DEFINE hop(i) == Hop(h, q, Hops(h, q), i)
  <2>2. Hops(h, q) = [i \in 0 .. HeapSize |-> hop(i)]
    BY HopsWalk
  <2>3. Hops(h, q)[n] = hop(n)
    <3> HIDE DEF hop
    <3> QED BY <2>1, <2>2
  <2> QED BY <2>1, <2>3
<1>3. CASE n = 0
  BY <1>0, <1>1, <1>2, <1>3 DEF Hop, IsList
<1>4. CASE n # 0
  <2>1. n - 1 \in 0 .. HeapSize /\ n - 1 \notin T
    <3>1. n \in Nat /\ n - 1 \in 0 .. HeapSize /\ ~ (n <= n - 1)
      BY <1>0, <1>2, <1>4
    <3> HIDE DEF T
    <3> QED BY <1>1, <3>1
  <2>2. Hops(h, q)[n - 1] = Passed(n - 1)
    BY <2>1
  <2>3. CASE n - 1 < Len(s)
    <3>1. n \in 1 .. Len(s) /\ Hops(h, q)[n - 1] = s[n]
      BY <1>0, <1>2, <1>4, <2>2, <2>3
    <3>2. s[n] # NULL
      BY <1>0, <3>1 DEF Addr, NULL
    <3>3. Hops(h, q)[n] = h.cell[s[n]].next
      BY <1>2, <1>4, <3>1, <3>2 DEF Hop
    <3>4. h.cell[s[n]].next = Passed(n)
      BY <1>0, <3>1 DEF IsList
    <3> QED BY <1>1, <3>3, <3>4
  <2>4. CASE ~ (n - 1 < Len(s))
    <3>1. Hops(h, q)[n - 1] = NULL
      BY <2>2, <2>4
    <3>2. Hops(h, q)[n] = NULL
      BY <1>2, <1>4, <3>1 DEF Hop
    <3> QED BY <1>0, <1>1, <1>2, <2>4, <3>2
  <2> QED BY <2>3, <2>4
<1> QED BY <1>3, <1>4

\* What the operators of NodeQueue make of a list.
LEMMA ListOperators ==
  ASSUME NEW h, NEW q, NEW s, IsList(h, q, s)
  PROVE  /\ Linked(h, q) = Nodes(s)
         /\ Chain(h, q) = s
         /\ Ends(h, q) = IF Len(s) = 0 THEN {} ELSE {s[Len(s)]}
         /\ ~ Cyclic(h, q)
<1>0. /\ s \in Seq(Addr) /\ Len(s) \in Nat /\ HeapSize \in Nat /\ s = [i \in 1 .. Len(s) |-> s[i]]
      /\ \A i \in 1 .. Len(s) : s[i] \in Addr /\ s[i] # NULL
      /\ Len(s) <= HeapSize
  <2>1. s \in Seq(Addr) /\ Len(s) \in Nat /\ HeapSize \in Nat /\ s \in [1 .. Len(s) -> Addr]
    BY HeapSizeAssumption DEF IsList
  <2>2. \A i \in 1 .. Len(s) : s[i] \in Addr /\ s[i] # NULL
    BY <2>1 DEF Addr, NULL
  <2> QED BY <2>1, <2>2, NodesCounted
<1>1. \A n \in 0 .. HeapSize : Hops(h, q)[n] = IF n < Len(s) THEN s[n + 1] ELSE NULL
  BY HopsOfList
<1>2. Linked(h, q) = Nodes(s)
  <2>1. ASSUME NEW a \in Linked(h, q) PROVE a \in Nodes(s)
    <3>1. PICK n \in 0 .. HeapSize : a = Hops(h, q)[n] /\ a # NULL
      BY <2>1 DEF Linked
    <3>2. n + 1 \in 1 .. Len(s) /\ a = s[n + 1]
      BY <1>0, <1>1, <3>1
    <3> QED BY <3>2 DEF Nodes
  <2>2. ASSUME NEW i \in 1 .. Len(s) PROVE s[i] \in Linked(h, q)
    <3>1. i - 1 \in 0 .. HeapSize /\ Hops(h, q)[i - 1] = s[i]
      BY <1>0, <1>1, <2>2
    <3> QED BY <1>0, <3>1 DEF Linked
  <2> QED BY <2>1, <2>2 DEF Nodes
<1>3. Chain(h, q) = s
  <2>1. Cardinality(Linked(h, q)) = Len(s)
    BY <1>2, NodesCounted
  <2>2. Chain(h, q) = [i \in 1 .. Len(s) |-> Hops(h, q)[i - 1]]
    BY <2>1 DEF Chain
  <2>3. \A i \in 1 .. Len(s) : Hops(h, q)[i - 1] = s[i]
    BY <1>0, <1>1
  <2> QED BY <1>0, <2>2, <2>3
<1>4. Ends(h, q) = IF Len(s) = 0 THEN {} ELSE {s[Len(s)]}
  <2>1. \A i \in 1 .. Len(s) : h.cell[s[i]].next = NULL <=> i = Len(s)
    BY <1>0 DEF IsList
  <2>2. Ends(h, q) = {a \in Nodes(s) : h.cell[a].next = NULL}
    BY <1>2 DEF Ends
  <2> QED BY <1>0, <2>1, <2>2 DEF Nodes
<1>5. ~ Cyclic(h, q)
  <2>1. CASE Len(s) = 0
    BY <1>2, <2>1 DEF Cyclic, Nodes
  <2>2. CASE Len(s) # 0
    BY <1>4, <2>2 DEF Cyclic
  <2> QED BY <2>1, <2>2
<1> QED BY <1>2, <1>3, <1>4, <1>5

-----------------------------------------------------------------------------
(***************************************************************************)
(* push and pop of one queue while the other one is left alone.            *)
(***************************************************************************)
TwoLists(h, q, r) ==
  /\ IsList(h, q, Chain(h, q)) /\ IsList(h, r, Chain(h, r))
  /\ Linked(h, q) \cap Linked(h, r) = {}
  /\ \A a \in Addr : h.frees[a] <= 1
  /\ \A a \in Linked(h, q) \ {q.front} : h.frees[a] = 0
  /\ \A a \in Linked(h, r) \ {r.front} : h.frees[a] = 0

\* A list lives in its own nodes.
LEMMA ListKept ==
  ASSUME NEW h, NEW k, NEW q, NEW s, IsList(h, q, s),
         \A a \in Nodes(s) : k.cell[a].next = h.cell[a].next
  PROVE  IsList(k, q, s)
<1>1. \A i \in 1 .. Len(s) : k.cell[s[i]].next = h.cell[s[i]].next
  BY DEF Nodes
<1> QED BY <1>1 DEF IsList

\* The new node goes behind the last one (lines 390-398).
LEMMA PushAppends ==
  ASSUME NEW h, HeapOK(h), NEW q, NEW s, IsList(h, q, s),
         NEW a \in Addr, a \notin Nodes(s), h.cell[a].next = NULL
  PROVE  IsList(PushedHeap(h, q, a), PushedQueue(q, a), Append(s, a))
<1> DEFINE k == PushedHeap(h, q, a)
           p == PushedQueue(q, a)
           u == Append(s, a)
           n == Len(s)
<1>0. /\ s \in Seq(Addr) /\ n \in Nat /\ q.queue_size = n
      /\ q.front = IF n = 0 THEN NULL ELSE s[1]
      /\ \A i \in 1 .. n : s[i] \in Addr /\ s[i] # a
  BY DEF IsList, Nodes
<1>1. /\ u \in Seq(Addr) /\ Len(u) = n + 1 /\ u[n + 1] = a
      /\ \A i \in 1 .. n : u[i] = s[i]
  BY <1>0
<1>2. p.queue_size = n + 1 /\ p.front = u[1]
  BY <1>0, <1>1 DEF PushedQueue
<1>3. \A b \in Addr : k.cell[b].next = IF n # 0 /\ b = s[n] THEN a ELSE h.cell[b].next
  <2>1. CASE n = 0
    BY <1>0, <2>1 DEF PushedHeap
  <2>2. CASE n # 0
    <3>1. Ends(h, q) = {s[n]}
      BY <2>2, ListOperators
    <3>2. k.cell = [b \in Addr |-> IF b \in Ends(h, q) THEN [h.cell[b] EXCEPT !.next = a] ELSE h.cell[b]]
      BY <1>0, <2>2 DEF PushedHeap, HeapOK
    <3>3. ASSUME NEW b \in Addr PROVE h.cell[b] \in Node
      BY DEF HeapOK
    <3> QED BY <2>2, <3>1, <3>2, <3>3 DEF Node
  <2> QED BY <2>1, <2>2
<1>4. \A i \in 1 .. n + 1 : k.cell[u[i]].next = IF i = n + 1 THEN NULL ELSE u[i + 1]
  <2> SUFFICES ASSUME NEW i \in 1 .. n + 1
               PROVE  k.cell[u[i]].next = IF i = n + 1 THEN NULL ELSE u[i + 1]
    OBVIOUS
  <2>1. CASE i = n + 1
    <3>1. u[i] = a /\ ~ (n # 0 /\ a = s[n])
      BY <1>0, <1>1, <2>1
    <3> QED BY <1>3, <2>1, <3>1
  <2>2. CASE i = n
    <3>1. n # 0 /\ u[i] = s[n] /\ s[n] \in Addr
      BY <1>0, <1>1, <2>2
    <3>2. k.cell[u[i]].next = a
      BY <1>3, <3>1
    <3> QED BY <1>0, <1>1, <2>2, <3>2
  <2>3. CASE i # n + 1 /\ i # n
    <3>1. i \in 1 .. n /\ i + 1 \in 1 .. n /\ n \in 1 .. n
      BY <1>0, <2>3
    <3>2. u[i] = s[i] /\ u[i + 1] = s[i + 1] /\ s[i] \in Addr /\ s[i] # s[n]
      BY <1>0, <1>1, <2>3, <3>1 DEF IsList
    <3>3. k.cell[u[i]].next = h.cell[s[i]].next
      BY <1>3, <3>2
    <3>4. h.cell[s[i]].next = s[i + 1]
      BY <2>3, <3>1 DEF IsList
    <3> QED BY <2>3, <3>2, <3>3, <3>4
  <2> QED BY <2>1, <2>2, <2>3
<1>5. \A i, j \in 1 .. n + 1 : u[i] = u[j] => i = j
  <2> SUFFICES ASSUME NEW i \in 1 .. n + 1, NEW j \in 1 .. n + 1, u[i] = u[j] PROVE i = j
    OBVIOUS
  <2>1. CASE i \in 1 .. n /\ j \in 1 .. n
    BY <1>1, <2>1 DEF IsList
  <2>2. CASE ~ (i \in 1 .. n /\ j \in 1 .. n)
    BY <1>0, <1>1, <2>2
  <2> QED BY <2>1, <2>2
<1> HIDE DEF k, p, u
<1>6. Len(u) # 0
  BY <1>0, <1>1
<1>7. IsList(k, p, u)
  BY <1>1, <1>2, <1>4, <1>5, <1>6 DEF IsList
<1> QED BY <1>7 DEF k, p, u

\* pop (lines 408-423) leaves the nodes behind the first one.
LEMMA PopTakesFirst ==
  ASSUME NEW h, HeapOK(h), NEW q, QueueOK(h, q), NEW s, IsList(h, q, s), Len(s) # 0
  PROVE  /\ IsList(PoppedHeap(h, q), PoppedQueue(h, q), Tail(s))
         /\ PopFrees(h, q) = IF Len(s) = 1 THEN NULL ELSE s[2]
<1> DEFINE k == PoppedHeap(h, q)
           p == PoppedQueue(h, q)
           u == Tail(s)
           n == Len(s)
<1>0. /\ s \in Seq(Addr) /\ n \in Nat /\ n >= 1 /\ q.queue_size = n
      /\ q.front = s[1] /\ s[1] \in Addr /\ s[1] # NULL /\ s # <<>>
  <2>1. s \in Seq(Addr) /\ q.queue_size = n /\ q.front = IF n = 0 THEN NULL ELSE s[1]
    BY DEF IsList
  <2>2. n \in Nat /\ n >= 1 /\ s[1] \in Addr
    BY <2>1
  <2>3. s # <<>> /\ s[1] # NULL
    BY <2>1, <2>2 DEF Addr, NULL
  <2> QED BY <2>1, <2>2, <2>3
<1>1. /\ u \in Seq(Addr) /\ Len(u) = n - 1
      /\ \A i \in 1 .. n - 1 : u[i] = s[i + 1]
  BY <1>0, HeadTailProperties
<1>2. h.cell[s[1]].next = IF n = 1 THEN NULL ELSE s[2]
  <2>1. 1 \in 1 .. n
    BY <1>0
  <2>2. h.cell[s[1]].next = IF 1 = n THEN NULL ELSE s[1 + 1]
    BY <2>1 DEF IsList
  <2> QED BY <2>2
<1>3. p.queue_size = n - 1 /\ p.front = IF n = 1 THEN NULL ELSE s[2]
  BY <1>0, <1>2 DEF PoppedQueue
<1>4. k.cell = h.cell
  BY PoppedHeapOK
<1>5. \A i \in 1 .. n - 1 : h.cell[u[i]].next = IF i = n - 1 THEN NULL ELSE u[i + 1]
  <2> SUFFICES ASSUME NEW i \in 1 .. n - 1
               PROVE  h.cell[u[i]].next = IF i = n - 1 THEN NULL ELSE u[i + 1]
    OBVIOUS
  <2>1. i + 1 \in 1 .. n /\ u[i] = s[i + 1]
    BY <1>0, <1>1
  <2>2. h.cell[s[i + 1]].next = IF i + 1 = n THEN NULL ELSE s[i + 2]
    BY <2>1 DEF IsList
  <2>3. CASE i = n - 1
    BY <1>0, <2>1, <2>2, <2>3
  <2>4. CASE i # n - 1
    <3>1. i + 1 \in 1 .. n - 1 /\ (i + 1) + 1 = i + 2
      BY <1>0, <2>4
    <3>2. u[i + 1] = s[(i + 1) + 1]
      BY <1>1, <3>1
    <3> QED BY <1>0, <2>1, <2>2, <2>4, <3>1, <3>2
  <2> QED BY <2>3, <2>4
<1>6. \A i, j \in 1 .. n - 1 : u[i] = u[j] => i = j
  <2> SUFFICES ASSUME NEW i \in 1 .. n - 1, NEW j \in 1 .. n - 1, u[i] = u[j] PROVE i = j
    OBVIOUS
  <2>1. i + 1 \in 1 .. n /\ j + 1 \in 1 .. n /\ s[i + 1] = s[j + 1]
    BY <1>0, <1>1
  <2>2. i + 1 = j + 1
    BY <2>1 DEF IsList
  <2> QED BY <2>2
<1>7. n # 1 => u[1] = s[2]
  BY <1>0, <1>1
<1> HIDE DEF k, p, u
<1>8. IsList(k, p, u)
  BY <1>0, <1>1, <1>3, <1>4, <1>5, <1>6, <1>7 DEF IsList
<1>9. PopFrees(h, q) = IF n = 1 THEN NULL ELSE s[2]
  BY <1>0, <1>2 DEF PopFrees
<1> QED BY <1>8, <1>9 DEF k, p, u

\* What a list is, said of the chain the operators compute.
LEMMA ChainIsList ==
  ASSUME NEW h, NEW q, NEW s, IsList(h, q, s)
  PROVE  Chain(h, q) = s /\ Linked(h, q) = Nodes(s) /\ IsList(h, q, Chain(h, q))
  BY ListOperators

\* A push on one of two lists: the new node comes last, no other node changes
\* what it carries, and the other list is as it was.
LEMMA PushTwoLists ==
  ASSUME NEW h, HeapOK(h), NEW q, NEW r, TwoLists(h, q, r),
         NEW a \in Mallocs(h), a \notin Linked(h, q), a \notin Linked(h, r),
         NEW c \in {0} \cup Clients, NEW t \in Word
  PROVE  LET k == PushedHeap(CreateNode(h, a, c, t), q, a)
             p == PushedQueue(q, a)
         IN  /\ TwoLists(k, p, r)
             /\ a \in Addr
             /\ Chain(k, p) = Append(Chain(h, q), a)
             /\ Chain(k, r) = Chain(h, r)
             /\ k.cell[a].client_socket = c /\ k.cell[a].word = t
             /\ \A b \in Addr \ {a} : /\ k.cell[b].client_socket = h.cell[b].client_socket
                                      /\ k.cell[b].word = h.cell[b].word
<1> DEFINE g == CreateNode(h, a, c, t)
           k == PushedHeap(g, q, a)
           p == PushedQueue(q, a)
           s == Chain(h, q)
           u == Chain(h, r)
<1>0. /\ IsList(h, q, s) /\ Linked(h, q) = Nodes(s)
      /\ IsList(h, r, u) /\ Linked(h, r) = Nodes(u)
      /\ a \notin Nodes(s) /\ a \notin Nodes(u)
  BY ChainIsList DEF TwoLists
<1>1. a \in Addr /\ Nodes(s) \subseteq Addr /\ Nodes(u) \subseteq Addr
  BY <1>0, MallocsInHeap, NodesCounted
<1>2. HeapOK(g) /\ a \in 1 .. g.brk
  BY CreateNodeOK
<1>3. /\ g.cell[a].client_socket = c /\ g.cell[a].word = t /\ g.cell[a].next = NULL
      /\ g.frees[a] = IF h.frees[a] > 0 THEN h.frees[a] - 1 ELSE 0
      /\ \A b \in Addr \ {a} : g.cell[b] = h.cell[b] /\ g.frees[b] = h.frees[b]
  BY <1>1 DEF CreateNode, HeapOK
<1>4. IsList(g, q, s) /\ IsList(g, r, u)
  BY <1>0, <1>1, <1>3, ListKept
<1>5. IsList(k, p, Append(s, a))
  BY <1>0, <1>1, <1>2, <1>3, <1>4, PushAppends
<1>6. k.frees = g.frees
  BY DEF PushedHeap
<1>7. \A b \in Addr : /\ k.cell[b].client_socket = g.cell[b].client_socket
                      /\ k.cell[b].word = g.cell[b].word
                      /\ b \notin Nodes(s) => k.cell[b].next = g.cell[b].next
  <2>1. CASE q.queue_size = 0
    BY <2>1 DEF PushedHeap
  <2>2. CASE q.queue_size # 0
    <3>1. k.cell = [b \in Addr |-> IF b \in Ends(g, q) THEN [g.cell[b] EXCEPT !.next = a] ELSE g.cell[b]]
      BY <1>2, <2>2 DEF PushedHeap, HeapOK
    <3>2. \A b \in Ends(g, q) : b \in Nodes(s)
      BY <1>4, ChainIsList DEF Ends
    <3>3. ASSUME NEW b \in Addr PROVE g.cell[b] \in Node
      BY <1>2 DEF HeapOK
    <3> HIDE DEF k, g
    <3> QED BY <3>1, <3>2, <3>3 DEF Node
  <2> QED BY <2>1, <2>2
<1>8. Nodes(s) \cap Nodes(u) = {}
  BY <1>0 DEF TwoLists
<1>9. IsList(k, r, u)
  BY <1>1, <1>4, <1>7, <1>8, ListKept
<1>10. Nodes(Append(s, a)) = Nodes(s) \cup {a}
  <2>1. s \in Seq(Addr)
    BY <1>0 DEF IsList
  <2> HIDE DEF s
  <2>2. Len(s) \in Nat /\ Len(Append(s, a)) = Len(s) + 1 /\ Append(s, a)[Len(s) + 1] = a
        /\ \A i \in 1 .. Len(s) : Append(s, a)[i] = s[i]
    BY <1>1, <2>1
  <2>3. ASSUME NEW b \in Nodes(Append(s, a)) PROVE b \in Nodes(s) \cup {a}
    <3>1. PICK i \in 1 .. Len(s) + 1 : b = Append(s, a)[i]
      BY <2>2 DEF Nodes
    <3>2. CASE i = Len(s) + 1
      BY <2>2, <3>1, <3>2
    <3>3. CASE i # Len(s) + 1
      <4>1. i \in 1 .. Len(s)
        BY <2>2, <3>3
      <4> QED BY <2>2, <3>1, <4>1 DEF Nodes
    <3> QED BY <3>2, <3>3
  <2>4. Nodes(s) \cup {a} \subseteq Nodes(Append(s, a))
    <3>1. \A i \in 1 .. Len(s) + 1 : Append(s, a)[i] \in Nodes(Append(s, a))
      BY <2>2 DEF Nodes
    <3>2. \A i \in 1 .. Len(s) : i \in 1 .. Len(s) + 1
      BY <2>2
    <3>3. Len(s) + 1 \in 1 .. Len(s) + 1
      BY <2>2
    <3>4. a \in Nodes(Append(s, a))
      BY <2>2, <3>1, <3>3
    <3>5. \A i \in 1 .. Len(s) : s[i] \in Nodes(Append(s, a))
      BY <2>2, <3>1, <3>2
    <3> QED BY <3>4, <3>5 DEF Nodes
  <2> QED BY <2>3, <2>4
<1>11. /\ Chain(k, p) = Append(s, a) /\ Linked(k, p) = Nodes(s) \cup {a} /\ IsList(k, p, Chain(k, p))
       /\ Chain(k, r) = u /\ Linked(k, r) = Nodes(u) /\ IsList(k, r, Chain(k, r))
  <2> HIDE DEF k, p, s, u
  <2> QED BY <1>5, <1>9, <1>10, ChainIsList
<1>12. /\ h.frees \in [Addr -> Nat] /\ \A b \in Addr : h.frees[b] <= 1
       /\ \A b \in Nodes(s) \ {q.front} : h.frees[b] = 0
       /\ \A b \in Nodes(u) \ {r.front} : h.frees[b] = 0
  BY <1>0 DEF TwoLists, HeapOK
<1>13. /\ k.frees[a] = 0
       /\ \A b \in Addr \ {a} : k.frees[b] = h.frees[b]
  BY <1>1, <1>3, <1>6, <1>12
<1>14. q.front = p.front \/ Nodes(s) = {}
  BY <1>0 DEF PushedQueue, IsList, Nodes
<1>15. TwoLists(k, p, r)
  <2> HIDE DEF k, p, s, u, g
  <2>1. \A b \in Addr : k.frees[b] <= 1
    BY <1>12, <1>13
  <2>2. \A b \in Linked(k, p) \ {p.front} : k.frees[b] = 0
    BY <1>0, <1>1, <1>11, <1>12, <1>13, <1>14
  <2>3. \A b \in Linked(k, r) \ {r.front} : k.frees[b] = 0
    BY <1>0, <1>1, <1>11, <1>12, <1>13
  <2>4. Linked(k, p) \cap Linked(k, r) = {}
    BY <1>0, <1>8, <1>11
  <2> QED BY <1>11, <2>1, <2>2, <2>3, <2>4 DEF TwoLists
<1> HIDE DEF k, g, p, s, u
<1>16. /\ k.cell[a].client_socket = c /\ k.cell[a].word = t
       /\ \A b \in Addr \ {a} : /\ k.cell[b].client_socket = h.cell[b].client_socket
                                /\ k.cell[b].word = h.cell[b].word
  BY <1>1, <1>3, <1>7
<1> QED BY <1>1, <1>11, <1>15, <1>16 DEF k, g, p, s, u

\* A text changes no cell, so every list stays, and frees become fewer.
LEMMA TextTwoLists ==
  ASSUME NEW h, HeapOK(h), NEW b \in {NULL} \cup FreePieces(h), NEW q, NEW r, TwoLists(h, q, r)
  PROVE  LET k == TakenByText(h, b) IN
         /\ TwoLists(k, q, r) /\ k.cell = h.cell
         /\ Chain(k, q) = Chain(h, q) /\ Chain(k, r) = Chain(h, r)
<1> DEFINE k == TakenByText(h, b)
<1>1. /\ HeapOK(k) /\ k.cell = h.cell
      /\ \A a \in Addr : k.frees[a] \in Nat /\ k.frees[a] <= h.frees[a]
  BY TakenByTextOK
<1>2. h.frees \in [Addr -> Nat]
  BY DEF HeapOK
<1> HIDE DEF k
<1>3. ASSUME NEW p
      PROVE  Linked(k, p) = Linked(h, p) /\ Chain(k, p) = Chain(h, p)
  BY <1>1 DEF Chain, Linked, Hops
<1>4. ASSUME NEW p, NEW s PROVE IsList(h, p, s) => IsList(k, p, s)
  BY <1>1 DEF IsList
<1>5. /\ IsList(k, q, Chain(k, q)) /\ IsList(k, r, Chain(k, r))
      /\ Linked(k, q) \cap Linked(k, r) = {}
  BY <1>3, <1>4 DEF TwoLists
<1>6. /\ \A a \in Addr : h.frees[a] <= 1
      /\ \A a \in Linked(h, q) \ {q.front} : h.frees[a] = 0
      /\ \A a \in Linked(h, r) \ {r.front} : h.frees[a] = 0
      /\ Linked(h, q) \subseteq Addr /\ Linked(h, r) \subseteq Addr
  <2>1. /\ IsList(h, q, Chain(h, q)) /\ IsList(h, r, Chain(h, r))
        /\ \A a \in Addr : h.frees[a] <= 1
        /\ \A a \in Linked(h, q) \ {q.front} : h.frees[a] = 0
        /\ \A a \in Linked(h, r) \ {r.front} : h.frees[a] = 0
    BY DEF TwoLists
  <2>2. Linked(h, q) \subseteq Addr /\ Linked(h, r) \subseteq Addr
    BY <2>1, ChainIsList, NodesCounted
  <2> QED BY <2>1, <2>2
<1>7. ASSUME NEW a \in Addr
      PROVE  /\ k.frees[a] <= 1
             /\ h.frees[a] = 0 => k.frees[a] = 0
  BY <1>1, <1>2, <1>6
<1>8. TwoLists(k, q, r)
  BY <1>3, <1>5, <1>6, <1>7 DEF TwoLists
<1> QED BY <1>1, <1>3, <1>8 DEF k

\* A pop from one of two lists: the node it frees becomes the front, so that
\* still no node behind a front has been freed.
LEMMA PopTwoLists ==
  ASSUME NEW h, HeapOK(h), NEW q, QueueOK(h, q), NEW r, TwoLists(h, q, r)
  PROVE  LET k == PoppedHeap(h, q)
             p == PoppedQueue(h, q)
         IN  /\ TwoLists(k, p, r)
             /\ k.cell = h.cell
             /\ Chain(k, p) = IF q.front = NULL THEN Chain(h, q) ELSE Tail(Chain(h, q))
             /\ q.front = NULL => Chain(h, q) = <<>>
             /\ q.front # NULL => Chain(h, q) # <<>> /\ Chain(h, q)[1] = q.front
             /\ Chain(k, r) = Chain(h, r)
<1> DEFINE k == PoppedHeap(h, q)
           p == PoppedQueue(h, q)
           s == Chain(h, q)
           u == Chain(h, r)
           n == Len(s)
<1>0. /\ IsList(h, q, s) /\ Linked(h, q) = Nodes(s)
      /\ IsList(h, r, u) /\ Linked(h, r) = Nodes(u)
  BY ChainIsList DEF TwoLists
<1>1. s \in Seq(Addr) /\ n \in Nat /\ q.queue_size = n /\ Nodes(s) \subseteq Addr /\ Nodes(u) \subseteq Addr
  <2> HIDE DEF s, u
  <2>1. s \in Seq(Addr) /\ q.queue_size = n
    BY <1>0 DEF IsList
  <2>2. Nodes(s) \subseteq Addr /\ Nodes(u) \subseteq Addr
    BY <1>0, NodesCounted
  <2> QED BY <2>1, <2>2
<1>2. k.cell = h.cell
  BY PoppedHeapOK
<1>3. IsList(k, r, u)
  BY <1>0, <1>2, ListKept
<1>4. Chain(k, r) = u /\ Linked(k, r) = Nodes(u) /\ IsList(k, r, Chain(k, r))
  <2> HIDE DEF k, u
  <2> QED BY <1>3, ChainIsList
<1>5. CASE n = 0
  <2>1. q.front = NULL /\ s = <<>>
    BY <1>0, <1>1, <1>5 DEF IsList
  <2>2. p = [q EXCEPT !.queue_size = 0] /\ k = h
    BY <2>1 DEF PoppedQueue, PoppedHeap, PopFrees, Free
  <2>3. p = q
    BY <1>1, <1>5, <2>2 DEF QueueOK
  <2> QED BY <2>1, <2>2, <2>3
<1>6. CASE n # 0
  <2>0. q.front = s[1] /\ q.front # NULL /\ s # <<>> /\ q.front \in Nodes(s)
    <3>1. q.front = s[1] /\ 1 \in 1 .. n
      BY <1>0, <1>1, <1>6 DEF IsList
    <3>2. s[1] \in Nodes(s)
      BY <3>1 DEF Nodes
    <3> QED BY <1>1, <1>6, <3>1, <3>2 DEF Addr, NULL
  <2>1. IsList(k, p, Tail(s)) /\ PopFrees(h, q) = IF n = 1 THEN NULL ELSE s[2]
    BY <1>0, <1>6, PopTakesFirst
  <2>2. Chain(k, p) = Tail(s) /\ Linked(k, p) = Nodes(Tail(s)) /\ IsList(k, p, Chain(k, p))
    <3> HIDE DEF k, p, s
    <3> QED BY <2>1, ChainIsList
  <2>3. Nodes(Tail(s)) = Nodes(s) \ {s[1]}
    <3> HIDE DEF s
    <3>1. Len(Tail(s)) = n - 1 /\ \A i \in 1 .. n - 1 : Tail(s)[i] = s[i + 1]
      BY <1>1, <2>0, HeadTailProperties
    <3>2. \A i, j \in 1 .. n : s[i] = s[j] => i = j
      BY <1>0 DEF IsList
    <3>3. ASSUME NEW b \in Nodes(Tail(s)) PROVE b \in Nodes(s) \ {s[1]}
      <4>1. PICK i \in 1 .. n - 1 : b = s[i + 1]
        BY <3>1 DEF Nodes
      <4>2. i + 1 \in 1 .. n /\ 1 \in 1 .. n /\ i + 1 # 1
        BY <1>1
      <4> QED BY <3>2, <4>1, <4>2 DEF Nodes
    <3>4. ASSUME NEW b \in Nodes(s), b # s[1] PROVE b \in Nodes(Tail(s))
      <4>1. PICK i \in 1 .. n : b = s[i]
        BY DEF Nodes
      <4>2. i - 1 \in 1 .. n - 1 /\ (i - 1) + 1 = i
        BY <1>1, <3>4, <4>1
      <4>3. Tail(s)[i - 1] = b
        BY <3>1, <4>1, <4>2
      <4> QED BY <3>1, <4>2, <4>3 DEF Nodes
    <3> QED BY <3>3, <3>4
  <2>4. /\ h.frees \in [Addr -> Nat] /\ \A b \in Addr : h.frees[b] <= 1
        /\ \A b \in Nodes(s) \ {q.front} : h.frees[b] = 0
        /\ \A b \in Nodes(u) \ {r.front} : h.frees[b] = 0
        /\ Nodes(s) \cap Nodes(u) = {}
    BY <1>0 DEF TwoLists, HeapOK
  <2>5. CASE n = 1
    <3>1. k = h
      BY <2>1, <2>5 DEF PoppedHeap, Free
    <3>2. Nodes(Tail(s)) = {}
      <4>1. Len(Tail(s)) = 0
        BY <1>1, <2>0, <2>5
      <4> QED BY <4>1 DEF Nodes
    <3>3. TwoLists(k, p, r)
      <4> HIDE DEF k, p, s, u
      <4> QED BY <1>1, <1>4, <2>2, <2>4, <3>1, <3>2 DEF TwoLists
    <3> QED BY <1>2, <1>4, <2>0, <2>2, <3>3
  <2>6. CASE n # 1
    <3>1. s[2] \in Addr /\ s[2] # NULL /\ s[2] \in Nodes(s) /\ s[2] # s[1] /\ 2 \in 1 .. n
      <4>1. 2 \in 1 .. n /\ 1 \in 1 .. n
        <5> HIDE DEF n
        <5> QED BY <1>1, <1>6, <2>6
      <4>2. s[2] \in Nodes(s) /\ s[2] # s[1]
        BY <1>0, <4>1 DEF IsList, Nodes
      <4> QED BY <1>1, <4>1, <4>2 DEF Addr, NULL
    <3>2. k.frees = [h.frees EXCEPT ![s[2]] = @ + 1]
      BY <2>1, <2>6, <3>1 DEF PoppedHeap, Free, HeapOK
    <3>3. p.front = s[2]
      BY <2>0, <2>1, <2>6 DEF PoppedQueue, PopFrees
    <3>4. TwoLists(k, p, r)
      <4> HIDE DEF k, p, s, u
      <4>1. h.frees[s[2]] = 0
        BY <2>0, <2>4, <3>1
      <4>2. k.frees[s[2]] = 1 /\ \A b \in Addr \ {s[2]} : k.frees[b] = h.frees[b]
        BY <2>4, <3>1, <3>2, <4>1
      <4>3. \A b \in Addr : k.frees[b] <= 1
        BY <2>4, <4>2
      <4>4. \A b \in Linked(k, p) \ {p.front} : k.frees[b] = 0
        BY <1>1, <2>0, <2>2, <2>3, <2>4, <3>3, <4>2
      <4>5. \A b \in Linked(k, r) \ {r.front} : k.frees[b] = 0
        BY <1>1, <1>4, <2>4, <3>1, <4>2
      <4>6. Linked(k, p) \cap Linked(k, r) = {}
        BY <1>4, <2>2, <2>3, <2>4
      <4> QED BY <1>4, <2>2, <4>3, <4>4, <4>5, <4>6 DEF TwoLists
    <3> QED BY <1>2, <1>4, <2>0, <2>2, <3>4
  <2> QED BY <2>5, <2>6
<1> QED BY <1>5, <1>6

-----------------------------------------------------------------------------
(***************************************************************************)
(* The inductive invariants.                                               *)
(***************************************************************************)
\* Both queues are lists, with no node in common.
Lists == TwoLists(heap, job_queue, log_queue)

\* js are the queued connections, srv the one each worker has or 0, hold says
\* that main has the one accepted last, closed are those closed.
OnePlaceOf(js, srv, hold, acc, closed) ==
  /\ acc \in Nat
  /\ js \in Seq(1 .. acc) /\ srv \in [Workers -> 0 .. acc] /\ closed \subseteq 1 .. acc
  /\ \A i, j \in 1 .. Len(js) : js[i] = js[j] => i = j
  /\ \A v, w \in Workers : srv[v] # 0 /\ srv[v] = srv[w] => v = w
  /\ \A i \in 1 .. Len(js) : js[i] \notin closed /\ \A w \in Workers : js[i] # srv[w]
  /\ \A w \in Workers : srv[w] \notin closed
  /\ hold => /\ acc # 0 /\ acc \notin closed
             /\ \A i \in 1 .. Len(js) : js[i] # acc
             /\ \A w \in Workers : srv[w] # acc
  /\ \A c \in 1 .. acc : \/ \E i \in 1 .. Len(js) : js[i] = c
                         \/ \E w \in Workers : srv[w] = c
                         \/ c \in closed
                         \/ hold /\ c = acc

Closed == {c \in Clients : conn[c] = "closed"}

OnePlace ==
  OnePlaceOf(JobSockets, [w \in Workers |-> Serving(w)], pc[Main] \in HoldingLabels,
             accepted, Closed)

\* The workers with an entry they have composed and not pushed yet.
ComposedLabels == {"lockLog", "waitCond4", "wokenCond4", "pushLog"}

Composing(c) == \E w \in Workers : pc[w] \in ComposedLabels /\ client_socket[w] = c

\* es are entries with the numbers 1 .. n(c) for each client c, in order.
Numbered(es, n) ==
  /\ es \in Seq(Word)
  /\ \A i \in 1 .. Len(es) : es[i].client \in Clients
  /\ \A i \in 1 .. Len(es) : es[i].no \in 1 .. n[es[i].client]
  /\ \A c \in Clients : \A m \in 1 .. n[c] : \E i \in 1 .. Len(es) : es[i].client = c /\ es[i].no = m
  /\ \A i, j \in 1 .. Len(es) : es[i].client = es[j].client /\ i < j => es[i].no < es[j].no

\* How many entries of each client were pushed.
Pushed == [c \in Clients |-> sent[c] - IF Composing(c) THEN 1 ELSE 0]

InTurn ==
  /\ Numbered(Entries, Pushed)
  /\ \A w \in Workers : pc[w] \in ComposedLabels =>
       /\ word[w].client = client_socket[w]
       /\ word[w].no = sent[client_socket[w]]
       /\ word[w].no # 0

\* A worker that has pushed the terminator's entry and is about to close.
Closing(c) ==
  \E w \in Workers : pc[w] = "signalCond3" /\ client_socket[w] = c /\ word[w].last

\* The terminator's entry is the client's last, and exactly closed connections
\* and those about to be closed have one.
EndsLast ==
  /\ \A i \in 1 .. Len(Entries) : Entries[i].last =>
       /\ Entries[i].no = sent[Entries[i].client]
       /\ Entries[i].client \in Closed \/ Closing(Entries[i].client)
  /\ \A c \in Clients : c \in Closed \/ Closing(c) =>
       \E i \in 1 .. Len(Entries) : Entries[i].client = c /\ Entries[i].last

\* Every entry is one of S, and so is every word that will be one.
WordsFrom(S) ==
  /\ \A i \in 1 .. Len(Entries) : Entries[i] \in S
  /\ \A w \in Workers : pc[w] \in ComposedLabels => word[w] \in S

QueueInv == TypeInv /\ (~recycled => Lists /\ OnePlace /\ InTurn)

EndInv == ~recycled => EndsLast

-----------------------------------------------------------------------------
(***************************************************************************)
(* One connection, one place: the four steps that move a connection.       *)
(***************************************************************************)
LEMMA PlaceAccepted ==
  ASSUME NEW js, NEW srv, NEW acc, NEW closed, OnePlaceOf(js, srv, FALSE, acc, closed)
  PROVE  OnePlaceOf(js, srv, TRUE, acc + 1, closed)
<1>0. acc \in Nat /\ js \in Seq(1 .. acc) /\ srv \in [Workers -> 0 .. acc] /\ closed \subseteq 1 .. acc
  BY DEF OnePlaceOf
<1>1. js \in Seq(1 .. acc + 1) /\ srv \in [Workers -> 0 .. acc + 1] /\ closed \subseteq 1 .. acc + 1
  <2>1. 1 .. acc \subseteq 1 .. acc + 1 /\ 0 .. acc \subseteq 0 .. acc + 1
    BY <1>0
  <2> QED BY <1>0, <2>1, SeqMonotonic
<1>2. /\ acc + 1 \in Nat /\ acc + 1 # 0 /\ acc + 1 \notin closed
      /\ \A i \in 1 .. Len(js) : js[i] # acc + 1
      /\ \A w \in Workers : srv[w] # acc + 1
  <2>1. \A i \in 1 .. Len(js) : js[i] \in 1 .. acc
    BY <1>0
  <2> QED BY <1>0, <2>1
<1>3. \A c \in 1 .. acc + 1 : c \in 1 .. acc \/ c = acc + 1
  BY <1>0
<1> QED BY <1>1, <1>2, <1>3 DEF OnePlaceOf

LEMMA PlaceQueued ==
  ASSUME NEW js, NEW srv, NEW acc, NEW closed, OnePlaceOf(js, srv, TRUE, acc, closed)
  PROVE  OnePlaceOf(Append(js, acc), srv, FALSE, acc, closed)
<1> DEFINE ks == Append(js, acc)
           n == Len(js)
<1>0. acc \in Nat /\ acc # 0 /\ js \in Seq(1 .. acc) /\ n \in Nat
  BY DEF OnePlaceOf
<1>1. /\ ks \in Seq(1 .. acc) /\ Len(ks) = n + 1 /\ ks[n + 1] = acc
      /\ \A i \in 1 .. n : ks[i] = js[i]
  <2>1. acc \in 1 .. acc
    BY <1>0
  <2> QED BY <1>0, <2>1, AppendProperties
<1>2. \A i \in 1 .. n + 1 : i \in 1 .. n \/ i = n + 1
  BY <1>0
<1>3. n + 1 \in 1 .. n + 1 /\ \A i \in 1 .. n : i \in 1 .. n + 1
  BY <1>0
<1>4. /\ \A i \in 1 .. n : js[i] # acc /\ js[i] \notin closed /\ \A w \in Workers : js[i] # srv[w]
      /\ \A i, j \in 1 .. n : js[i] = js[j] => i = j
      /\ acc \notin closed /\ \A w \in Workers : srv[w] # acc
      /\ \A c \in 1 .. acc : \/ \E i \in 1 .. n : js[i] = c
                             \/ \E w \in Workers : srv[w] = c
                             \/ c \in closed
                             \/ c = acc
  BY DEF OnePlaceOf
<1> HIDE DEF ks, n
<1>5. \A i, j \in 1 .. n + 1 : ks[i] = ks[j] => i = j
  <2> SUFFICES ASSUME NEW i \in 1 .. n + 1, NEW j \in 1 .. n + 1, ks[i] = ks[j] PROVE i = j
    OBVIOUS
  <2>1. CASE i \in 1 .. n /\ j \in 1 .. n
    BY <1>1, <1>4, <2>1
  <2>2. CASE i = n + 1 \/ j = n + 1
    BY <1>1, <1>2, <1>4, <2>2
  <2> QED BY <1>2, <2>1, <2>2
<1>6. \A i \in 1 .. n + 1 : ks[i] \notin closed /\ \A w \in Workers : ks[i] # srv[w]
  <2> SUFFICES ASSUME NEW i \in 1 .. n + 1
               PROVE  ks[i] \notin closed /\ \A w \in Workers : ks[i] # srv[w]
    OBVIOUS
  <2>1. CASE i \in 1 .. n
    BY <1>1, <1>4, <2>1
  <2>2. CASE i = n + 1
    BY <1>1, <1>4, <2>2
  <2> QED BY <1>2, <2>1, <2>2
<1>7. \A c \in 1 .. acc : \/ \E i \in 1 .. n + 1 : ks[i] = c
                          \/ \E w \in Workers : srv[w] = c
                          \/ c \in closed
  <2> SUFFICES ASSUME NEW c \in 1 .. acc
               PROVE  \/ \E i \in 1 .. n + 1 : ks[i] = c
                      \/ \E w \in Workers : srv[w] = c
                      \/ c \in closed
    OBVIOUS
  <2>1. ASSUME NEW i \in 1 .. n, js[i] = c PROVE \E j \in 1 .. n + 1 : ks[j] = c
    BY <1>1, <1>3, <2>1
  <2>2. c = acc => \E j \in 1 .. n + 1 : ks[j] = c
    BY <1>1, <1>3
  <2> QED BY <1>4, <2>1, <2>2
<1> QED BY <1>1, <1>5, <1>6, <1>7 DEF OnePlaceOf, ks

LEMMA PlaceTaken ==
  ASSUME NEW js, NEW srv, NEW hold, NEW acc, NEW closed, OnePlaceOf(js, srv, hold, acc, closed),
         js # <<>>, NEW w \in Workers, srv[w] = 0
  PROVE  OnePlaceOf(Tail(js), [srv EXCEPT ![w] = js[1]], hold, acc, closed)
<1> DEFINE ks == Tail(js)
           n == Len(js)
           f == [srv EXCEPT ![w] = js[1]]
<1>0. acc \in Nat /\ js \in Seq(1 .. acc) /\ n \in Nat /\ n >= 1 /\ srv \in [Workers -> 0 .. acc]
  BY DEF OnePlaceOf
<1>1. /\ ks \in Seq(1 .. acc) /\ Len(ks) = n - 1
      /\ \A i \in 1 .. n - 1 : ks[i] = js[i + 1]
  BY <1>0, HeadTailProperties
<1>2. /\ 1 \in 1 .. n /\ js[1] \in 1 .. acc
      /\ \A i \in 1 .. n - 1 : i + 1 \in 1 .. n /\ i + 1 # 1
      /\ \A i \in 1 .. n : i = 1 \/ (i - 1 \in 1 .. n - 1 /\ (i - 1) + 1 = i)
  BY <1>0
<1>3. f \in [Workers -> 0 .. acc] /\ f[w] = js[1] /\ \A v \in Workers : v # w => f[v] = srv[v]
  BY <1>0, <1>2
<1> HIDE DEF ks, n, f
<1>4. \A i, j \in 1 .. n : js[i] = js[j] => i = j
  BY DEF OnePlaceOf, n
<1>5. \A i \in 1 .. n : js[i] \notin closed /\ \A v \in Workers : js[i] # srv[v]
  BY DEF OnePlaceOf, n
<1>6. \A i, j \in 1 .. n - 1 : ks[i] = ks[j] => i = j
  <2> SUFFICES ASSUME NEW i \in 1 .. n - 1, NEW j \in 1 .. n - 1, ks[i] = ks[j] PROVE i = j
    OBVIOUS
  <2>1. i + 1 = j + 1
    BY <1>1, <1>2, <1>4
  <2> QED BY <2>1
<1>7. \A i \in 1 .. n - 1 : ks[i] \notin closed /\ \A v \in Workers : ks[i] # f[v]
  <2> SUFFICES ASSUME NEW i \in 1 .. n - 1
               PROVE  ks[i] \notin closed /\ \A v \in Workers : ks[i] # f[v]
    OBVIOUS
  <2>1. ks[i] = js[i + 1] /\ js[i + 1] # js[1]
    BY <1>1, <1>2, <1>4
  <2> QED BY <1>2, <1>3, <1>5, <2>1
<1>8. \A u, v \in Workers : f[u] # 0 /\ f[u] = f[v] => u = v
  BY <1>2, <1>3, <1>5 DEF OnePlaceOf
<1>9. \A v \in Workers : f[v] \notin closed
  BY <1>2, <1>3, <1>5 DEF OnePlaceOf
<1>10. hold => /\ acc # 0 /\ acc \notin closed
               /\ \A i \in 1 .. n - 1 : ks[i] # acc
               /\ \A v \in Workers : f[v] # acc
  BY <1>1, <1>2, <1>3 DEF OnePlaceOf, n
<1>11. \A c \in 1 .. acc : \/ \E i \in 1 .. n - 1 : ks[i] = c
                           \/ \E v \in Workers : f[v] = c
                           \/ c \in closed
                           \/ hold /\ c = acc
  <2> SUFFICES ASSUME NEW c \in 1 .. acc
               PROVE  \/ \E i \in 1 .. n - 1 : ks[i] = c
                      \/ \E v \in Workers : f[v] = c
                      \/ c \in closed
                      \/ hold /\ c = acc
    OBVIOUS
  <2>1. ASSUME NEW i \in 1 .. n, js[i] = c
        PROVE  (\E j \in 1 .. n - 1 : ks[j] = c) \/ \E v \in Workers : f[v] = c
    BY <1>1, <1>2, <1>3, <2>1
  <2>2. ASSUME NEW v \in Workers, srv[v] = c PROVE \E u \in Workers : f[u] = c
    <3>1. v # w
      BY <1>0, <2>2
    <3> QED BY <1>3, <2>2, <3>1
  <2> QED BY <2>1, <2>2 DEF OnePlaceOf, n
<1> QED BY <1>0, <1>1, <1>3, <1>6, <1>7, <1>8, <1>9, <1>10, <1>11 DEF OnePlaceOf, ks, f

LEMMA PlaceClosed ==
  ASSUME NEW js, NEW srv, NEW hold, NEW acc, NEW closed, OnePlaceOf(js, srv, hold, acc, closed),
         NEW w \in Workers, srv[w] # 0
  PROVE  OnePlaceOf(js, [srv EXCEPT ![w] = 0], hold, acc, closed \cup {srv[w]})
<1> DEFINE f == [srv EXCEPT ![w] = 0]
           d == closed \cup {srv[w]}
<1>0. /\ acc \in Nat /\ js \in Seq(1 .. acc) /\ srv \in [Workers -> 0 .. acc] /\ closed \subseteq 1 .. acc
      /\ \A i \in 1 .. Len(js) : js[i] \in 1 .. acc
  BY DEF OnePlaceOf
<1>1. f \in [Workers -> 0 .. acc] /\ f[w] = 0 /\ \A v \in Workers : v # w => f[v] = srv[v]
  BY <1>0
<1>2. d \subseteq 1 .. acc /\ 0 \notin d /\ 0 \notin 1 .. acc
  <2>1. srv[w] \in 1 .. acc
    BY <1>0
  <2>2. 0 \notin 1 .. acc /\ closed \subseteq 1 .. acc
    BY <1>0
  <2> QED BY <2>1, <2>2, Zenon
<1> HIDE DEF f
<1>3. \A i \in 1 .. Len(js) : js[i] \notin d /\ \A v \in Workers : js[i] # f[v]
  BY <1>0, <1>1, <1>2 DEF OnePlaceOf
<1>4. \A u, v \in Workers : f[u] # 0 /\ f[u] = f[v] => u = v
  BY <1>1 DEF OnePlaceOf
<1>5. \A v \in Workers : f[v] \notin d
  BY <1>1, <1>2 DEF OnePlaceOf
<1>6. hold => /\ acc # 0 /\ acc \notin d
              /\ \A i \in 1 .. Len(js) : js[i] # acc
              /\ \A v \in Workers : f[v] # acc
  BY <1>1 DEF OnePlaceOf
<1>7. \A c \in 1 .. acc : \/ \E i \in 1 .. Len(js) : js[i] = c
                          \/ \E v \in Workers : f[v] = c
                          \/ c \in d
                          \/ hold /\ c = acc
  <2> SUFFICES ASSUME NEW c \in 1 .. acc
               PROVE  \/ \E i \in 1 .. Len(js) : js[i] = c
                      \/ \E v \in Workers : f[v] = c
                      \/ c \in d
                      \/ hold /\ c = acc
    OBVIOUS
  <2>1. ASSUME NEW v \in Workers, srv[v] = c PROVE c \in d \/ \E u \in Workers : f[u] = c
    BY <1>1, <2>1
  <2> QED BY <2>1 DEF OnePlaceOf
<1> QED BY <1>0, <1>1, <1>2, <1>3, <1>4, <1>5, <1>6, <1>7 DEF OnePlaceOf, f

-----------------------------------------------------------------------------
(***************************************************************************)
(* What the nodes of a list carry: f is a field of every node.             *)
(***************************************************************************)
IsField(f) == f = [a \in Addr |-> f[a]]

Carried(s, f) == [i \in DOMAIN s |-> f[s[i]]]

LEMMA CarriedSeq ==
  ASSUME NEW s \in Seq(Addr), NEW S, NEW f \in [Addr -> S]
  PROVE  Carried(s, f) \in Seq(S) /\ Len(Carried(s, f)) = Len(s)
         /\ \A i \in 1 .. Len(s) : Carried(s, f)[i] = f[s[i]]
<1>1. /\ Len(s) \in Nat /\ Carried(s, f) = [i \in 1 .. Len(s) |-> f[s[i]]]
      /\ \A i \in 1 .. Len(s) : s[i] \in Addr
  BY DEF Carried
<1>2. Carried(s, f) \in [1 .. Len(s) -> S]
  BY <1>1
<1> HIDE DEF Carried
<1>3. Carried(s, f) \in Seq(S)
  BY <1>1, <1>2, SeqDef
<1> QED BY <1>1, <1>2, <1>3

LEMMA CarriedAppend ==
  ASSUME NEW s \in Seq(Addr), NEW f, NEW g, IsField(f), IsField(g),
         NEW a \in Addr, \A b \in Nodes(s) : g[b] = f[b]
  PROVE  Carried(Append(s, a), g) = Append(Carried(s, f), g[a])
<1> DEFINE S == {f[b] : b \in Addr} \cup {g[b] : b \in Addr}
           u == Append(s, a)
           l == Carried(u, g)
           r == Append(Carried(s, f), g[a])
<1>0. f \in [Addr -> S] /\ g \in [Addr -> S]
  BY DEF IsField
<1> HIDE DEF S
<1>1. u \in Seq(Addr) /\ Len(u) = Len(s) + 1 /\ u[Len(s) + 1] = a /\ Len(s) \in Nat
      /\ \A i \in 1 .. Len(s) : u[i] = s[i]
  BY AppendProperties
<1>2. l \in Seq(S) /\ Len(l) = Len(s) + 1 /\ \A i \in 1 .. Len(s) + 1 : l[i] = g[u[i]]
  <2>0. ASSUME NEW v \in Seq(Addr)
        PROVE  /\ Carried(v, g) \in Seq(S) /\ Len(Carried(v, g)) = Len(v)
               /\ \A i \in 1 .. Len(v) : Carried(v, g)[i] = g[v[i]]
    BY <1>0, CarriedSeq
  <2> HIDE DEF u
  <2>1. l \in Seq(S) /\ Len(l) = Len(u) /\ \A i \in 1 .. Len(u) : l[i] = g[u[i]]
    BY ONLY <1>1, <2>0 DEF l
  <2> HIDE DEF l
  <2> QED BY <1>1, <2>1
<1>3. Carried(s, f) \in Seq(S) /\ Len(Carried(s, f)) = Len(s)
      /\ \A i \in 1 .. Len(s) : Carried(s, f)[i] = f[s[i]]
  BY <1>0, CarriedSeq
<1>4. g[a] \in S
  BY <1>0
<1>5. r \in Seq(S) /\ Len(r) = Len(s) + 1 /\ r[Len(s) + 1] = g[a]
      /\ \A i \in 1 .. Len(s) : r[i] = f[s[i]]
  BY <1>3, <1>4, AppendProperties
<1>6. \A i \in 1 .. Len(s) + 1 : l[i] = r[i]
  <2> SUFFICES ASSUME NEW i \in 1 .. Len(s) + 1 PROVE l[i] = r[i]
    OBVIOUS
  <2> HIDE DEF l, r, u
  <2>1. CASE i = Len(s) + 1
    BY <1>1, <1>2, <1>5, <2>1
  <2>2. CASE i # Len(s) + 1
    <3>1. i \in 1 .. Len(s)
      BY <1>1, <2>2
    <3>2. s[i] \in Nodes(s)
      BY <3>1 DEF Nodes
    <3> QED BY <1>1, <1>2, <1>5, <3>1, <3>2
  <2> QED BY <2>1, <2>2
<1> HIDE DEF l, r
<1>7. l = r
  BY <1>2, <1>5, <1>6, SeqEqual
<1> QED BY <1>7 DEF l, r

LEMMA CarriedTail ==
  ASSUME NEW s \in Seq(Addr), s # <<>>, NEW f, IsField(f)
  PROVE  /\ Carried(Tail(s), f) = Tail(Carried(s, f))
         /\ Carried(s, f) # <<>>
         /\ Carried(s, f)[1] = f[s[1]]
<1> DEFINE S == {f[b] : b \in Addr}
           l == Carried(Tail(s), f)
           c == Carried(s, f)
           r == Tail(c)
<1>0. f \in [Addr -> S]
  BY DEF IsField
<1> HIDE DEF S
<1>00. ASSUME NEW v \in Seq(Addr)
      PROVE  /\ Carried(v, f) \in Seq(S) /\ Len(Carried(v, f)) = Len(v)
             /\ \A i \in 1 .. Len(v) : Carried(v, f)[i] = f[v[i]]
  BY <1>0, CarriedSeq
<1>1. Tail(s) \in Seq(Addr) /\ Len(Tail(s)) = Len(s) - 1 /\ Len(s) \in Nat /\ Len(s) >= 1
      /\ \A i \in 1 .. Len(s) - 1 : Tail(s)[i] = s[i + 1]
  BY HeadTailProperties, EmptySeq
<1>2. l \in Seq(S) /\ Len(l) = Len(s) - 1 /\ \A i \in 1 .. Len(s) - 1 : l[i] = f[Tail(s)[i]]
  <2> DEFINE u == Tail(s)
  <2>1. u \in Seq(Addr)
    BY <1>1
  <2>2. /\ Carried(u, f) \in Seq(S) /\ Len(Carried(u, f)) = Len(u)
        /\ \A i \in 1 .. Len(u) : Carried(u, f)[i] = f[u[i]]
    <3> HIDE DEF u
    <3> QED BY ONLY <1>00, <2>1
  <2>3. l = Carried(u, f)
    OBVIOUS
  <2>4. Len(u) = Len(s) - 1
    BY <1>1
  <2>5. l \in Seq(S) /\ Len(l) = Len(s) - 1 /\ \A i \in 1 .. Len(s) - 1 : l[i] = f[u[i]]
    <3> HIDE DEF l, u
    <3> QED BY ONLY <2>2, <2>3, <2>4
  <2> HIDE DEF l
  <2> QED BY <2>5
<1>3. c \in Seq(S) /\ Len(c) = Len(s) /\ \A i \in 1 .. Len(s) : c[i] = f[s[i]]
  BY <1>00 DEF c
<1> HIDE DEF c, l
<1>4. c # <<>> /\ c[1] = f[s[1]]
  BY <1>1, <1>3
<1>5. r \in Seq(S) /\ Len(r) = Len(s) - 1 /\ \A i \in 1 .. Len(s) - 1 : r[i] = c[i + 1]
  BY <1>3, <1>4, HeadTailProperties
<1> HIDE DEF r
<1>6. \A i \in 1 .. Len(s) - 1 : l[i] = r[i]
  <2> SUFFICES ASSUME NEW i \in 1 .. Len(s) - 1 PROVE l[i] = r[i]
    OBVIOUS
  <2>1. i + 1 \in 1 .. Len(s)
    BY <1>1
  <2> QED BY <1>1, <1>2, <1>3, <1>5, <2>1
<1>7. l = r
  BY <1>2, <1>5, <1>6, SeqEqual
<1> QED BY <1>4, <1>7 DEF l, r, c

LEMMA CarriedSame ==
  ASSUME NEW s \in Seq(Addr), NEW f, NEW g, \A b \in Nodes(s) : g[b] = f[b]
  PROVE  Carried(s, g) = Carried(s, f)
<1>1. DOMAIN s = 1 .. Len(s)
  OBVIOUS
<1>2. \A i \in 1 .. Len(s) : s[i] \in Nodes(s)
  BY DEF Nodes
<1> QED BY <1>1, <1>2 DEF Carried

\* The fields of the nodes of a heap.
SocketOf(h) == [a \in Addr |-> h.cell[a].client_socket]
WordOf(h) == [a \in Addr |-> h.cell[a].word]

LEMMA FieldsOf == \A h : IsField(SocketOf(h)) /\ IsField(WordOf(h))
  BY DEF IsField, SocketOf, WordOf

\* What a queue holds is what its list carries.
LEMMA Contents ==
  ASSUME NEW h, HeapOK(h), NEW q, IsList(h, q, Chain(h, q))
  PROVE  LET s == Chain(h, q) IN
         /\ s \in Seq(Addr) /\ Nodes(s) = Linked(h, q)
         /\ SocketOf(h) \in [Addr -> {0} \cup Clients] /\ WordOf(h) \in [Addr -> Word]
         /\ [i \in DOMAIN s |-> h.cell[s[i]].client_socket] = Carried(s, SocketOf(h))
         /\ [i \in DOMAIN s |-> h.cell[s[i]].word] = Carried(s, WordOf(h))
<1> DEFINE s == Chain(h, q)
<1>1. IsList(h, q, s) /\ s \in Seq(Addr)
  BY DEF IsList
<1>2. SocketOf(h) \in [Addr -> {0} \cup Clients] /\ WordOf(h) \in [Addr -> Word]
  <2>1. \A a \in Addr : h.cell[a] \in Node
    BY DEF HeapOK
  <2> QED BY <2>1 DEF SocketOf, WordOf, Node
<1>3. Nodes(s) = Linked(h, q)
  BY <1>1, ChainIsList
<1> HIDE DEF s
<1>4. \A i \in DOMAIN s : s[i] \in Addr
  BY <1>1
<1>5. /\ [i \in DOMAIN s |-> h.cell[s[i]].client_socket] = Carried(s, SocketOf(h))
      /\ [i \in DOMAIN s |-> h.cell[s[i]].word] = Carried(s, WordOf(h))
  BY <1>4 DEF Carried, SocketOf, WordOf
<1> QED BY <1>1, <1>2, <1>3, <1>5 DEF s

\* The queues as lists, and what they hold.
LEMMA QueueContents ==
  ASSUME TypeOK, Lists
  PROVE  /\ JobSockets = Carried(Chain(heap, job_queue), SocketOf(heap))
         /\ LogWords = Carried(Chain(heap, log_queue), WordOf(heap))
         /\ JobSockets \in Seq({0} \cup Clients) /\ LogWords \in Seq(Word)
<1> DEFINE s == Chain(heap, job_queue)
           u == Chain(heap, log_queue)
<1>1. /\ HeapOK(heap) /\ IsList(heap, job_queue, s) /\ IsList(heap, log_queue, u)
  BY DEF TypeOK, Lists, TwoLists
<1>2. /\ s \in Seq(Addr) /\ u \in Seq(Addr)
      /\ SocketOf(heap) \in [Addr -> {0} \cup Clients] /\ WordOf(heap) \in [Addr -> Word]
      /\ JobSockets = Carried(s, SocketOf(heap)) /\ LogWords = Carried(u, WordOf(heap))
  BY <1>1, Contents DEF JobSockets, LogWords
<1>3. Carried(s, SocketOf(heap)) \in Seq({0} \cup Clients) /\ Carried(u, WordOf(heap)) \in Seq(Word)
  <2> HIDE DEF s, u
  <2> QED BY <1>2, CarriedSeq
<1> QED BY <1>2, <1>3

-----------------------------------------------------------------------------
(***************************************************************************)
(* The four steps that change a queue.                                     *)
(***************************************************************************)
\* Workers with a popped node whose socket they have not read.
PoppedLabels == {"signalCond2", "readSocket"}

\* A push of c and t on queue q, with r the other queue, in the heap h of this
\* state: k and p are the heap and the queue behind it.
LEMMA PushContents ==
  ASSUME NEW h, HeapOK(h), NEW q, NEW r, TwoLists(h, q, r), NEW a \in Mallocs(h),
         a \notin Linked(h, q), a \notin Linked(h, r),
         NEW c \in {0} \cup Clients, NEW t \in Word, NEW k, NEW p,
         k = PushedHeap(CreateNode(h, a, c, t), q, a), p = PushedQueue(q, a), HeapOK(k)
  PROVE  /\ TwoLists(k, p, r)
         /\ Carried(Chain(k, p), SocketOf(k)) = Append(Carried(Chain(h, q), SocketOf(h)), c)
         /\ Carried(Chain(k, p), WordOf(k)) = Append(Carried(Chain(h, q), WordOf(h)), t)
         /\ Carried(Chain(k, r), SocketOf(k)) = Carried(Chain(h, r), SocketOf(h))
         /\ Carried(Chain(k, r), WordOf(k)) = Carried(Chain(h, r), WordOf(h))
         /\ \A b \in Addr \ {a} : k.cell[b].client_socket = h.cell[b].client_socket
<1> DEFINE s == Chain(h, q)
           u == Chain(h, r)
<1>1. /\ TwoLists(k, p, r) /\ a \in Addr /\ Chain(k, p) = Append(s, a) /\ Chain(k, r) = u
      /\ k.cell[a].client_socket = c /\ k.cell[a].word = t
      /\ \A b \in Addr \ {a} : /\ k.cell[b].client_socket = h.cell[b].client_socket
                               /\ k.cell[b].word = h.cell[b].word
  BY PushTwoLists
<1>2. IsList(h, q, s) /\ IsList(h, r, u) /\ IsList(k, p, Chain(k, p)) /\ IsList(k, r, Chain(k, r))
  BY <1>1 DEF TwoLists
<1>3. /\ s \in Seq(Addr) /\ u \in Seq(Addr) /\ a \notin Nodes(s) /\ a \notin Nodes(u)
      /\ SocketOf(h) \in [Addr -> {0} \cup Clients] /\ WordOf(h) \in [Addr -> Word]
      /\ SocketOf(k) \in [Addr -> {0} \cup Clients] /\ WordOf(k) \in [Addr -> Word]
  BY <1>2, Contents
<1>4. Nodes(s) \subseteq Addr /\ Nodes(u) \subseteq Addr
  BY <1>2, NodesCounted
<1> HIDE DEF s, u
<1>5. /\ SocketOf(k)[a] = c /\ WordOf(k)[a] = t
      /\ \A b \in Nodes(s) \cup Nodes(u) :
           SocketOf(k)[b] = SocketOf(h)[b] /\ WordOf(k)[b] = WordOf(h)[b]
  BY <1>1, <1>3, <1>4 DEF SocketOf, WordOf
<1>6. /\ Carried(Append(s, a), SocketOf(k)) = Append(Carried(s, SocketOf(h)), SocketOf(k)[a])
      /\ Carried(Append(s, a), WordOf(k)) = Append(Carried(s, WordOf(h)), WordOf(k)[a])
  <2>1. \A b \in Nodes(s) : SocketOf(k)[b] = SocketOf(h)[b] /\ WordOf(k)[b] = WordOf(h)[b]
    BY <1>5
  <2>2. ASSUME NEW f, NEW g, IsField(f), IsField(g), \A b \in Nodes(s) : g[b] = f[b]
        PROVE  Carried(Append(s, a), g) = Append(Carried(s, f), g[a])
    <3>1. s \in Seq(Addr) /\ a \in Addr
      BY <1>1, <1>3
    <3> QED BY ONLY <2>2, <3>1, CarriedAppend
  <2>3. IsField(SocketOf(h)) /\ IsField(SocketOf(k)) /\ IsField(WordOf(h)) /\ IsField(WordOf(k))
    BY FieldsOf
  <2>4. Carried(Append(s, a), SocketOf(k)) = Append(Carried(s, SocketOf(h)), SocketOf(k)[a])
    BY ONLY <2>1, <2>2, <2>3
  <2>5. Carried(Append(s, a), WordOf(k)) = Append(Carried(s, WordOf(h)), WordOf(k)[a])
    BY ONLY <2>1, <2>2, <2>3
  <2> QED BY <2>4, <2>5
<1>7. /\ Carried(u, SocketOf(k)) = Carried(u, SocketOf(h))
      /\ Carried(u, WordOf(k)) = Carried(u, WordOf(h))
  BY <1>3, <1>5, CarriedSame
<1> QED BY <1>1, <1>5, <1>6, <1>7 DEF s, u

\* The same with the text of the node: k is the heap behind the push, and a
\* freed piece may be gone from m.
LEMMA PushTextContents ==
  ASSUME NEW h, HeapOK(h), NEW q, NEW r, TwoLists(h, q, r), NEW a \in Mallocs(h),
         a \notin Linked(h, q), a \notin Linked(h, r),
         NEW c \in {0} \cup Clients, NEW t \in Word, NEW k, NEW p, NEW m,
         k = PushedHeap(CreateNode(h, a, c, t), q, a), p = PushedQueue(q, a), HeapOK(k),
         NEW b \in {NULL} \cup FreePieces(k), m = TakenByText(k, b)
  PROVE  /\ TwoLists(m, p, r)
         /\ Carried(Chain(m, p), WordOf(m)) = Append(Carried(Chain(h, q), WordOf(h)), t)
         /\ Carried(Chain(m, r), SocketOf(m)) = Carried(Chain(h, r), SocketOf(h))
         /\ \A d \in Addr \ {a} : m.cell[d].client_socket = h.cell[d].client_socket
<1>1. /\ TwoLists(k, p, r)
      /\ Carried(Chain(k, p), WordOf(k)) = Append(Carried(Chain(h, q), WordOf(h)), t)
      /\ Carried(Chain(k, r), SocketOf(k)) = Carried(Chain(h, r), SocketOf(h))
      /\ \A d \in Addr \ {a} : k.cell[d].client_socket = h.cell[d].client_socket
  BY PushContents
<1>2. /\ TwoLists(m, p, r) /\ m.cell = k.cell
      /\ Chain(m, p) = Chain(k, p) /\ Chain(m, r) = Chain(k, r)
  BY <1>1, TextTwoLists
<1>3. SocketOf(m) = SocketOf(k) /\ WordOf(m) = WordOf(k)
  BY <1>2 DEF SocketOf, WordOf
<1> QED BY <1>1, <1>2, <1>3

\* A pop from queue q: its contents lose their first element, if any.
LEMMA PopContents ==
  ASSUME NEW h, HeapOK(h), NEW q, QueueOK(h, q), NEW r, TwoLists(h, q, r), NEW k, NEW p,
         k = PoppedHeap(h, q), p = PoppedQueue(h, q)
  PROVE  LET js == Carried(Chain(h, q), SocketOf(h))
             ks == Carried(Chain(k, p), SocketOf(k))
             jw == Carried(Chain(h, q), WordOf(h))
             kw == Carried(Chain(k, p), WordOf(k))
         IN
         /\ TwoLists(k, p, r) /\ k.cell = h.cell
         /\ Carried(Chain(k, r), SocketOf(k)) = Carried(Chain(h, r), SocketOf(h))
         /\ Carried(Chain(k, r), WordOf(k)) = Carried(Chain(h, r), WordOf(h))
         /\ q.front = NULL => js = <<>> /\ ks = <<>> /\ jw = <<>> /\ kw = <<>>
         /\ q.front # NULL => /\ js # <<>> /\ ks = Tail(js) /\ h.cell[q.front].client_socket = js[1]
                              /\ jw # <<>> /\ kw = Tail(jw) /\ h.cell[q.front].word = jw[1]
<1> DEFINE s == Chain(h, q)
           u == Chain(h, r)
<1>1. /\ TwoLists(k, p, r) /\ k.cell = h.cell
      /\ Chain(k, p) = IF q.front = NULL THEN s ELSE Tail(s)
      /\ q.front = NULL => s = <<>>
      /\ q.front # NULL => s # <<>> /\ s[1] = q.front
      /\ Chain(k, r) = u
  BY PopTwoLists
<1>2. IsList(h, q, s) /\ IsList(h, r, u)
  BY DEF TwoLists
<1>3. /\ s \in Seq(Addr) /\ u \in Seq(Addr)
      /\ SocketOf(h) \in [Addr -> {0} \cup Clients] /\ WordOf(h) \in [Addr -> Word]
  BY <1>2, Contents
<1>4. SocketOf(k) = SocketOf(h) /\ WordOf(k) = WordOf(h)
  BY <1>1 DEF SocketOf, WordOf
<1> HIDE DEF s, u
<1>5. CASE q.front = NULL
  <2>1. \A f : Carried(<<>>, f) = <<>>
    BY DEF Carried
  <2> QED BY <1>1, <1>4, <1>5, <2>1 DEF s, u
<1>6. CASE q.front # NULL
  <2>1. /\ Carried(Tail(s), SocketOf(h)) = Tail(Carried(s, SocketOf(h))) /\ Carried(s, SocketOf(h)) # <<>>
        /\ Carried(s, SocketOf(h))[1] = SocketOf(h)[s[1]]
        /\ Carried(Tail(s), WordOf(h)) = Tail(Carried(s, WordOf(h))) /\ Carried(s, WordOf(h)) # <<>>
        /\ Carried(s, WordOf(h))[1] = WordOf(h)[s[1]]
    BY <1>1, <1>3, <1>6, FieldsOf, CarriedTail
  <2>2. s[1] \in Addr
    BY <1>1, <1>3, <1>6, EmptySeq
  <2>3. SocketOf(h)[s[1]] = h.cell[s[1]].client_socket /\ WordOf(h)[s[1]] = h.cell[s[1]].word
    BY <2>2 DEF SocketOf, WordOf
  <2> QED BY <1>1, <1>4, <1>6, <2>1, <2>3 DEF s, u
<1> QED BY <1>5, <1>6

-----------------------------------------------------------------------------
(***************************************************************************)
(* What a thread's place in the code says of connections and entries.      *)
(***************************************************************************)
Role(t, l) ==
  IF t = Main THEN IF l \in HoldingLabels THEN "holding" ELSE "idle"
  ELSE IF t = Logger THEN IF l \in {"signalCond4", "write"} THEN "logging" ELSE "idle"
  ELSE IF l \in PoppedLabels THEN "popped"
  ELSE IF l = "serve" THEN "serving"
  ELSE IF l \in ComposedLabels THEN "composing"
  ELSE IF l = "signalCond3" THEN "pushed" ELSE "idle"

\* Waking up changes nothing: a woken thread has what it had asleep.
LEMMA WokenRole ==
  ASSUME NEW t, NEW x \in WaitLabels
  PROVE  Role(t, Woken(x)) = Role(t, x)
<1>1. CASE x = "waitCond1"
  BY <1>1 DEF Role, Woken, HoldingLabels, PoppedLabels, ComposedLabels
<1>2. CASE x = "waitCond2"
  BY <1>2 DEF Role, Woken, HoldingLabels, PoppedLabels, ComposedLabels
<1>3. CASE x = "waitCond3"
  BY <1>3 DEF Role, Woken, HoldingLabels, PoppedLabels, ComposedLabels
<1>4. CASE x = "waitCond4"
  BY <1>4 DEF Role, Woken, HoldingLabels, PoppedLabels, ComposedLabels
<1> QED BY <1>1, <1>2, <1>3, <1>4 DEF WaitLabels

\* t moves to l, and no other thread's role changes.
OnlyMoves(t, l) ==
  /\ pc'[t] = l
  /\ \A u \in Threads \ {t} : Role(u, pc'[u]) = Role(u, pc[u])

LEMMA GotoMoves ==
  ASSUME PcOK(pc), NEW t \in Threads, NEW l, Goto(t, l)
  PROVE  OnlyMoves(t, l)
  BY DEF OnlyMoves, Goto, PcOK

LEMMA SignalMoves ==
  ASSUME PcOK(pc), NEW t \in Threads, NEW l, NEW x \in WaitLabels, pc[t] # x, Signal(t, x, l)
  PROVE  OnlyMoves(t, l)
<1>1. CASE Goto(t, l)
  BY <1>1, GotoMoves
<1>2. ASSUME NEW u \in Threads, pc[u] = x, pc' = [pc EXCEPT ![u] = Woken(x), ![t] = l]
      PROVE  OnlyMoves(t, l)
  <2>1. u # t /\ pc'[t] = l /\ pc'[u] = Woken(x)
    BY <1>2 DEF PcOK
  <2>2. \A v \in Threads \ {t, u} : pc'[v] = pc[v]
    BY <1>2 DEF PcOK
  <2>3. Role(u, pc'[u]) = Role(u, pc[u])
    BY <1>2, <2>1, WokenRole
  <2> QED BY <2>1, <2>2, <2>3 DEF OnlyMoves
<1> QED BY <1>1, <1>2 DEF Signal

\* The state predicates in terms of roles, for any program counter.
LEMMA WorkerRoles ==
  ASSUME NEW w \in Workers, NEW l
  PROVE  /\ l \in PoppedLabels <=> Role(w, l) = "popped"
         /\ l = "serve" <=> Role(w, l) = "serving"
         /\ l \in ComposedLabels <=> Role(w, l) = "composing"
         /\ l = "signalCond3" <=> Role(w, l) = "pushed"
         /\ l \in ServingLabels <=> Role(w, l) \in {"serving", "composing", "pushed"}
<1>1. w # Main /\ w # Logger
  BY ThreadsAreApart
<1> QED BY <1>1 DEF Role, PoppedLabels, ComposedLabels, ServingLabels

LEMMA OtherRoles ==
  /\ \A l : l \in HoldingLabels <=> Role(Main, l) = "holding"
  /\ \A l : l \in {"signalCond4", "write"} <=> Role(Logger, l) = "logging"
<1>1. Main # Logger
  BY ThreadsAreApart
<1> QED BY <1>1 DEF Role

\* Who a worker serves, said of roles.
Has(r, j, h, c) ==
  IF r = "popped" THEN IF j = NULL THEN 0 ELSE h.cell[j].client_socket
  ELSE IF r \in {"serving", "composing", "pushed"} THEN c ELSE 0

LEMMA ServingByRole ==
  ASSUME NEW w \in Workers
  PROVE  Serving(w) = Has(Role(w, pc[w]), job[w], heap, client_socket[w])
<1>1. /\ pc[w] \in PoppedLabels <=> Role(w, pc[w]) = "popped"
      /\ pc[w] \in ServingLabels <=> Role(w, pc[w]) \in {"serving", "composing", "pushed"}
  BY WorkerRoles
<1>2. CASE pc[w] \in PoppedLabels
  BY <1>1, <1>2 DEF Serving, Has, PoppedLabels
<1>3. CASE pc[w] \in ServingLabels
  BY <1>1, <1>3 DEF Serving, Has, ServingLabels
<1>4. CASE pc[w] \notin PoppedLabels /\ pc[w] \notin ServingLabels
  BY <1>1, <1>4 DEF Serving, Has, PoppedLabels
<1> QED BY <1>2, <1>3, <1>4

LEMMA ServingByRoleNext ==
  ASSUME NEW w \in Workers
  PROVE  Serving(w)' = Has(Role(w, pc'[w]), job'[w], heap', client_socket'[w])
<1>1. /\ pc'[w] \in PoppedLabels <=> Role(w, pc'[w]) = "popped"
      /\ pc'[w] \in ServingLabels <=> Role(w, pc'[w]) \in {"serving", "composing", "pushed"}
  BY WorkerRoles
<1>2. CASE pc'[w] \in PoppedLabels
  BY <1>1, <1>2 DEF Serving, Has, PoppedLabels
<1>3. CASE pc'[w] \in ServingLabels
  BY <1>1, <1>3 DEF Serving, Has, ServingLabels
<1>4. CASE pc'[w] \notin PoppedLabels /\ pc'[w] \notin ServingLabels
  BY <1>1, <1>4 DEF Serving, Has, PoppedLabels
<1> QED BY <1>2, <1>3, <1>4

-----------------------------------------------------------------------------
(***************************************************************************)
(* What a step leaves alone.                                               *)
(***************************************************************************)
\* The worker goes on with the connection and the entry it has.
Unmoved(w) ==
  /\ Role(w, pc'[w]) = Role(w, pc[w])
  /\ job'[w] = job[w] /\ client_socket'[w] = client_socket[w] /\ word'[w] = word[w]

\* Popped nodes nobody has read yet keep their socket.
SocketsStay ==
  \A w \in Workers : pc[w] \in PoppedLabels /\ job[w] # NULL =>
    heap'.cell[job[w]].client_socket = heap.cell[job[w]].client_socket

LEMMA ServingSame ==
  ASSUME NEW w \in Workers, Unmoved(w), SocketsStay
  PROVE  Serving(w)' = Serving(w)
<1>1. pc[w] \in PoppedLabels <=> Role(w, pc[w]) = "popped"
  BY WorkerRoles
<1>2. CASE Role(w, pc[w]) = "popped"
  BY <1>1, <1>2, ServingByRole, ServingByRoleNext DEF Unmoved, SocketsStay, Has
<1>3. CASE Role(w, pc[w]) # "popped"
  BY <1>3, ServingByRole, ServingByRoleNext DEF Unmoved, Has
<1> QED BY <1>2, <1>3

\* Nothing a connection's place depends on changes.
LEMMA OnePlaceKept ==
  ASSUME OnePlace, JobSockets' = JobSockets, \A w \in Workers : Serving(w)' = Serving(w),
         Role(Main, pc'[Main]) = Role(Main, pc[Main]), accepted' = accepted, Closed' = Closed
  PROVE  OnePlace'
<1>1. [w \in Workers |-> Serving(w)'] = [w \in Workers |-> Serving(w)]
  OBVIOUS
<1>2. pc'[Main] \in HoldingLabels <=> pc[Main] \in HoldingLabels
  BY OtherRoles
<1> QED BY <1>1, <1>2 DEF OnePlace

\* Only worker w, which has not composed an entry, may change its part.
LEMMA TurnKept ==
  ASSUME InTurn, Entries' = Entries, sent' = sent,
         \A w \in Workers : \/ Unmoved(w)
                            \/ /\ Role(w, pc'[w]) # "composing"
                               /\ Role(w, pc[w]) # "composing"
  PROVE  InTurn'
<1>1. \A w \in Workers : pc'[w] \in ComposedLabels <=> pc[w] \in ComposedLabels
  BY WorkerRoles DEF Unmoved
<1>2. \A w \in Workers : pc[w] \in ComposedLabels =>
        client_socket'[w] = client_socket[w] /\ word'[w] = word[w]
  BY WorkerRoles DEF Unmoved
<1>3. \A c : Composing(c)' <=> Composing(c)
  BY <1>1, <1>2 DEF Composing
<1>4. Pushed' = Pushed
  BY <1>3 DEF Pushed
<1> QED BY <1>1, <1>2, <1>4 DEF InTurn

LEMMA WordsKept ==
  ASSUME NEW S, WordsFrom(S), Entries' = Entries,
         \A w \in Workers : \/ Unmoved(w)
                            \/ /\ Role(w, pc'[w]) # "composing"
                               /\ Role(w, pc[w]) # "composing"
  PROVE  WordsFrom(S)'
<1>1. \A w \in Workers : pc'[w] \in ComposedLabels => pc[w] \in ComposedLabels /\ word'[w] = word[w]
  BY WorkerRoles DEF Unmoved
<1> QED BY <1>1 DEF WordsFrom

LEMMA EndsKept ==
  ASSUME EndsLast, Entries' = Entries, sent' = sent, Closed' = Closed,
         \A w \in Workers : \/ Unmoved(w)
                            \/ /\ Role(w, pc'[w]) # "pushed"
                               /\ Role(w, pc[w]) # "pushed"
  PROVE  EndsLast'
<1>1. \A w \in Workers : pc'[w] = "signalCond3" <=> pc[w] = "signalCond3"
  BY WorkerRoles DEF Unmoved
<1>2. \A w \in Workers : pc[w] = "signalCond3" =>
        client_socket'[w] = client_socket[w] /\ word'[w] = word[w]
  BY WorkerRoles DEF Unmoved
<1>3. \A c : Closing(c)' <=> Closing(c)
  BY <1>1, <1>2 DEF Closing
<1> QED BY <1>3 DEF EndsLast

LEMMA EntriesKept ==
  ASSUME LogWords' = LogWords, log_file' = log_file, word'[Logger] = word[Logger],
         Role(Logger, pc'[Logger]) = Role(Logger, pc[Logger])
  PROVE  Entries' = Entries
<1>1. pc'[Logger] \in {"signalCond4", "write"} <=> pc[Logger] \in {"signalCond4", "write"}
  BY OtherRoles
<1> QED BY <1>1 DEF Entries

\* A step that leaves every thread what it has.
LEMMA QuietStep ==
  ASSUME \A t \in Threads : Role(t, pc'[t]) = Role(t, pc[t]), Closed' = Closed,
         UNCHANGED <<queues, locals, accepted, sent, log_file>>
  PROVE  /\ Lists => Lists'
         /\ OnePlace => OnePlace'
         /\ InTurn => InTurn'
         /\ EndsLast => EndsLast'
         /\ \A S : WordsFrom(S) => WordsFrom(S)'
<1>1. UNCHANGED <<job_queue, log_queue, heap, recycled, job, client_socket, word>>
  BY DEF queues, locals
<1>2. /\ \A w \in Workers : Unmoved(w)
      /\ SocketsStay
  BY <1>1 DEF Unmoved, SocketsStay, Threads
<1>3. JobSockets' = JobSockets /\ LogWords' = LogWords
  BY <1>1 DEF JobSockets, LogWords
<1>4. \A w \in Workers : Serving(w)' = Serving(w)
  BY <1>2, ServingSame
<1>5. Entries' = Entries
  BY <1>1, <1>3, EntriesKept DEF Threads
<1>6. Lists => Lists'
  BY <1>1 DEF Lists
<1>7. OnePlace => OnePlace'
  BY <1>3, <1>4, OnePlaceKept DEF Threads
<1> QED BY <1>2, <1>5, <1>6, <1>7, TurnKept, WordsKept, EndsKept

OrderKept ==
  /\ Lists => Lists'
  /\ OnePlace => OnePlace'
  /\ InTurn => InTurn'
  /\ EndsLast => EndsLast'

AllKept == OrderKept /\ \A S : WordsFrom(S) => WordsFrom(S)'

\* One thread goes on, with all it has, and wakes another one at most.
LEMMA QuietMove ==
  ASSUME NEW t \in Threads, NEW l, OnlyMoves(t, l), Role(t, l) = Role(t, pc[t]),
         UNCHANGED <<queues, locals, peers, log_file>>
  PROVE  AllKept
<1>1. \A u \in Threads : Role(u, pc'[u]) = Role(u, pc[u])
  BY DEF OnlyMoves
<1>2. Closed' = Closed /\ UNCHANGED <<accepted, sent>>
  BY DEF Closed, peers
<1> QED BY <1>1, <1>2, QuietStep DEF AllKept, OrderKept

LEMMA HaltKeeps ==
  ASSUME NEW how, Halt(how)
  PROVE  AllKept
<1>1. UNCHANGED <<pc, queues, locals, accepted, sent, conn, log_file>>
  BY DEF Halt, peers
<1>2. Closed' = Closed
  BY <1>1 DEF Closed
<1> QED BY <1>1, <1>2, QuietStep DEF AllKept, OrderKept

\* The steps that only lock, wait, wake or get a mutex back.
LEMMA MainQuiet ==
  ASSUME TypeInv, MainLocksJobs \/ MainReacquires \/ SignalCond1
  PROVE  AllKept
<1> USE ThreadsAreApart
<1>0. PcOK(pc) /\ Main \in Threads
  BY DEF TypeInv, TypeOK, Threads
<1>1. CASE MainLocksJobs
  <2>1. PICK l \in {"waitCond2", "pushJob"} : Goto(Main, l)
    BY <1>1 DEF MainLocksJobs
  <2>2. Role(Main, l) = Role(Main, pc[Main])
    BY <1>1 DEF MainLocksJobs, At, Role, HoldingLabels
  <2> QED BY <1>0, <1>1, <2>1, <2>2, GotoMoves, QuietMove DEF MainLocksJobs
<1>2. CASE MainReacquires
  <2>1. Role(Main, "pushJob") = Role(Main, pc[Main])
    BY <1>2 DEF MainReacquires, ReacquireJobs, At, Role, HoldingLabels
  <2> QED BY <1>0, <1>2, <2>1, GotoMoves, QuietMove DEF MainReacquires, ReacquireJobs
<1>3. CASE SignalCond1
  <2>1. Role(Main, "accept") = Role(Main, pc[Main]) /\ pc[Main] # "waitCond1"
    BY <1>3 DEF SignalCond1, At, Role, HoldingLabels
  <2>2. OnlyMoves(Main, "accept")
    BY <1>0, <1>3, <2>1, SignalMoves DEF SignalCond1, WaitLabels
  <2> QED BY <1>0, <1>3, <2>1, <2>2, QuietMove DEF SignalCond1
<1> QED BY <1>1, <1>2, <1>3

LEMMA WorkerQuiet ==
  ASSUME TypeInv, NEW w \in Workers,
         \/ WorkerLocksJobs(w) \/ WorkerReacquiresJobs(w) \/ SignalCond2(w)
         \/ WorkerLocksLog(w) \/ WorkerReacquiresLog(w)
  PROVE  AllKept
<1>0. PcOK(pc) /\ w \in Threads /\ w # Main /\ w # Logger
  BY ThreadsAreApart DEF TypeInv, TypeOK, Threads
<1> USE DEF At, Role, PoppedLabels, ComposedLabels
<1>1. CASE WorkerLocksJobs(w)
  <2>1. PICK l \in {"waitCond1", "popJob"} : Goto(w, l)
    BY <1>1 DEF WorkerLocksJobs
  <2>2. Role(w, l) = Role(w, pc[w])
    BY <1>0, <1>1 DEF WorkerLocksJobs
  <2> QED BY <1>0, <1>1, <2>1, <2>2, GotoMoves, QuietMove DEF WorkerLocksJobs
<1>2. CASE WorkerReacquiresJobs(w)
  <2>1. Role(w, "popJob") = Role(w, pc[w])
    BY <1>0, <1>2 DEF WorkerReacquiresJobs, ReacquireJobs
  <2> QED BY <1>0, <1>2, <2>1, GotoMoves, QuietMove DEF WorkerReacquiresJobs, ReacquireJobs
<1>3. CASE SignalCond2(w)
  <2>1. Role(w, "readSocket") = Role(w, pc[w]) /\ pc[w] # "waitCond2"
    BY <1>0, <1>3 DEF SignalCond2
  <2>2. OnlyMoves(w, "readSocket")
    BY <1>0, <1>3, <2>1, SignalMoves DEF SignalCond2, WaitLabels
  <2> QED BY <1>0, <1>3, <2>1, <2>2, QuietMove DEF SignalCond2
<1>4. CASE WorkerLocksLog(w)
  <2>1. PICK l \in {"waitCond4", "pushLog"} : Goto(w, l)
    BY <1>4 DEF WorkerLocksLog
  <2>2. Role(w, l) = Role(w, pc[w])
    BY <1>0, <1>4 DEF WorkerLocksLog
  <2> QED BY <1>0, <1>4, <2>1, <2>2, GotoMoves, QuietMove DEF WorkerLocksLog
<1>5. CASE WorkerReacquiresLog(w)
  <2>1. Role(w, "pushLog") = Role(w, pc[w])
    BY <1>0, <1>5 DEF WorkerReacquiresLog, ReacquireLog
  <2> QED BY <1>0, <1>5, <2>1, GotoMoves, QuietMove DEF WorkerReacquiresLog, ReacquireLog
<1> QED BY <1>1, <1>2, <1>3, <1>4, <1>5

LEMMA LoggerQuiet ==
  ASSUME TypeInv, LoggerLocksLog \/ LoggerReacquires
  PROVE  AllKept
<1> USE ThreadsAreApart DEF At, Role
<1>0. PcOK(pc) /\ Logger \in Threads
  BY DEF TypeInv, TypeOK, Threads
<1>1. CASE LoggerLocksLog
  <2>1. PICK l \in {"waitCond3", "popLog"} : Goto(Logger, l)
    BY <1>1 DEF LoggerLocksLog
  <2>2. Role(Logger, l) = Role(Logger, pc[Logger])
    BY <1>1 DEF LoggerLocksLog
  <2> QED BY <1>0, <1>1, <2>1, <2>2, GotoMoves, QuietMove DEF LoggerLocksLog
<1>2. CASE LoggerReacquires
  <2>1. Role(Logger, "popLog") = Role(Logger, pc[Logger])
    BY <1>2 DEF LoggerReacquires, ReacquireLog
  <2> QED BY <1>0, <1>2, <2>1, GotoMoves, QuietMove DEF LoggerReacquires, ReacquireLog
<1> QED BY <1>1, <1>2

\* A thread waking up unsignalled, and a client hanging up.
LEMMA OthersQuiet ==
  ASSUME TypeInv, \/ \E t \in SpuriousWakeups : SpuriousWakeup(t)
                  \/ \E c \in Hangups : Hangup(c)
                  \/ UNCHANGED vars
  PROVE  AllKept
<1>0. PcOK(pc)
  BY DEF TypeInv, TypeOK
<1>1. ASSUME NEW t \in SpuriousWakeups, SpuriousWakeup(t) PROVE AllKept
  <2>1. t \in Threads /\ Goto(t, Woken(pc[t])) /\ pc[t] \in WaitLabels
    BY <1>1, BoundsAssumption DEF SpuriousWakeup, Threads
  <2>2. Role(t, Woken(pc[t])) = Role(t, pc[t])
    BY <2>1, WokenRole
  <2> QED BY <1>0, <1>1, <2>1, <2>2, GotoMoves, QuietMove DEF SpuriousWakeup
<1>2. ASSUME NEW c \in Hangups, Hangup(c) PROVE AllKept
  <2>1. /\ c \in Clients /\ conn[c] = "open" /\ conn' = [conn EXCEPT ![c] = "hungup"]
        /\ conn \in [Clients -> {"none", "open", "hungup", "closed"}]
    BY <1>2, BoundsAssumption DEF Hangup, Clients, TypeInv, TypeOK
  <2>2. Closed' = Closed
    BY <2>1 DEF Closed
  <2> QED BY <1>2, <2>2, QuietStep DEF AllKept, OrderKept, Hangup
<1>3. CASE UNCHANGED vars
  <2>1. UNCHANGED <<pc, queues, locals, accepted, sent, conn, log_file>>
    BY <1>3 DEF vars, peers
  <2>2. Closed' = Closed
    BY <2>1 DEF Closed
  <2> QED BY <2>1, <2>2, QuietStep DEF AllKept, OrderKept
<1> QED BY <1>1, <1>2, <1>3

-----------------------------------------------------------------------------
(***************************************************************************)
(* The steps that move connections, entries or both.                       *)
(***************************************************************************)
LEMMA OthersUnmoved ==
  ASSUME NEW t \in Threads, NEW l, OnlyMoves(t, l)
  PROVE  /\ \A w \in Workers \ {t} :
              job'[w] = job[w] /\ client_socket'[w] = client_socket[w] /\ word'[w] = word[w]
                => Unmoved(w)
         /\ t # Main => Role(Main, pc'[Main]) = Role(Main, pc[Main])
         /\ t # Logger => Role(Logger, pc'[Logger]) = Role(Logger, pc[Logger])
  BY DEF OnlyMoves, Unmoved, Threads

LEMMA AcceptStep ==
  ASSUME TypeInv, OnePlace, Accept
  PROVE  AllKept
<1>0. PcOK(pc) /\ Main \in Threads /\ Main # Logger /\ Main \notin Workers
  BY ThreadsAreApart DEF TypeInv, TypeOK, Threads
<1>1. OnlyMoves(Main, "lockJobs")
  BY <1>0, GotoMoves DEF Accept
<1>2. UNCHANGED <<job_queue, log_queue, heap, job, client_socket, word, sent, log_file>>
  BY DEF Accept, queues, locals
<1>3. /\ \A w \in Workers : Unmoved(w)
      /\ Role(Logger, pc'[Logger]) = Role(Logger, pc[Logger])
  BY <1>0, <1>1, <1>2, OthersUnmoved
<1>4. SocketsStay
  BY <1>2 DEF SocketsStay
<1>5. \A w \in Workers : Serving(w)' = Serving(w)
  BY <1>3, <1>4, ServingSame
<1>6. JobSockets' = JobSockets /\ LogWords' = LogWords
  BY <1>2 DEF JobSockets, LogWords
<1>7. Entries' = Entries
  BY <1>2, <1>3, <1>6, EntriesKept
<1> DEFINE srv == [w \in Workers |-> Serving(w)]
<1>8. (pc[Main] \in HoldingLabels) = FALSE /\ (pc'[Main] \in HoldingLabels) = TRUE
  BY <1>1 DEF Accept, At, HoldingLabels, OnlyMoves
<1>9. OnePlaceOf(JobSockets, srv, FALSE, accepted, Closed)
  BY <1>8 DEF OnePlace
<1>10. OnePlaceOf(JobSockets, srv, TRUE, accepted + 1, Closed)
  <2> HIDE DEF srv
  <2> QED BY <1>9, PlaceAccepted
<1>11. Closed' = Closed
  <2>1. accepted + 1 \in Clients /\ accepted + 1 \notin Closed
    <3>1. accepted \in Nat /\ Closed \subseteq 1 .. accepted
      BY <1>9 DEF OnePlaceOf
    <3> QED BY <3>1, BoundsAssumption DEF Accept, Clients
  <2>2. conn' = [conn EXCEPT ![accepted + 1] = "open"] /\ DOMAIN conn = Clients
    BY DEF Accept, TypeInv, TypeOK
  <2> QED BY <2>1, <2>2 DEF Closed
<1>12. OnePlace'
  <2>1. [w \in Workers |-> Serving(w)'] = srv
    BY <1>5
  <2>2. accepted' = accepted + 1
    BY DEF Accept
  <2> HIDE DEF srv
  <2> QED BY <1>6, <1>8, <1>10, <1>11, <2>1, <2>2 DEF OnePlace
<1>13. Lists => Lists'
  BY <1>2 DEF Lists
<1> QED BY <1>2, <1>3, <1>7, <1>11, <1>12, <1>13, TurnKept, WordsKept, EndsKept DEF AllKept, OrderKept

\* push(job_queue, ...) onto memory that is not in use.
LEMMA PushJobStep ==
  ASSUME TypeInv, TypeInv', Lists, OnePlace, PushJob, ~ recycled'
  PROVE  /\ AllKept /\ Lists'
         /\ JobSockets' = Append(JobSockets, accepted)
<1>0. /\ PcOK(pc) /\ Main \in Threads /\ Main # Logger /\ Main \notin Workers
      /\ HeapOK(heap) /\ HeapOK(heap') /\ QueueOK(heap, job_queue)
  BY ThreadsAreApart DEF TypeInv, TypeOK, Threads
<1>1. OnlyMoves(Main, "signalCond1")
  BY <1>0, GotoMoves DEF PushJob
<1>2. PICK a \in Mallocs(heap) :
        /\ heap' = PushedHeap(CreateNode(heap, a, accepted, NoWord), job_queue, a)
        /\ job_queue' = PushedQueue(job_queue, a)
        /\ a \notin InUse
  BY DEF PushJob
<1>3. /\ UNCHANGED <<log_queue, job, client_socket, word, accepted, sent, log_file>>
      /\ Closed' = Closed
  BY DEF PushJob, locals, peers, Closed
<1>4. /\ \A w \in Workers : Unmoved(w)
      /\ Role(Logger, pc'[Logger]) = Role(Logger, pc[Logger])
  BY <1>0, <1>1, <1>3, OthersUnmoved
<1>5. accepted \in {0} \cup Clients /\ NoWord \in Word
  BY BoundsAssumption DEF TypeInv, TypeOK, Clients, Word, NoWord
<1>6. /\ TwoLists(heap', job_queue', log_queue)
      /\ Carried(Chain(heap', job_queue'), SocketOf(heap'))
           = Append(Carried(Chain(heap, job_queue), SocketOf(heap)), accepted)
      /\ Carried(Chain(heap', log_queue), WordOf(heap')) = Carried(Chain(heap, log_queue), WordOf(heap))
      /\ \A b \in Addr \ {a} : heap'.cell[b].client_socket = heap.cell[b].client_socket
  <2>1. a \notin Linked(heap, job_queue) /\ a \notin Linked(heap, log_queue)
    BY <1>2 DEF InUse
  <2>2. TwoLists(heap, job_queue, log_queue)
    BY DEF Lists
  <2> QED BY <1>0, <1>2, <1>5, <2>1, <2>2, PushContents
<1>7. Lists'
  BY <1>3, <1>6 DEF Lists
<1>8. JobSockets' = Append(JobSockets, accepted) /\ LogWords' = LogWords
  <2>1. /\ JobSockets = Carried(Chain(heap, job_queue), SocketOf(heap))
        /\ LogWords = Carried(Chain(heap, log_queue), WordOf(heap))
    BY QueueContents DEF TypeInv
  <2>2. /\ JobSockets' = Carried(Chain(heap', job_queue'), SocketOf(heap'))
        /\ LogWords' = Carried(Chain(heap', log_queue'), WordOf(heap'))
    <3>1. /\ IsList(heap', job_queue', Chain(heap', job_queue'))
          /\ IsList(heap', log_queue', Chain(heap', log_queue'))
      BY <1>3, <1>6 DEF TwoLists
    <3> QED BY <1>0, <3>1, Contents DEF JobSockets, LogWords
  <2> QED BY <1>3, <1>6, <2>1, <2>2
<1>9. SocketsStay
  <2> SUFFICES ASSUME NEW w \in Workers, pc[w] \in PoppedLabels, job[w] # NULL
               PROVE  heap'.cell[job[w]].client_socket = heap.cell[job[w]].client_socket
    BY DEF SocketsStay
  <2>0. job[w] \in 0 .. heap.brk /\ job[w] # 0 /\ heap.brk \in 0 .. HeapSize
    BY DEF TypeInv, TypeOK, HeapOK, NULL
  <2>1. job[w] \in Addr
    BY ONLY HeapSizeAssumption, <2>0 DEF Addr
  <2>2. job[w] # a
    BY <1>2 DEF InUse, PoppedLabels
  <2> QED BY <1>6, <2>1, <2>2
<1>10. \A w \in Workers : Serving(w)' = Serving(w)
  BY <1>4, <1>9, ServingSame
<1>11. Entries' = Entries
  BY <1>3, <1>4, <1>8, EntriesKept
<1> DEFINE srv == [w \in Workers |-> Serving(w)]
<1>12. (pc[Main] \in HoldingLabels) = TRUE /\ (pc'[Main] \in HoldingLabels) = FALSE
  BY <1>1 DEF PushJob, At, HoldingLabels, OnlyMoves
<1>13. OnePlaceOf(JobSockets, srv, TRUE, accepted, Closed)
  BY <1>12 DEF OnePlace
<1>14. OnePlaceOf(Append(JobSockets, accepted), srv, FALSE, accepted, Closed)
  <2> HIDE DEF srv
  <2> QED BY <1>13, PlaceQueued
<1>15. OnePlace'
  <2>1. [w \in Workers |-> Serving(w)'] = srv
    BY <1>10
  <2> HIDE DEF srv
  <2> QED BY <1>3, <1>8, <1>12, <1>14, <2>1 DEF OnePlace
<1> QED BY <1>3, <1>4, <1>7, <1>8, <1>11, <1>15, TurnKept, WordsKept, EndsKept DEF AllKept, OrderKept

\* pop(job_queue): the worker has the oldest connection, or nothing.
LEMMA PopJobStep ==
  ASSUME TypeInv, TypeInv', Lists, OnePlace, NEW w \in Workers, PopJob(w)
  PROVE  /\ AllKept /\ Lists'
         /\ \/ JobSockets' = JobSockets
            \/ JobSockets # <<>> /\ JobSockets' = Tail(JobSockets)
<1>0. /\ PcOK(pc) /\ w \in Threads /\ w # Main /\ w # Logger
      /\ HeapOK(heap) /\ HeapOK(heap') /\ QueueOK(heap, job_queue)
      /\ job \in [Workers -> 0 .. heap.brk]
  BY ThreadsAreApart DEF TypeInv, TypeOK, Threads
<1>1. OnlyMoves(w, "signalCond2") /\ pc[w] = "popJob" /\ pc'[w] = "signalCond2"
  BY <1>0, GotoMoves DEF PopJob, OnlyMoves, At
<1>2. /\ heap' = PoppedHeap(heap, job_queue) /\ job_queue' = PoppedQueue(heap, job_queue)
      /\ job' = [job EXCEPT ![w] = job_queue.front]
      /\ UNCHANGED <<log_queue, client_socket, word, accepted, sent, log_file>>
      /\ Closed' = Closed
  BY DEF PopJob, peers, Closed
<1>3. /\ \A v \in Workers \ {w} : Unmoved(v)
      /\ Role(Main, pc'[Main]) = Role(Main, pc[Main])
      /\ Role(Logger, pc'[Logger]) = Role(Logger, pc[Logger])
  BY <1>0, <1>1, <1>2, OthersUnmoved
<1> DEFINE js == Carried(Chain(heap, job_queue), SocketOf(heap))
           ks == Carried(Chain(heap', job_queue'), SocketOf(heap'))
<1>4. /\ TwoLists(heap', job_queue', log_queue) /\ heap'.cell = heap.cell
      /\ Carried(Chain(heap', log_queue), WordOf(heap')) = Carried(Chain(heap, log_queue), WordOf(heap))
      /\ job_queue.front = NULL => js = <<>> /\ ks = <<>>
      /\ job_queue.front # NULL => /\ js # <<>> /\ ks = Tail(js)
                                   /\ heap.cell[job_queue.front].client_socket = js[1]
  <2>1. TwoLists(heap, job_queue, log_queue)
    BY DEF Lists
  <2> QED BY <1>0, <1>2, <2>1, PopContents
<1>5. Lists'
  BY <1>2, <1>4 DEF Lists
<1>6. JobSockets = js /\ JobSockets' = ks /\ LogWords' = LogWords
  <2>1. /\ JobSockets = js
        /\ LogWords = Carried(Chain(heap, log_queue), WordOf(heap))
    BY QueueContents DEF TypeInv
  <2>2. /\ JobSockets' = ks
        /\ LogWords' = Carried(Chain(heap', log_queue'), WordOf(heap'))
    <3>1. /\ IsList(heap', job_queue', Chain(heap', job_queue'))
          /\ IsList(heap', log_queue', Chain(heap', log_queue'))
      BY <1>2, <1>4 DEF TwoLists
    <3> QED BY <1>0, <3>1, Contents DEF JobSockets, LogWords
  <2> QED BY <1>2, <1>4, <2>1, <2>2
<1> HIDE DEF js, ks
<1>7. SocketsStay
  BY <1>4 DEF SocketsStay
<1>8. \A v \in Workers \ {w} : Serving(v)' = Serving(v)
  BY <1>3, <1>7, ServingSame
<1>9. Entries' = Entries
  BY <1>2, <1>3, <1>6, EntriesKept
<1>10. Role(w, pc[w]) = "idle" /\ Role(w, pc'[w]) = "popped"
  BY <1>0, <1>1 DEF Role, PoppedLabels, ComposedLabels
<1>11. Serving(w) = 0
  BY <1>10, ServingByRole DEF Has
<1>12. Serving(w)' = IF job_queue.front = NULL THEN 0 ELSE js[1]
  <2>1. job'[w] = job_queue.front
    BY <1>0, <1>2
  <2> QED BY <1>4, <1>10, <2>1, ServingByRoleNext DEF Has
<1> DEFINE srv == [v \in Workers |-> Serving(v)]
           srvNext == [v \in Workers |-> Serving(v)']
<1>13. pc'[Main] \in HoldingLabels <=> pc[Main] \in HoldingLabels
  BY <1>3, OtherRoles
<1>14. OnePlaceOf(js, srv, pc[Main] \in HoldingLabels, accepted, Closed)
  BY <1>6 DEF OnePlace
<1>15. OnePlaceOf(ks, srvNext, pc[Main] \in HoldingLabels, accepted, Closed)
  <2>1. CASE job_queue.front = NULL
    <3>1. srvNext = srv
      BY <1>8, <1>11, <1>12, <2>1
    <3> QED BY <1>4, <1>14, <2>1, <3>1
  <2>2. CASE job_queue.front # NULL
    <3>1. srvNext = [srv EXCEPT ![w] = js[1]]
      BY <1>8, <1>12, <2>2
    <3>2. srv[w] = 0
      BY <1>11
    <3> HIDE DEF srv, srvNext
    <3>3. OnePlaceOf(Tail(js), [srv EXCEPT ![w] = js[1]], pc[Main] \in HoldingLabels, accepted, Closed)
      BY <1>4, <1>14, <2>2, <3>2, PlaceTaken
    <3> QED BY <1>4, <2>2, <3>1, <3>3
  <2> QED BY <2>1, <2>2
<1>16. OnePlace'
  <2> HIDE DEF srv
  <2> QED BY <1>2, <1>6, <1>13, <1>15 DEF OnePlace
<1>17. \/ JobSockets' = JobSockets
       \/ JobSockets # <<>> /\ JobSockets' = Tail(JobSockets)
  BY <1>4, <1>6
<1>18. Role(w, pc[w]) \notin {"composing", "pushed"} /\ Role(w, pc'[w]) \notin {"composing", "pushed"}
  BY <1>10
<1> QED BY <1>2, <1>3, <1>5, <1>9, <1>16, <1>17, <1>18, TurnKept, WordsKept, EndsKept DEF AllKept, OrderKept

\* client_socket = job->client_socket: still nobody else has read the node.
LEMMA ReadSocketStep ==
  ASSUME TypeInv, NEW w \in Workers, ReadSocket(w)
  PROVE  AllKept
<1>0. /\ PcOK(pc) /\ w \in Threads /\ w # Main /\ w # Logger
      /\ client_socket \in [Workers -> {0} \cup Clients]
  BY ThreadsAreApart DEF TypeInv, TypeOK, Threads
<1>1. OnlyMoves(w, "serve") /\ pc[w] = "readSocket" /\ pc'[w] = "serve"
  BY <1>0, GotoMoves DEF ReadSocket, OnlyMoves, At
<1>2. /\ UNCHANGED <<heap, job_queue, log_queue, job, word, accepted, sent, log_file>>
      /\ client_socket' = [client_socket EXCEPT ![w] = heap.cell[job[w]].client_socket]
      /\ job[w] # NULL /\ Closed' = Closed
  BY DEF ReadSocket, queues, peers, Closed
<1>3. /\ \A v \in Workers \ {w} : Unmoved(v)
      /\ Role(Main, pc'[Main]) = Role(Main, pc[Main])
      /\ Role(Logger, pc'[Logger]) = Role(Logger, pc[Logger])
  BY <1>0, <1>1, <1>2, OthersUnmoved
<1>4. JobSockets' = JobSockets /\ LogWords' = LogWords /\ (Lists => Lists')
  BY <1>2 DEF JobSockets, LogWords, Lists
<1>5. Entries' = Entries
  BY <1>2, <1>3, <1>4, EntriesKept
<1>6. SocketsStay
  BY <1>2 DEF SocketsStay
<1>7. Role(w, pc[w]) = "popped" /\ Role(w, pc'[w]) = "serving"
  BY <1>0, <1>1 DEF Role, PoppedLabels
<1>8. Serving(w)' = Serving(w)
  BY <1>0, <1>2, <1>7, ServingByRole, ServingByRoleNext DEF Has
<1>9. \A v \in Workers : Serving(v)' = Serving(v)
  BY <1>3, <1>6, <1>8, ServingSame
<1>10. OnePlace => OnePlace'
  BY <1>2, <1>3, <1>4, <1>9, OnePlaceKept
<1>11. Role(w, pc[w]) \notin {"composing", "pushed"} /\ Role(w, pc'[w]) \notin {"composing", "pushed"}
  BY <1>7
<1> QED BY <1>2, <1>3, <1>4, <1>5, <1>10, <1>11, TurnKept, WordsKept, EndsKept DEF AllKept, OrderKept

\* A connection being served is open, and one worker serves it.
LEMMA ServedAlone ==
  ASSUME TypeInv, OnePlace, NEW w \in Workers, pc[w] \in ServingLabels
  PROVE  /\ client_socket[w] \in Clients /\ client_socket[w] \notin Closed
         /\ \A v \in Workers : pc[v] \in ServingLabels /\ client_socket[v] = client_socket[w] => v = w
<1>1. client_socket[w] \in Clients /\ client_socket[w] # 0
  BY BoundsAssumption DEF TypeInv, TypeOK, OnlyAcceptedSockets, Clients
<1>2. \A v \in Workers : pc[v] \in ServingLabels => Serving(v) = client_socket[v]
  BY WorkerRoles, ServingByRole DEF Has
<1> DEFINE srv == [v \in Workers |-> Serving(v)]
<1>3. OnePlaceOf(JobSockets, srv, pc[Main] \in HoldingLabels, accepted, Closed)
  BY DEF OnePlace
<1>4. \A v \in Workers : srv[v] = Serving(v)
  OBVIOUS
<1> HIDE DEF srv
<1>5. /\ \A u, v \in Workers : srv[u] # 0 /\ srv[u] = srv[v] => u = v
      /\ \A v \in Workers : srv[v] \notin Closed
  BY <1>3 DEF OnePlaceOf
<1> QED BY <1>1, <1>2, <1>4, <1>5

LEMMA ComposedServes == ComposedLabels \subseteq ServingLabels
  BY DEF ComposedLabels, ServingLabels

\* A worker composes the next entry of the connection it serves.
Composes(w, t) ==
  /\ At(w, "serve")
  /\ sent' = [sent EXCEPT ![client_socket[w]] = @ + 1]
  /\ word' = [word EXCEPT ![w] = t]
  /\ Goto(w, "lockLog")
  /\ UNCHANGED <<locks, queues, job, client_socket, accepted, conn, log_file>>

LEMMA ComposeMoves ==
  ASSUME TypeInv, NEW w \in Workers, NEW t, Composes(w, t)
  PROVE  /\ \A v \in Workers \ {w} : Unmoved(v) /\ Role(v, pc'[v]) = Role(v, pc[v])
         /\ pc[w] = "serve" /\ pc'[w] = "lockLog" /\ word'[w] = t
         /\ UNCHANGED <<heap, job_queue, log_queue, job, client_socket, accepted, conn, log_file>>
         /\ Entries' = Entries /\ Closed' = Closed
         /\ Lists => Lists'
         /\ OnePlace => OnePlace'
<1>0. /\ PcOK(pc) /\ w \in Threads /\ w # Main /\ w # Logger
      /\ word \in [Workers \cup {Logger} -> Word]
  BY ThreadsAreApart DEF TypeInv, TypeOK, Threads
<1>1. OnlyMoves(w, "lockLog") /\ pc[w] = "serve" /\ pc'[w] = "lockLog"
  BY <1>0, GotoMoves DEF Composes, OnlyMoves, At
<1>2. /\ UNCHANGED <<heap, job_queue, log_queue, job, client_socket, accepted, conn, log_file>>
      /\ Closed' = Closed
  BY DEF Composes, queues, Closed
<1>3. word'[w] = t /\ \A v \in (Workers \cup {Logger}) \ {w} : word'[v] = word[v]
  BY <1>0 DEF Composes
<1>4. /\ \A v \in Workers \ {w} : Unmoved(v)
      /\ Role(Main, pc'[Main]) = Role(Main, pc[Main])
      /\ Role(Logger, pc'[Logger]) = Role(Logger, pc[Logger])
  BY <1>0, <1>1, <1>2, <1>3, OthersUnmoved
<1>5. JobSockets' = JobSockets /\ LogWords' = LogWords /\ (Lists => Lists')
  BY <1>2 DEF JobSockets, LogWords, Lists
<1>6. Entries' = Entries
  BY <1>0, <1>2, <1>3, <1>4, <1>5, EntriesKept
<1>7. SocketsStay
  BY <1>2 DEF SocketsStay
<1>8. Role(w, pc[w]) = "serving" /\ Role(w, pc'[w]) = "composing"
  BY <1>0, <1>1 DEF Role, PoppedLabels, ComposedLabels
<1>9. Serving(w)' = Serving(w)
  BY <1>2, <1>8, ServingByRole, ServingByRoleNext DEF Has
<1>10. \A v \in Workers : Serving(v)' = Serving(v)
  BY <1>4, <1>7, <1>9, ServingSame
<1>11. OnePlace => OnePlace'
  BY <1>2, <1>4, <1>5, <1>10, OnePlaceKept
<1> QED BY <1>1, <1>2, <1>3, <1>4, <1>5, <1>6, <1>11 DEF Unmoved

LEMMA ComposeStep ==
  ASSUME TypeInv, OnePlace, InTurn, NEW w \in Workers, NEW t, Composes(w, t),
         t.client = client_socket[w], t.no = sent[client_socket[w]] + 1
  PROVE  InTurn'
<1> DEFINE c == client_socket[w]
<1>1. /\ \A v \in Workers \ {w} : Unmoved(v) /\ Role(v, pc'[v]) = Role(v, pc[v])
      /\ pc[w] = "serve" /\ pc'[w] = "lockLog" /\ word'[w] = t
      /\ client_socket' = client_socket /\ Entries' = Entries
  BY ComposeMoves
<1>2. /\ c \in Clients /\ pc[w] \in ServingLabels
      /\ \A v \in Workers : pc[v] \in ServingLabels /\ client_socket[v] = c => v = w
  BY <1>1, ServedAlone DEF ServingLabels
<1>3. /\ sent \in [Clients -> Nat] /\ sent'[c] = sent[c] + 1
      /\ \A d \in Clients \ {c} : sent'[d] = sent[d]
  BY <1>2 DEF TypeInv, TypeOK, Composes
<1>4. pc[w] \notin ComposedLabels /\ pc'[w] \in ComposedLabels
  BY <1>1 DEF ComposedLabels
<1>5. \A v \in Workers \ {w} : pc'[v] \in ComposedLabels <=> pc[v] \in ComposedLabels
  BY <1>1, WorkerRoles
<1>6. \A v \in Workers \ {w} : pc[v] \in ComposedLabels => client_socket[v] # c
  BY <1>2, ComposedServes
<1>7. \A d : d = c => ~ Composing(d) /\ Composing(d)'
  BY <1>1, <1>4, <1>6 DEF Composing
<1>8. \A d \in Clients \ {c} : Composing(d)' <=> Composing(d)
  BY <1>1, <1>4, <1>5 DEF Composing
<1>9. Pushed' = Pushed
  <2>1. \A d \in Clients : d = c => Pushed'[d] = sent'[d] - 1 /\ Pushed[d] = sent[d] - 0
    BY <1>7 DEF Pushed
  <2>2. Pushed'[c] = Pushed[c]
    BY <1>2, <1>3, <2>1
  <2>3. \A d \in Clients \ {c} : Pushed'[d] = Pushed[d]
    BY <1>3, <1>8 DEF Pushed
  <2>4. Pushed = [d \in Clients |-> Pushed[d]] /\ Pushed' = [d \in Clients |-> Pushed'[d]]
    BY DEF Pushed
  <2> QED BY <2>2, <2>3, <2>4
<1>10. \A v \in Workers : pc'[v] \in ComposedLabels =>
         /\ word'[v].client = client_socket'[v]
         /\ word'[v].no = sent'[client_socket'[v]]
         /\ word'[v].no # 0
  <2> SUFFICES ASSUME NEW v \in Workers, pc'[v] \in ComposedLabels
               PROVE  /\ word'[v].client = client_socket'[v]
                      /\ word'[v].no = sent'[client_socket'[v]]
                      /\ word'[v].no # 0
    OBVIOUS
  <2>1. CASE v = w
    BY <1>1, <1>2, <1>3, <2>1
  <2>2. CASE v # w
    <3>1. pc[v] \in ComposedLabels /\ client_socket[v] # c /\ word'[v] = word[v]
      BY <1>1, <1>5, <1>6, <2>2 DEF Unmoved
    <3>2. client_socket[v] \in Clients
      BY <3>1, ServedAlone, ComposedServes
    <3> QED BY <1>1, <1>3, <3>1, <3>2 DEF InTurn
  <2> QED BY <2>1, <2>2
<1> QED BY <1>1, <1>9, <1>10 DEF InTurn

\* The connection had no last entry, and this one is not with the others yet.
LEMMA ComposeEnds ==
  ASSUME TypeInv, OnePlace, InTurn, EndsLast, NEW w \in Workers, NEW t, Composes(w, t)
  PROVE  EndsLast'
<1> DEFINE c == client_socket[w]
<1>1. /\ \A v \in Workers \ {w} : Unmoved(v) /\ Role(v, pc'[v]) = Role(v, pc[v])
      /\ pc[w] = "serve" /\ pc'[w] = "lockLog"
      /\ client_socket' = client_socket /\ Entries' = Entries /\ Closed' = Closed
  BY ComposeMoves
<1>2. /\ c \in Clients /\ c \notin Closed /\ pc[w] \in ServingLabels
      /\ \A v \in Workers : pc[v] \in ServingLabels /\ client_socket[v] = c => v = w
  BY <1>1, ServedAlone DEF ServingLabels
<1>3. \A d \in Clients \ {c} : sent'[d] = sent[d]
  BY <1>2 DEF TypeInv, TypeOK, Composes
<1>4. \A v \in Workers : pc'[v] = "signalCond3" <=> pc[v] = "signalCond3"
  BY <1>1, WorkerRoles
<1>5. \A v \in Workers : pc[v] = "signalCond3" => v # w /\ word'[v] = word[v]
  BY <1>1 DEF Unmoved
<1>6. \A d : Closing(d)' <=> Closing(d)
  BY <1>1, <1>4, <1>5 DEF Closing
<1>7. ~ Closing(c)
  BY <1>1, <1>2 DEF Closing, ServingLabels
<1>8. \A i \in 1 .. Len(Entries) : Entries[i].client \in Clients
  BY DEF InTurn, Numbered
<1>9. ASSUME NEW i \in 1 .. Len(Entries), Entries[i].last
      PROVE  /\ sent'[Entries[i].client] = Entries[i].no
             /\ Entries[i].client \in Closed \/ Closing(Entries[i].client)
  <2>1. /\ Entries[i].no = sent[Entries[i].client]
        /\ Entries[i].client \in Closed \/ Closing(Entries[i].client)
    BY <1>9 DEF EndsLast
  <2>2. Entries[i].client # c
    BY <1>2, <1>7, <2>1
  <2> QED BY <1>3, <1>8, <2>1, <2>2
<1> QED BY <1>1, <1>6, <1>9 DEF EndsLast

-----------------------------------------------------------------------------
(***************************************************************************)
(* Entries on their way to the log file: pushed behind the others, and     *)
(* handed on in front of them.                                             *)
(***************************************************************************)
LEMMA EntriesPush ==
  ASSUME NEW S, NEW f \in Seq(S), NEW m \in Seq(S), NEW s \in Seq(S), NEW e \in S
  PROVE  f \o m \o Append(s, e) = Append(f \o m \o s, e)
<1>1. f \o m \in Seq(S) /\ <<e>> \in Seq(S)
  BY ConcatProperties
<1>2. f \o m \o s \in Seq(S)
  BY <1>1, ConcatProperties
<1>3. Append(s, e) = s \o <<e>> /\ Append(f \o m \o s, e) = f \o m \o s \o <<e>>
  BY <1>2, AppendIsConcat
<1> QED BY <1>1, <1>3, ConcatAssociative

LEMMA EntriesPop ==
  ASSUME NEW S, NEW f \in Seq(S), NEW s \in Seq(S), s # <<>>
  PROVE  f \o <<s[1]>> \o Tail(s) = f \o <<>> \o s
<1>1. /\ Len(s) \in Nat /\ Len(s) >= 1 /\ s[1] \in S /\ Tail(s) \in Seq(S)
      /\ Len(Tail(s)) = Len(s) - 1 /\ \A i \in 1 .. Len(s) - 1 : Tail(s)[i] = s[i + 1]
  BY HeadTailProperties, EmptySeq
<1>2. <<s[1]>> \in Seq(S) /\ Len(<<s[1]>>) = 1 /\ <<s[1]>>[1] = s[1]
  BY <1>1
<1> DEFINE x == <<s[1]>>
           t == Tail(s)
           u == x \o t
<1>3. /\ u \in Seq(S) /\ Len(u) = Len(x) + Len(t)
      /\ \A i \in 1 .. Len(x) + Len(t) : u[i] = IF i <= Len(x) THEN x[i] ELSE t[i - Len(x)]
  <2> x \in Seq(S) /\ t \in Seq(S)
    BY <1>1, <1>2
  <2> HIDE DEF x, t
  <2> QED BY ConcatProperties
<1>4. \A i \in 1 .. Len(s) : u[i] = s[i]
  <2> SUFFICES ASSUME NEW i \in 1 .. Len(s) PROVE u[i] = s[i]
    OBVIOUS
  <2>0. u[i] = IF i <= Len(x) THEN x[i] ELSE t[i - Len(x)]
    <3>1. i \in 1 .. Len(x) + Len(t)
      BY <1>1, <1>2
    <3> HIDE DEF u, x, t
    <3> QED BY <1>3, <3>1
  <2>1. CASE i = 1
    BY <1>2, <2>0, <2>1
  <2>2. CASE i # 1
    <3>1. ~ (i <= 1) /\ i - 1 \in 1 .. Len(s) - 1 /\ (i - 1) + 1 = i
      BY <1>1, <2>2
    <3>2. u[i] = t[i - 1]
      BY <1>2, <2>0, <3>1
    <3> QED BY <1>1, <3>1, <3>2
  <2> QED BY <2>1, <2>2
<1>5. u = s
  <2>1. u \in Seq(S) /\ Len(u) = Len(s)
    BY <1>1, <1>2, <1>3
  <2> HIDE DEF u
  <2> QED BY <1>4, <2>1, SeqEqual
<1>6. f \o x \o t = f \o u
  <2> x \in Seq(S) /\ t \in Seq(S)
    BY <1>1, <1>2
  <2> HIDE DEF x, t
  <2> QED BY ConcatAssociative DEF u
<1>7. f \o <<>> = f
  BY ConcatEmptySeq
<1> QED BY <1>5, <1>6, <1>7

LEMMA EntriesWrite ==
  ASSUME NEW S, NEW f \in Seq(S), NEW s, NEW e \in S
  PROVE  Append(f, e) \o <<>> \o s = f \o <<e>> \o s
<1>1. Append(f, e) = f \o <<e>> /\ Append(f, e) \in Seq(S)
  BY AppendIsConcat, AppendProperties
<1>2. Append(f, e) \o <<>> = Append(f, e)
  BY <1>1, ConcatEmptySeq
<1> QED BY <1>1, <1>2

\* A client's next entry behind all the others.
LEMMA NumberedAppend ==
  ASSUME NEW es, NEW n \in [Clients -> Int], Numbered(es, n),
         NEW e \in Word, e.client \in Clients, e.no = n[e.client] + 1, e.no >= 1
  PROVE  Numbered(Append(es, e), [n EXCEPT ![e.client] = @ + 1])
<1> DEFINE fs == Append(es, e)
           m == [n EXCEPT ![e.client] = @ + 1]
           k == Len(es)
<1>1. /\ fs \in Seq(Word) /\ Len(fs) = k + 1 /\ k \in Nat /\ fs[k + 1] = e
      /\ \A i \in 1 .. k : fs[i] = es[i]
  BY AppendProperties DEF Numbered
<1>2. /\ m \in [Clients -> Int] /\ m[e.client] = n[e.client] + 1
      /\ \A c \in Clients : c # e.client => m[c] = n[c]
  OBVIOUS
<1>3. /\ \A i \in 1 .. k : es[i].client \in Clients /\ es[i].no \in 1 .. n[es[i].client]
      /\ \A c \in Clients : \A j \in 1 .. n[c] : \E i \in 1 .. k : es[i].client = c /\ es[i].no = j
      /\ \A i, j \in 1 .. k : es[i].client = es[j].client /\ i < j => es[i].no < es[j].no
  BY DEF Numbered
<1> HIDE DEF fs, m, k
<1>4. \A i \in 1 .. k + 1 : i \in 1 .. k \/ i = k + 1
  BY <1>1
<1>5. \A i \in 1 .. k + 1 : fs[i].client \in Clients /\ fs[i].no \in 1 .. m[fs[i].client]
  <2> SUFFICES ASSUME NEW i \in 1 .. k + 1
               PROVE  fs[i].client \in Clients /\ fs[i].no \in 1 .. m[fs[i].client]
    OBVIOUS
  <2>1. CASE i \in 1 .. k
    <3>1. es[i].client \in Clients /\ es[i].no \in 1 .. n[es[i].client] /\ fs[i] = es[i]
      BY <1>1, <1>3, <2>1
    <3>2. m[es[i].client] \in {n[es[i].client], n[es[i].client] + 1}
      BY <1>2, <3>1
    <3> QED BY <3>1, <3>2
  <2>2. CASE i = k + 1
    BY <1>1, <1>2, <2>2
  <2> QED BY <1>4, <2>1, <2>2
<1>6. ASSUME NEW c \in Clients, NEW j \in 1 .. m[c]
      PROVE  \E i \in 1 .. k + 1 : fs[i].client = c /\ fs[i].no = j
  <2>1. CASE j \in 1 .. n[c]
    <3>1. PICK i \in 1 .. k : es[i].client = c /\ es[i].no = j
      BY <1>3, <2>1
    <3>2. i \in 1 .. k + 1
      BY <1>1
    <3> QED BY <1>1, <3>1, <3>2
  <2>2. CASE j \notin 1 .. n[c]
    <3>1. c = e.client /\ j = e.no
      BY <1>2, <2>2
    <3>2. k + 1 \in 1 .. k + 1
      BY <1>1
    <3> QED BY <1>1, <3>1, <3>2
  <2> QED BY <2>1, <2>2
<1>7. ASSUME NEW i \in 1 .. k + 1, NEW j \in 1 .. k + 1, fs[i].client = fs[j].client, i < j
      PROVE  fs[i].no < fs[j].no
  <2>1. i \in 1 .. k /\ fs[i] = es[i]
    BY <1>1, <1>7
  <2>2. CASE j \in 1 .. k
    BY <1>1, <1>3, <1>7, <2>1, <2>2
  <2>3. CASE j = k + 1
    <3>1. fs[j] = e /\ es[i].client = e.client /\ es[i].no \in 1 .. n[e.client]
      BY <1>1, <1>3, <1>7, <2>1, <2>3
    <3> QED BY <2>1, <3>1
  <2> QED BY <1>4, <2>2, <2>3
<1>8. Numbered(fs, m)
  BY <1>1, <1>5, <1>6, <1>7 DEF Numbered
<1> QED BY <1>8 DEF fs, m

LEMMA TwoListsSwapped == \A h, q, r : TwoLists(h, q, r) <=> TwoLists(h, r, q)
  BY DEF TwoLists

\* The entry the log thread holds, as a sequence.
Held1 == IF pc[Logger] \in {"signalCond4", "write"} THEN <<word[Logger]>> ELSE <<>>

LEMMA HeldType ==
  ASSUME TypeOK
  PROVE  Held1 \in Seq(Word) /\ Entries = log_file \o Held1 \o LogWords
<1>1. word[Logger] \in Word
  BY DEF TypeOK
<1> QED BY <1>1 DEF Held1, Entries

\* push(log_queue, ...) onto memory that is not in use.
LEMMA PushLogStep ==
  ASSUME TypeInv, TypeInv', Lists, OnePlace, NEW w \in Workers, PushLog(w), ~ recycled'
  PROVE  /\ Lists' /\ OnePlace'
         /\ JobSockets' = JobSockets
         /\ Entries' = Append(Entries, word[w])
         /\ \A v \in Workers \ {w} : Unmoved(v) /\ Role(v, pc'[v]) = Role(v, pc[v])
         /\ pc[w] = "pushLog" /\ pc'[w] = "signalCond3"
         /\ UNCHANGED <<client_socket, word, sent>> /\ Closed' = Closed
<1>0. /\ PcOK(pc) /\ w \in Threads /\ w # Main /\ w # Logger
      /\ HeapOK(heap) /\ HeapOK(heap') /\ QueueOK(heap, log_queue)
      /\ TypeOK /\ log_file \in Seq(Word) /\ word \in [Workers \cup {Logger} -> Word]
  BY ThreadsAreApart DEF TypeInv, TypeOK, Threads
<1>1. OnlyMoves(w, "signalCond3") /\ pc[w] = "pushLog" /\ pc'[w] = "signalCond3"
  BY <1>0, GotoMoves DEF PushLog, OnlyMoves, At
<1>2. PICK a \in Mallocs(heap) :
        LET k == PushedHeap(CreateNode(heap, a, client_socket[w], word[w]), log_queue, a) IN
        /\ \E b \in {NULL} \cup FreePieces(k) : heap' = TakenByText(k, b)
        /\ log_queue' = PushedQueue(log_queue, a)
        /\ a \notin InUse
  BY DEF PushLog
<1>3. /\ UNCHANGED <<job_queue, job, client_socket, word, accepted, sent, log_file>>
      /\ Closed' = Closed
  BY DEF PushLog, locals, peers, Closed
<1>4. /\ \A v \in Workers \ {w} : Unmoved(v)
      /\ Role(Main, pc'[Main]) = Role(Main, pc[Main])
      /\ Role(Logger, pc'[Logger]) = Role(Logger, pc[Logger])
  BY <1>0, <1>1, <1>3, OthersUnmoved
<1>5. client_socket[w] \in {0} \cup Clients /\ word[w] \in Word
  BY DEF TypeInv, TypeOK
<1>6. /\ TwoLists(heap', log_queue', job_queue)
      /\ Carried(Chain(heap', log_queue'), WordOf(heap'))
           = Append(Carried(Chain(heap, log_queue), WordOf(heap)), word[w])
      /\ Carried(Chain(heap', job_queue), SocketOf(heap')) = Carried(Chain(heap, job_queue), SocketOf(heap))
      /\ \A b \in Addr \ {a} : heap'.cell[b].client_socket = heap.cell[b].client_socket
  <2>1. a \notin Linked(heap, job_queue) /\ a \notin Linked(heap, log_queue)
    BY <1>2 DEF InUse
  <2>2. TwoLists(heap, log_queue, job_queue)
    BY TwoListsSwapped DEF Lists
  <2>3. ASSUME NEW c \in {0} \cup Clients, NEW t \in Word, NEW k,
               k = PushedHeap(CreateNode(heap, a, c, t), log_queue, a),
               \E b \in {NULL} \cup FreePieces(k) : heap' = TakenByText(k, b)
        PROVE  /\ TwoLists(heap', log_queue', job_queue)
               /\ Carried(Chain(heap', log_queue'), WordOf(heap'))
                    = Append(Carried(Chain(heap, log_queue), WordOf(heap)), t)
               /\ Carried(Chain(heap', job_queue), SocketOf(heap'))
                    = Carried(Chain(heap, job_queue), SocketOf(heap))
               /\ \A b \in Addr \ {a} : heap'.cell[b].client_socket = heap.cell[b].client_socket
    <3>1. HeapOK(heap) /\ log_queue' = PushedQueue(log_queue, a)
      BY <1>0, <1>2
    <3>2. HeapOK(k)
      BY <1>0, <2>3, PushOK
    <3>3. PICK b \in {NULL} \cup FreePieces(k) : heap' = TakenByText(k, b)
      BY <2>3
    <3>4. k = PushedHeap(CreateNode(heap, a, c, t), log_queue, a)
      BY <2>3
    <3> QED BY ONLY <2>1, <2>2, <3>1, <3>2, <3>3, <3>4, PushTextContents
  <2> QED BY <1>2, <1>5, <2>3
<1>7. Lists'
  BY <1>3, <1>6, TwoListsSwapped DEF Lists
<1>8. JobSockets' = JobSockets /\ LogWords' = Append(LogWords, word[w]) /\ LogWords \in Seq(Word)
  <2>1. /\ JobSockets = Carried(Chain(heap, job_queue), SocketOf(heap))
        /\ LogWords = Carried(Chain(heap, log_queue), WordOf(heap))
        /\ LogWords \in Seq(Word)
    BY <1>0, QueueContents
  <2>2. /\ JobSockets' = Carried(Chain(heap', job_queue'), SocketOf(heap'))
        /\ LogWords' = Carried(Chain(heap', log_queue'), WordOf(heap'))
    <3>1. /\ IsList(heap', job_queue', Chain(heap', job_queue'))
          /\ IsList(heap', log_queue', Chain(heap', log_queue'))
      BY <1>3, <1>6 DEF TwoLists
    <3> QED BY <1>0, <3>1, Contents DEF JobSockets, LogWords
  <2> QED BY <1>3, <1>6, <2>1, <2>2
<1>9. Entries' = Append(Entries, word[w])
  <2>1. Held1 \in Seq(Word) /\ Entries = log_file \o Held1 \o LogWords
    BY <1>0, HeldType
  <2>2. Entries' = log_file' \o Held1' \o LogWords'
    BY DEF Entries, Held1
  <2>3. Held1' = Held1
    BY <1>3, <1>4, OtherRoles DEF Held1
  <2>4. Entries' = log_file \o Held1 \o Append(LogWords, word[w])
    BY <1>3, <1>8, <2>2, <2>3
  <2> QED BY <1>0, <1>5, <1>8, <2>1, <2>4, EntriesPush
<1>10. SocketsStay
  <2> SUFFICES ASSUME NEW v \in Workers, pc[v] \in PoppedLabels, job[v] # NULL
               PROVE  heap'.cell[job[v]].client_socket = heap.cell[job[v]].client_socket
    BY DEF SocketsStay
  <2>0. job[v] \in 0 .. heap.brk /\ job[v] # 0 /\ heap.brk \in 0 .. HeapSize
    BY DEF TypeInv, TypeOK, HeapOK, NULL
  <2>1. job[v] \in Addr
    BY ONLY HeapSizeAssumption, <2>0 DEF Addr
  <2>2. job[v] # a
    BY <1>2 DEF InUse, PoppedLabels
  <2> QED BY <1>6, <2>1, <2>2
<1>11. Role(w, pc[w]) = "composing" /\ Role(w, pc'[w]) = "pushed"
  BY <1>0, <1>1 DEF Role, PoppedLabels, ComposedLabels
<1>12. Serving(w)' = Serving(w)
  BY <1>3, <1>11, ServingByRole, ServingByRoleNext DEF Has
<1>13. \A v \in Workers : Serving(v)' = Serving(v)
  BY <1>4, <1>10, <1>12, ServingSame
<1>14. OnePlace'
  BY <1>3, <1>4, <1>8, <1>13, OnePlaceKept
<1> QED BY <1>1, <1>3, <1>4, <1>7, <1>8, <1>9, <1>14 DEF Unmoved

\* The entry takes its turn behind the client's others.
LEMMA PushLogTurn ==
  ASSUME TypeInv, TypeInv', Lists, OnePlace, InTurn, NEW w \in Workers, PushLog(w), ~ recycled'
  PROVE  InTurn'
<1> DEFINE c == client_socket[w]
<1>1. /\ Entries' = Append(Entries, word[w])
      /\ \A v \in Workers \ {w} : Unmoved(v) /\ Role(v, pc'[v]) = Role(v, pc[v])
      /\ pc[w] = "pushLog" /\ pc'[w] = "signalCond3"
      /\ UNCHANGED <<client_socket, word, sent>>
  BY PushLogStep
<1>2. /\ c \in Clients /\ pc[w] \in ServingLabels
      /\ \A v \in Workers : pc[v] \in ServingLabels /\ client_socket[v] = c => v = w
  BY <1>1, ServedAlone DEF ServingLabels
<1>3. pc[w] \in ComposedLabels /\ pc'[w] \notin ComposedLabels
  BY <1>1 DEF ComposedLabels
<1>4. \A v \in Workers \ {w} : pc'[v] \in ComposedLabels <=> pc[v] \in ComposedLabels
  BY <1>1, WorkerRoles
<1>5. \A v \in Workers \ {w} : pc[v] \in ComposedLabels => client_socket[v] # c
  BY <1>2, ComposedServes
<1>6. \A d : d = c => Composing(d) /\ ~ Composing(d)'
  BY <1>1, <1>3, <1>4, <1>5 DEF Composing
<1>7. \A d \in Clients \ {c} : Composing(d)' <=> Composing(d)
  BY <1>1, <1>3, <1>4 DEF Composing
<1>8. sent \in [Clients -> Nat] /\ word[w] \in Word
  BY DEF TypeInv, TypeOK
<1>9. word[w].client = c /\ word[w].no = sent[c] /\ word[w].no # 0
  BY <1>3 DEF InTurn
<1>10. Pushed \in [Clients -> Int]
  BY <1>8 DEF Pushed
<1>11. Pushed[c] = sent[c] - 1
  <2>1. \A d \in Clients : d = c => Pushed[d] = sent[d] - 1
    BY <1>6 DEF Pushed
  <2> QED BY <1>2, <2>1
<1>12. Pushed' = [Pushed EXCEPT ![c] = @ + 1]
  <2>1. \A d \in Clients : d = c => Pushed'[d] = sent[d] - 0
    BY <1>1, <1>6 DEF Pushed
  <2>2. \A d \in Clients \ {c} : Pushed'[d] = Pushed[d]
    BY <1>1, <1>7 DEF Pushed
  <2>3. Pushed' = [d \in Clients |-> Pushed'[d]]
    BY DEF Pushed
  <2>4. \A d \in Clients : Pushed'[d] = [Pushed EXCEPT ![c] = @ + 1][d]
    BY <1>2, <1>8, <1>10, <1>11, <2>1, <2>2
  <2> QED BY <1>10, <2>3, <2>4
<1>13. Numbered(Entries, Pushed)
  BY DEF InTurn
<1>14. Numbered(Append(Entries, word[w]), [Pushed EXCEPT ![word[w].client] = @ + 1])
  <2>1. /\ word[w].client \in Clients /\ word[w].no >= 1
        /\ word[w].no = Pushed[word[w].client] + 1
    BY <1>2, <1>8, <1>9, <1>11
  <2> QED BY ONLY <1>8, <1>10, <1>13, <2>1, NumberedAppend
<1>15. \A v \in Workers : pc'[v] \in ComposedLabels =>
         /\ word'[v].client = client_socket'[v]
         /\ word'[v].no = sent'[client_socket'[v]]
         /\ word'[v].no # 0
  BY <1>1, <1>3, <1>4 DEF InTurn
<1> QED BY <1>1, <1>9, <1>12, <1>14, <1>15 DEF InTurn

LEMMA PushLogEnds ==
  ASSUME TypeInv, TypeInv', Lists, OnePlace, InTurn, EndsLast,
         NEW w \in Workers, PushLog(w), ~ recycled'
  PROVE  EndsLast'
<1> DEFINE c == client_socket[w]
           e == word[w]
           k == Len(Entries)
<1>1. /\ Entries' = Append(Entries, e)
      /\ \A v \in Workers \ {w} : Unmoved(v) /\ Role(v, pc'[v]) = Role(v, pc[v])
      /\ pc[w] = "pushLog" /\ pc'[w] = "signalCond3"
      /\ UNCHANGED <<client_socket, word, sent>> /\ Closed' = Closed
  BY PushLogStep
<1>2. /\ c \in Clients /\ c \notin Closed /\ pc[w] \in ServingLabels
      /\ \A v \in Workers : pc[v] \in ServingLabels /\ client_socket[v] = c => v = w
  BY <1>1, ServedAlone DEF ServingLabels
<1>3. e \in Word /\ e.client = c /\ e.no = sent[c]
  BY <1>1 DEF InTurn, ComposedLabels, TypeInv, TypeOK
<1>4. \A v \in Workers \ {w} : pc'[v] = "signalCond3" <=> pc[v] = "signalCond3"
  BY <1>1, WorkerRoles
<1>5. \A d : d = c => ~ Closing(d)
  BY <1>1, <1>2 DEF Closing, ServingLabels
<1>6. /\ \A d : d # c => (Closing(d)' <=> Closing(d))
      /\ \A d : d = c => (Closing(d)' <=> e.last)
  <2>1. \A v \in Workers \ {w} : word'[v] = word[v] /\ client_socket'[v] = client_socket[v]
    BY <1>1
  <2>2. \A v \in Workers \ {w} : pc[v] = "signalCond3" => client_socket[v] # c
    BY <1>2 DEF ServingLabels
  <2>3. \A d : d # c => (Closing(d)' <=> Closing(d))
    BY <1>1, <1>4, <2>1 DEF Closing
  <2>4. \A d : d = c => (Closing(d)' <=> word[w].last)
    BY <1>1, <1>4, <2>1, <2>2 DEF Closing
  <2> QED BY <2>3, <2>4
<1>7. /\ Append(Entries, e) \in Seq(Word) /\ Len(Append(Entries, e)) = k + 1 /\ k \in Nat
      /\ Append(Entries, e)[k + 1] = e
      /\ \A i \in 1 .. k : Append(Entries, e)[i] = Entries[i]
      /\ \A i \in 1 .. k : Entries[i].client \in Clients
  BY <1>3, AppendProperties DEF InTurn, Numbered
<1> DEFINE es == Append(Entries, e)
<1>8. Entries' = es /\ Len(es) = k + 1 /\ k \in Nat /\ es[k + 1] = e
      /\ \A i \in 1 .. k : es[i] = Entries[i] /\ Entries[i].client \in Clients
  BY <1>1, <1>7
<1> HIDE DEF es
<1>9. ASSUME NEW i \in 1 .. k + 1, es[i].last
      PROVE  /\ es[i].no = sent[es[i].client]
             /\ \A d : d = es[i].client => d \in Closed \/ Closing(d)'
  <2>1. CASE i = k + 1
    BY <1>3, <1>6, <1>8, <1>9, <2>1
  <2>2. CASE i \in 1 .. k
    <3>1. /\ Entries[i].no = sent[Entries[i].client]
          /\ Entries[i].client \in Closed \/ Closing(Entries[i].client)
      BY <1>8, <1>9, <2>2 DEF EndsLast
    <3>2. ASSUME NEW d, d = Entries[i].client PROVE d \in Closed \/ Closing(d)'
      <4>1. d \in Closed \/ Closing(d)
        BY <3>1, <3>2
      <4>2. d # c
        BY <1>2, <1>5, <4>1
      <4> QED BY <1>6, <4>1, <4>2
    <3>3. es[i] = Entries[i]
      BY <1>8, <2>2
    <3> QED BY <3>1, <3>2, <3>3
  <2> QED BY <1>8, <2>1, <2>2
<1>10. ASSUME NEW d \in Clients, d \in Closed \/ Closing(d)'
       PROVE  \E i \in 1 .. k + 1 : es[i].client = d /\ es[i].last
  <2>1. CASE d = c /\ e.last
    <3>1. k + 1 \in 1 .. k + 1
      BY <1>8
    <3> QED BY <1>3, <1>8, <2>1, <3>1
  <2>2. CASE d \in Closed \/ Closing(d)
    <3>1. PICK i \in 1 .. k : Entries[i].client = d /\ Entries[i].last
      BY <2>2 DEF EndsLast
    <3>2. i \in 1 .. k + 1 /\ es[i] = Entries[i]
      BY <1>8
    <3> QED BY <3>1, <3>2
  <2> QED BY <1>6, <1>10, <2>1, <2>2
<1>11. \A i \in 1 .. Len(Entries') : Entries'[i].last =>
         /\ Entries'[i].no = sent'[Entries'[i].client]
         /\ \A d : d = Entries'[i].client => d \in Closed' \/ Closing(d)'
  BY <1>1, <1>8, <1>9
<1>12. \A d \in Clients : d \in Closed' \/ Closing(d)' =>
         \E i \in 1 .. Len(Entries') : Entries'[i].client = d /\ Entries'[i].last
  BY <1>1, <1>8, <1>10
<1> QED BY <1>11, <1>12 DEF EndsLast

\* The entry is the word the worker had.
LEMMA PushLogWords ==
  ASSUME TypeInv, TypeInv', Lists, OnePlace, InTurn, NEW w \in Workers, PushLog(w), ~ recycled',
         NEW S, WordsFrom(S)
  PROVE  WordsFrom(S)'
<1> DEFINE k == Len(Entries)
<1>1. /\ Entries' = Append(Entries, word[w])
      /\ \A v \in Workers \ {w} : Unmoved(v) /\ Role(v, pc'[v]) = Role(v, pc[v])
      /\ pc[w] = "pushLog" /\ pc'[w] = "signalCond3"
  BY PushLogStep
<1>2. pc[w] \in ComposedLabels /\ pc'[w] \notin ComposedLabels
  BY <1>1 DEF ComposedLabels
<1>3. word[w] \in S /\ word[w] \in Word /\ Entries \in Seq(Word)
  BY <1>2 DEF WordsFrom, InTurn, Numbered, TypeInv, TypeOK
<1>4. /\ Len(Entries') = k + 1 /\ k \in Nat /\ Entries'[k + 1] = word[w]
      /\ \A i \in 1 .. k : Entries'[i] = Entries[i]
  BY <1>1, <1>3, AppendProperties
<1>5. \A i \in 1 .. Len(Entries') : Entries'[i] \in S
  <2> SUFFICES ASSUME NEW i \in 1 .. Len(Entries') PROVE Entries'[i] \in S
    OBVIOUS
  <2>1. i = k + 1 \/ i \in 1 .. k
    BY <1>4
  <2> QED BY <1>3, <1>4, <2>1 DEF WordsFrom
<1>6. \A v \in Workers : pc'[v] \in ComposedLabels => word'[v] \in S
  BY <1>1, <1>2, WorkerRoles DEF Unmoved, WordsFrom
<1> QED BY <1>5, <1>6 DEF WordsFrom

\* Behind an entry the worker goes on with its connection.
LEMMA GoOnStep ==
  ASSUME NEW w \in Workers, OnlyMoves(w, "serve"), pc[w] = "signalCond3",
         UNCHANGED <<queues, locals, peers, log_file>>
  PROVE  /\ Lists => Lists'
         /\ OnePlace => OnePlace'
         /\ InTurn => InTurn'
         /\ JobSockets' = JobSockets
         /\ EndsLast /\ ~ word[w].last => EndsLast'
         /\ \A S : WordsFrom(S) => WordsFrom(S)'
<1>0. w \in Threads /\ w # Main /\ w # Logger
  BY ThreadsAreApart DEF Threads
<1>1. UNCHANGED <<heap, job_queue, log_queue, job, client_socket, word, accepted, sent, conn, log_file>>
  BY DEF queues, locals, peers
<1>2. /\ \A v \in Workers \ {w} : Unmoved(v)
      /\ Role(Main, pc'[Main]) = Role(Main, pc[Main])
      /\ Role(Logger, pc'[Logger]) = Role(Logger, pc[Logger])
  BY <1>0, <1>1, OthersUnmoved
<1>3. JobSockets' = JobSockets /\ LogWords' = LogWords /\ Closed' = Closed /\ (Lists => Lists')
  BY <1>1 DEF JobSockets, LogWords, Lists, Closed
<1>4. Entries' = Entries
  BY <1>1, <1>2, <1>3, EntriesKept
<1>5. pc'[w] = "serve" /\ Role(w, pc[w]) = "pushed" /\ Role(w, pc'[w]) = "serving"
  BY <1>0 DEF OnlyMoves, Role, PoppedLabels, ComposedLabels
<1>6. Serving(w)' = Serving(w)
  BY <1>1, <1>5, ServingByRole, ServingByRoleNext DEF Has
<1>7. SocketsStay
  BY <1>1 DEF SocketsStay
<1>8. \A v \in Workers : Serving(v)' = Serving(v)
  BY <1>2, <1>6, <1>7, ServingSame
<1>9. OnePlace => OnePlace'
  BY <1>1, <1>2, <1>3, <1>8, OnePlaceKept
<1>10. Role(w, pc[w]) # "composing" /\ Role(w, pc'[w]) # "composing"
  BY <1>5
<1>11. InTurn => InTurn'
  BY <1>1, <1>2, <1>4, <1>10, TurnKept
<1>12. ASSUME EndsLast, ~ word[w].last PROVE EndsLast'
  <2>1. \A v \in Workers \ {w} : /\ pc'[v] = "signalCond3" <=> pc[v] = "signalCond3"
                                 /\ client_socket'[v] = client_socket[v] /\ word'[v] = word[v]
    BY <1>2, WorkerRoles DEF Unmoved
  <2>2. \A d : Closing(d)' <=> Closing(d)
    BY <1>5, <1>12, <2>1 DEF Closing
  <2> QED BY <1>1, <1>3, <1>4, <1>12, <2>2 DEF EndsLast
<1> QED BY <1>2, <1>3, <1>4, <1>9, <1>10, <1>11, <1>12, WordsKept

\* A worker closes its connection and goes back for the next job.
LEMMA CloseStep ==
  ASSUME TypeInv, OnePlace, NEW w \in Workers, OnlyMoves(w, "lockJobs"),
         pc[w] \in {"serve", "signalCond3"},
         conn' = [conn EXCEPT ![client_socket[w]] = "closed"],
         UNCHANGED <<queues, locals, accepted, sent, log_file>>
  PROVE  /\ Lists => Lists'
         /\ OnePlace'
         /\ InTurn => InTurn'
         /\ JobSockets' = JobSockets
         /\ EndsLast /\ pc[w] = "signalCond3" /\ word[w].last => EndsLast'
         /\ \A S : WordsFrom(S) => WordsFrom(S)'
<1> DEFINE c == client_socket[w]
<1>0. w \in Threads /\ w # Main /\ w # Logger
  BY ThreadsAreApart DEF Threads
<1>1. UNCHANGED <<heap, job_queue, log_queue, job, client_socket, word, accepted, sent, log_file>>
  BY DEF queues, locals
<1>2. /\ \A v \in Workers \ {w} : Unmoved(v)
      /\ Role(Main, pc'[Main]) = Role(Main, pc[Main])
      /\ Role(Logger, pc'[Logger]) = Role(Logger, pc[Logger])
  BY <1>0, <1>1, OthersUnmoved
<1>3. JobSockets' = JobSockets /\ LogWords' = LogWords /\ (Lists => Lists')
  BY <1>1 DEF JobSockets, LogWords, Lists
<1>4. Entries' = Entries
  BY <1>1, <1>2, <1>3, EntriesKept
<1>5. /\ pc'[w] = "lockJobs" /\ Role(w, pc[w]) \in {"serving", "pushed"} /\ Role(w, pc'[w]) = "idle"
      /\ pc[w] \in ServingLabels
  BY <1>0 DEF OnlyMoves, Role, PoppedLabels, ComposedLabels, ServingLabels
<1>6. Serving(w) = c /\ Serving(w)' = 0
  BY <1>5, ServingByRole, ServingByRoleNext DEF Has
<1>7. SocketsStay
  BY <1>1 DEF SocketsStay
<1>8. \A v \in Workers \ {w} : Serving(v)' = Serving(v)
  BY <1>2, <1>7, ServingSame
<1>9. c \in Clients /\ c # 0
  BY <1>5, ServedAlone DEF Clients
<1>10. Closed' = Closed \cup {c}
  BY <1>9 DEF Closed, TypeInv, TypeOK
<1> DEFINE srv == [v \in Workers |-> Serving(v)]
           srvNext == [v \in Workers |-> Serving(v)']
<1>11. OnePlaceOf(JobSockets, srv, pc[Main] \in HoldingLabels, accepted, Closed)
  BY DEF OnePlace
<1>12. srvNext = [srv EXCEPT ![w] = 0] /\ srv[w] = c
  BY <1>6, <1>8
<1>13. OnePlaceOf(JobSockets, srvNext, pc[Main] \in HoldingLabels, accepted, Closed \cup {c})
  <2>1. srv[w] # 0 /\ c = srv[w]
    BY <1>9, <1>12
  <2> HIDE DEF srv, srvNext, c
  <2> QED BY <1>11, <1>12, <2>1, PlaceClosed
<1>14. OnePlace'
  <2>1. pc'[Main] \in HoldingLabels <=> pc[Main] \in HoldingLabels
    BY <1>2, OtherRoles
  <2> HIDE DEF srv
  <2> QED BY <1>1, <1>3, <1>10, <1>13, <2>1 DEF OnePlace
<1>15. Role(w, pc[w]) # "composing" /\ Role(w, pc'[w]) # "composing"
  BY <1>5
<1>16. InTurn => InTurn'
  BY <1>1, <1>2, <1>4, <1>15, TurnKept
<1>17. ASSUME EndsLast, pc[w] = "signalCond3", word[w].last PROVE EndsLast'
  <2>1. \A v \in Workers \ {w} : /\ pc'[v] = "signalCond3" <=> pc[v] = "signalCond3"
                                 /\ client_socket'[v] = client_socket[v] /\ word'[v] = word[v]
    BY <1>2, WorkerRoles DEF Unmoved
  <2>2. \A d : d \in Closed' \/ Closing(d)' <=> d \in Closed \/ Closing(d)
    BY <1>5, <1>10, <1>17, <2>1 DEF Closing
  <2> QED BY <1>1, <1>4, <1>17, <2>2 DEF EndsLast
<1> QED BY <1>2, <1>3, <1>4, <1>14, <1>15, <1>16, <1>17, WordsKept

\* The log thread takes the oldest entry of its queue.
LEMMA PopLogStep ==
  ASSUME TypeInv, TypeInv', Lists, PopLog
  PROVE  AllKept /\ Lists' /\ JobSockets' = JobSockets
<1>0. /\ PcOK(pc) /\ Logger \in Threads /\ Main # Logger /\ Logger \notin Workers
      /\ HeapOK(heap) /\ HeapOK(heap') /\ QueueOK(heap, log_queue)
      /\ TypeOK /\ log_file \in Seq(Word) /\ word \in [Workers \cup {Logger} -> Word]
  BY ThreadsAreApart DEF TypeInv, TypeOK, Threads
<1>1. OnlyMoves(Logger, "signalCond4") /\ pc[Logger] = "popLog" /\ pc'[Logger] = "signalCond4"
  BY <1>0, GotoMoves DEF PopLog, OnlyMoves, At
<1>2. /\ heap' = PoppedHeap(heap, log_queue) /\ log_queue' = PoppedQueue(heap, log_queue)
      /\ word' = [word EXCEPT ![Logger] = heap.cell[log_queue.front].word]
      /\ log_queue.front # NULL
      /\ UNCHANGED <<job_queue, job, client_socket, accepted, sent, log_file>>
      /\ Closed' = Closed
  BY DEF PopLog, peers, Closed
<1>3. \A w \in Workers : word'[w] = word[w]
  BY <1>0, <1>2
<1>4. /\ \A w \in Workers : Unmoved(w)
      /\ Role(Main, pc'[Main]) = Role(Main, pc[Main])
  BY <1>0, <1>1, <1>2, <1>3, OthersUnmoved
<1> DEFINE jw == Carried(Chain(heap, log_queue), WordOf(heap))
           kw == Carried(Chain(heap', log_queue'), WordOf(heap'))
<1>5. /\ TwoLists(heap', log_queue', job_queue) /\ heap'.cell = heap.cell
      /\ Carried(Chain(heap', job_queue), SocketOf(heap')) = Carried(Chain(heap, job_queue), SocketOf(heap))
      /\ jw # <<>> /\ kw = Tail(jw) /\ heap.cell[log_queue.front].word = jw[1]
  <2>1. TwoLists(heap, log_queue, job_queue)
    BY TwoListsSwapped DEF Lists
  <2> QED BY <1>0, <1>2, <2>1, PopContents
<1>6. Lists'
  BY <1>2, <1>5, TwoListsSwapped DEF Lists
<1>7. LogWords = jw /\ LogWords' = kw /\ JobSockets' = JobSockets /\ LogWords \in Seq(Word)
  <2>1. /\ JobSockets = Carried(Chain(heap, job_queue), SocketOf(heap))
        /\ LogWords = jw /\ LogWords \in Seq(Word)
    BY <1>0, QueueContents
  <2>2. /\ LogWords' = kw
        /\ JobSockets' = Carried(Chain(heap', job_queue'), SocketOf(heap'))
    <3>1. /\ IsList(heap', job_queue', Chain(heap', job_queue'))
          /\ IsList(heap', log_queue', Chain(heap', log_queue'))
      BY <1>2, <1>5 DEF TwoLists
    <3> QED BY <1>0, <3>1, Contents DEF JobSockets, LogWords
  <2> QED BY <1>2, <1>5, <2>1, <2>2
<1> HIDE DEF jw, kw
<1>8. Entries' = Entries
  <2>1. Entries = log_file \o <<>> \o LogWords
    BY <1>1 DEF Entries
  <2>2. Entries' = log_file' \o <<word'[Logger]>> \o LogWords'
    BY <1>1 DEF Entries
  <2>3. word'[Logger] = LogWords[1] /\ LogWords' = Tail(LogWords) /\ LogWords # <<>>
    BY <1>0, <1>2, <1>5, <1>7
  <2>4. log_file \o <<LogWords[1]>> \o Tail(LogWords) = log_file \o <<>> \o LogWords
    BY <1>0, <1>7, <2>3, EntriesPop
  <2> QED BY <1>2, <2>1, <2>2, <2>3, <2>4
<1>9. SocketsStay
  BY <1>5 DEF SocketsStay
<1>10. \A w \in Workers : Serving(w)' = Serving(w)
  BY <1>4, <1>9, ServingSame
<1>11. OnePlace => OnePlace'
  BY <1>2, <1>4, <1>7, <1>10, OnePlaceKept
<1> QED BY <1>2, <1>4, <1>6, <1>7, <1>8, <1>11, TurnKept, WordsKept, EndsKept DEF AllKept, OrderKept

\* Every popped word is one of a client, so that none is skipped.
LEMMA SignalCond4Step ==
  ASSUME TypeInv, Lists, InTurn, SignalCond4
  PROVE  AllKept
<1> USE ThreadsAreApart
<1>0. PcOK(pc) /\ Logger \in Threads /\ TypeOK /\ log_file \in Seq(Word) /\ word[Logger] \in Word
  BY DEF TypeInv, TypeOK, Threads
<1>1. pc[Logger] = "signalCond4"
  BY DEF SignalCond4, At
<1>2. word[Logger] # NoWord
  <2>1. Entries = log_file \o <<word[Logger]>> \o LogWords
    BY <1>1 DEF Entries
  <2> DEFINE s == log_file \o <<word[Logger]>>
             n == Len(log_file) + 1
  <2>2. LogWords \in Seq(Word)
    BY <1>0, QueueContents
  <2>3. s \in Seq(Word) /\ Len(s) = n /\ n \in Nat /\ n >= 1 /\ s[n] = word[Logger]
    <3>1. s = Append(log_file, word[Logger])
      BY <1>0, AppendIsConcat
    <3> QED BY <1>0, <3>1, AppendProperties
  <2> HIDE DEF s, n
  <2>4. /\ Entries = s \o LogWords
        /\ \A i \in 1 .. Len(s) + Len(LogWords) :
             (s \o LogWords)[i] = IF i <= Len(s) THEN s[i] ELSE LogWords[i - Len(s)]
        /\ Len(Entries) = Len(s) + Len(LogWords)
    BY <2>1, <2>2, <2>3, ConcatProperties DEF s
  <2>5. n \in 1 .. Len(Entries)
    BY <2>2, <2>3, <2>4
  <2>6. Entries[n] = word[Logger]
    BY <2>3, <2>4, <2>5
  <2>7. word[Logger].client \in Clients
    BY <2>5, <2>6 DEF InTurn, Numbered
  <2> QED BY <2>7 DEF NoWord, Clients
<1>3. OnlyMoves(Logger, "write")
  <2>1. Signal(Logger, "waitCond4", "write")
    BY <1>2 DEF SignalCond4
  <2> QED BY <1>0, <1>1, <2>1, SignalMoves DEF WaitLabels
<1>4. Role(Logger, "write") = Role(Logger, pc[Logger])
  BY <1>1 DEF Role
<1> QED BY <1>0, <1>3, <1>4, QuietMove DEF SignalCond4

LEMMA WriteLogStep ==
  ASSUME TypeInv, WriteLog
  PROVE  AllKept
<1>0. /\ PcOK(pc) /\ Logger \in Threads /\ Main # Logger /\ Logger \notin Workers
      /\ log_file \in Seq(Word) /\ word[Logger] \in Word
  BY ThreadsAreApart DEF TypeInv, TypeOK, Threads
<1>1. OnlyMoves(Logger, "lockLog") /\ pc[Logger] = "write" /\ pc'[Logger] = "lockLog"
  BY <1>0, GotoMoves DEF WriteLog, OnlyMoves, At
<1>2. /\ UNCHANGED <<heap, job_queue, log_queue, job, client_socket, word, accepted, sent>>
      /\ log_file' = Append(log_file, word[Logger]) /\ Closed' = Closed
  BY DEF WriteLog, queues, locals, peers, Closed
<1>3. /\ \A w \in Workers : Unmoved(w)
      /\ Role(Main, pc'[Main]) = Role(Main, pc[Main])
  BY <1>0, <1>1, <1>2, OthersUnmoved
<1>4. JobSockets' = JobSockets /\ LogWords' = LogWords /\ (Lists => Lists')
  BY <1>2 DEF JobSockets, LogWords, Lists
<1>5. Entries' = Entries
  <2>1. Entries = log_file \o <<word[Logger]>> \o LogWords
    BY <1>1 DEF Entries
  <2>2. Entries' = Append(log_file, word[Logger]) \o <<>> \o LogWords
    BY <1>1, <1>2, <1>4 DEF Entries
  <2> QED BY <1>0, <2>1, <2>2, EntriesWrite
<1>6. SocketsStay
  BY <1>2 DEF SocketsStay
<1>7. \A w \in Workers : Serving(w)' = Serving(w)
  BY <1>3, <1>6, ServingSame
<1>8. OnePlace => OnePlace'
  BY <1>2, <1>3, <1>4, <1>7, OnePlaceKept
<1> QED BY <1>2, <1>3, <1>4, <1>5, <1>8, TurnKept, WordsKept, EndsKept DEF AllKept, OrderKept

-----------------------------------------------------------------------------
(***************************************************************************)
(* Every step.                                                             *)
(***************************************************************************)
\* What a step does to the queued connections.
JobsMove ==
  \/ JobSockets' = JobSockets
  \/ \E c \in Clients : JobSockets' = Append(JobSockets, c)
  \/ JobSockets # <<>> /\ JobSockets' = Tail(JobSockets)

LEMMA JobsStill == UNCHANGED queues => JobsMove
  BY DEF queues, JobsMove, JobSockets

\* Memory once handed out twice stays so.
Recycles == recycled => recycled'

LEMMA MainRecycles == MainThread => Recycles
  BY DEF MainThread, Accept, MainLocksJobs, MainReacquires, PushJob, PushJobDies, SignalCond1,
         ReacquireJobs, PushDies, Halt, queues, Recycles

LEMMA WorkerRecycles ==
  ASSUME NEW w \in Workers,
         \/ WorkerLocksJobs(w) \/ WorkerReacquiresJobs(w) \/ PopJob(w) \/ PopJobAborts(w)
         \/ SignalCond2(w) \/ ReadSocket(w) \/ ReadSocketFaults(w)
         \/ WorkerLocksLog(w) \/ WorkerReacquiresLog(w) \/ PushLog(w) \/ PushLogDies(w)
  PROVE  Recycles
  BY DEF WorkerLocksJobs, WorkerReacquiresJobs, PopJob, PopJobAborts, SignalCond2, ReadSocket,
         ReadSocketFaults, WorkerLocksLog, WorkerReacquiresLog, PushLog, PushLogDies,
         ReacquireJobs, ReacquireLog, PushDies, Halt, queues, Recycles

LEMMA LogThreadRecycles == LogThread => Recycles
  BY DEF LogThread, LoggerLocksLog, LoggerReacquires, PopLog, PopLogFaults, PopLogAborts,
         SignalCond4, WriteLog, WriteLogDies, ReacquireLog, Halt, queues, Recycles

\* Every step of main keeps the lists, the places and the turns.
LEMMA MainSteps ==
  ASSUME TypeInv, TypeInv', Lists, OnePlace, InTurn, ~ recycled', MainThread
  PROVE  AllKept /\ JobsMove
<1>1. CASE Accept
  BY <1>1, AcceptStep, JobsStill DEF Accept
<1>2. CASE MainLocksJobs \/ MainReacquires \/ SignalCond1
  <2>1. UNCHANGED queues
    BY <1>2 DEF MainLocksJobs, MainReacquires, SignalCond1, ReacquireJobs
  <2> QED BY <1>2, <2>1, MainQuiet, JobsStill
<1>3. CASE PushJob
  <2>1. AllKept /\ JobSockets' = Append(JobSockets, accepted)
    BY <1>3, PushJobStep
  <2>2. accepted \in Clients
    BY <1>3, BoundsAssumption
       DEF PushJob, At, TypeInv, TypeOK, OnlyAcceptedSockets, HoldingLabels, Clients
  <2> QED BY <2>1, <2>2 DEF JobsMove
<1>4. CASE PushJobDies
  <2>1. PICK how : Halt(how)
    BY <1>4 DEF PushJobDies, PushDies
  <2> QED BY <2>1, HaltKeeps, JobsStill DEF Halt
<1> QED BY <1>1, <1>2, <1>3, <1>4 DEF MainThread

\* The steps that the workers of the echo server and of the spell checker
\* have in common.
LEMMA WorkerSteps ==
  ASSUME TypeInv, TypeInv', Lists, OnePlace, InTurn, ~ recycled', NEW w \in Workers,
         \/ WorkerLocksJobs(w) \/ WorkerReacquiresJobs(w) \/ PopJob(w) \/ PopJobAborts(w)
         \/ SignalCond2(w) \/ ReadSocket(w) \/ ReadSocketFaults(w)
         \/ WorkerLocksLog(w) \/ WorkerReacquiresLog(w) \/ PushLog(w) \/ PushLogDies(w)
  PROVE  AllKept /\ JobsMove
<1>1. CASE \/ WorkerLocksJobs(w) \/ WorkerReacquiresJobs(w) \/ SignalCond2(w)
           \/ WorkerLocksLog(w) \/ WorkerReacquiresLog(w)
  <2>1. UNCHANGED queues
    BY <1>1 DEF WorkerLocksJobs, WorkerReacquiresJobs, SignalCond2, WorkerLocksLog,
                WorkerReacquiresLog, ReacquireJobs, ReacquireLog
  <2> QED BY <1>1, <2>1, WorkerQuiet, JobsStill
<1>2. CASE PopJob(w)
  BY <1>2, PopJobStep DEF JobsMove
<1>3. CASE ReadSocket(w)
  BY <1>3, ReadSocketStep, JobsStill DEF ReadSocket
<1>4. CASE PushLog(w)
  BY <1>4, PushLogStep, PushLogTurn, PushLogEnds, PushLogWords DEF AllKept, OrderKept, JobsMove
<1>5. CASE PopJobAborts(w) \/ ReadSocketFaults(w) \/ PushLogDies(w)
  <2>1. PICK how : Halt(how)
    BY <1>5 DEF PopJobAborts, ReadSocketFaults, PushLogDies, PushDies
  <2> QED BY <2>1, HaltKeeps, JobsStill DEF Halt
<1> QED BY <1>1, <1>2, <1>3, <1>4, <1>5

\* Every step of the log thread.
LEMMA LogThreadSteps ==
  ASSUME TypeInv, TypeInv', Lists, OnePlace, InTurn, LogThread
  PROVE  AllKept /\ JobsMove
<1>1. CASE LoggerLocksLog \/ LoggerReacquires
  <2>1. UNCHANGED queues
    BY <1>1 DEF LoggerLocksLog, LoggerReacquires, ReacquireLog
  <2> QED BY <1>1, <2>1, LoggerQuiet, JobsStill
<1>2. CASE PopLog
  BY <1>2, PopLogStep DEF JobsMove
<1>3. CASE SignalCond4
  BY <1>3, SignalCond4Step, JobsStill DEF SignalCond4
<1>4. CASE WriteLog
  BY <1>4, WriteLogStep, JobsStill DEF WriteLog
<1>5. CASE PopLogFaults \/ PopLogAborts \/ WriteLogDies
  <2>1. PICK how : Halt(how)
    BY <1>5 DEF PopLogFaults, PopLogAborts, WriteLogDies
  <2> QED BY <2>1, HaltKeeps, JobsStill DEF Halt
<1> QED BY <1>1, <1>2, <1>3, <1>4, <1>5 DEF LogThread

\* Wakeups without a signal, broken pipes and clients hanging up.
LEMMA OtherSteps ==
  ASSUME TypeInv, \/ \E t \in SpuriousWakeups : SpuriousWakeup(t)
                  \/ MainBrokenPipe \/ \E w \in Workers : WorkerBrokenPipe(w)
                  \/ \E c \in Hangups : Hangup(c)
                  \/ UNCHANGED vars
  PROVE  AllKept /\ JobsMove /\ Recycles
<1>1. CASE \/ \E t \in SpuriousWakeups : SpuriousWakeup(t)
           \/ \E c \in Hangups : Hangup(c)
           \/ UNCHANGED vars
  <2>1. UNCHANGED queues
    BY <1>1 DEF SpuriousWakeup, Hangup, vars
  <2> QED BY <1>1, <2>1, OthersQuiet, JobsStill DEF Recycles, queues
<1>2. CASE MainBrokenPipe \/ \E w \in Workers : WorkerBrokenPipe(w)
  <2>1. PICK how : Halt(how)
    BY <1>2 DEF MainBrokenPipe, WorkerBrokenPipe
  <2>2. UNCHANGED queues
    BY <2>1 DEF Halt
  <2> QED BY <2>1, <2>2, HaltKeeps, JobsStill DEF Recycles, queues
<1> QED BY <1>1, <1>2

\* The echo server's own steps: composing an entry, and the signal behind it.
LEMMA ServeSteps ==
  ASSUME TypeInv, OnePlace, InTurn, NEW w \in Workers, NEW last \in BOOLEAN, Serve(w, last)
  PROVE  OrderKept /\ JobsMove /\ Recycles
<1> DEFINE c == client_socket[w]
           t == [client |-> c, no |-> sent'[c], last |-> last]
<1>1. Composes(w, t)
  BY DEF Serve, Composes
<1>2. c \in Clients /\ sent \in [Clients -> Nat]
  BY ServedAlone DEF Serve, At, ServingLabels, TypeInv, TypeOK
<1>3. t.client = c /\ t.no = sent[c] + 1
  BY <1>1, <1>2 DEF Composes
<1>4. UNCHANGED queues
  BY DEF Serve
<1> HIDE DEF t
<1>5. (Lists => Lists') /\ OnePlace'
  BY <1>1, ComposeMoves
<1>6. InTurn'
  BY <1>1, <1>3, ComposeStep
<1>7. EndsLast => EndsLast'
  BY <1>1, ComposeEnds
<1> QED BY <1>4, <1>5, <1>6, <1>7, JobsStill DEF OrderKept, Recycles, queues

LEMMA SignalCond3Steps ==
  ASSUME TypeInv, OnePlace, NEW w \in Workers, SignalCond3(w)
  PROVE  OrderKept /\ JobsMove /\ Recycles
<1>0. /\ PcOK(pc) /\ w \in Threads /\ pc[w] = "signalCond3" /\ pc[w] # "waitCond3"
      /\ "waitCond3" \in WaitLabels
  BY DEF TypeInv, TypeOK, Threads, SignalCond3, At, WaitLabels
<1>1. JobsMove /\ Recycles
  BY JobsStill DEF SignalCond3, Recycles, queues
<1>2. CASE word[w].last
  <2>1. OnlyMoves(w, "lockJobs")
    BY <1>0, <1>2, SignalMoves DEF SignalCond3
  <2>2. /\ conn' = [conn EXCEPT ![client_socket[w]] = "closed"]
        /\ UNCHANGED <<queues, locals, accepted, sent, log_file>>
    BY <1>2 DEF SignalCond3
  <2> QED BY <1>0, <1>1, <1>2, <2>1, <2>2, CloseStep DEF OrderKept
<1>3. CASE ~ word[w].last
  <2>1. OnlyMoves(w, "serve")
    BY <1>0, <1>3, SignalMoves DEF SignalCond3
  <2>2. UNCHANGED <<queues, locals, peers, log_file>>
    BY <1>3 DEF SignalCond3, peers
  <2> QED BY <1>0, <1>1, <1>3, <2>1, <2>2, GoOnStep DEF OrderKept
<1> QED BY <1>2, <1>3

LEMMA NextRecycles == [Next]_vars => Recycles
<1>1. ASSUME NEW w \in Workers, Worker(w) PROVE Recycles
  <2>1. CASE \E last \in BOOLEAN : Serve(w, last)
    BY <2>1 DEF Serve, Recycles, queues
  <2>2. CASE SignalCond3(w)
    BY <2>2 DEF SignalCond3, Recycles, queues
  <2> QED BY <1>1, <2>1, <2>2, WorkerRecycles DEF Worker
<1>2. CASE \/ \E t \in SpuriousWakeups : SpuriousWakeup(t)
           \/ MainBrokenPipe \/ \E w \in Workers : WorkerBrokenPipe(w)
           \/ \E c \in Hangups : Hangup(c)
           \/ UNCHANGED vars
  BY <1>2 DEF SpuriousWakeup, MainBrokenPipe, WorkerBrokenPipe, Hangup, Halt, vars, Recycles, queues
<1> QED BY <1>1, <1>2, MainRecycles, LogThreadRecycles DEF Next

\* A step that leaves memory its own keeps everything.
LEMMA NextSteps ==
  ASSUME TypeInv, [Next]_vars, Lists, OnePlace, InTurn, ~ recycled'
  PROVE  TypeInv' /\ OrderKept /\ JobsMove
<1>0. TypeInv'
  BY NextTypeInv
<1>1. CASE MainThread
  BY <1>0, <1>1, MainSteps DEF AllKept
<1>2. ASSUME NEW w \in Workers, Worker(w) PROVE OrderKept /\ JobsMove
  <2>1. CASE \E last \in BOOLEAN : Serve(w, last)
    BY <2>1, ServeSteps
  <2>2. CASE SignalCond3(w)
    BY <2>2, SignalCond3Steps
  <2> QED BY <1>0, <1>2, <2>1, <2>2, WorkerSteps DEF Worker, AllKept
<1>3. CASE LogThread
  BY <1>0, <1>3, LogThreadSteps DEF AllKept
<1>4. CASE \/ \E t \in SpuriousWakeups : SpuriousWakeup(t)
           \/ MainBrokenPipe \/ \E w \in Workers : WorkerBrokenPipe(w)
           \/ \E c \in Hangups : Hangup(c)
           \/ UNCHANGED vars
  BY <1>0, <1>4, OtherSteps DEF AllKept
<1> QED BY <1>0, <1>1, <1>2, <1>3, <1>4 DEF Next

LEMMA NextQueueInv == QueueInv /\ [Next]_vars => QueueInv'
<1> SUFFICES ASSUME QueueInv, [Next]_vars PROVE QueueInv'
  OBVIOUS
<1>1. TypeInv /\ TypeInv' /\ Recycles
  BY NextTypeInv, NextRecycles DEF QueueInv
<1>2. ASSUME ~ recycled' PROVE Lists' /\ OnePlace' /\ InTurn'
  BY <1>1, <1>2, NextSteps DEF QueueInv, Recycles, OrderKept
<1> QED BY <1>1, <1>2 DEF QueueInv

LEMMA NextEndInv == QueueInv /\ EndInv /\ [Next]_vars => EndInv'
<1> SUFFICES ASSUME QueueInv, EndInv, [Next]_vars, ~ recycled' PROVE EndsLast'
  BY DEF EndInv
<1>1. TypeInv /\ Recycles
  BY NextRecycles DEF QueueInv
<1> QED BY <1>1, NextSteps DEF QueueInv, EndInv, Recycles, OrderKept

LEMMA EmptyList == \A h : IsList(h, create_queue, <<>>)
  BY DEF IsList, create_queue

LEMMA InitQueueInv == Init => QueueInv /\ EndInv
<1> SUFFICES ASSUME Init PROVE QueueInv /\ EndInv
  OBVIOUS
<1>0. /\ TypeInv /\ job_queue = create_queue /\ log_queue = create_queue /\ log_file = <<>>
      /\ accepted = 0 /\ sent = [c \in Clients |-> 0] /\ conn = [c \in Clients |-> "none"]
      /\ heap.frees = [a \in Addr |-> 0]
      /\ pc = [t \in Threads |-> IF t = Main THEN "accept"
                                 ELSE IF t = Logger THEN "lockLog" ELSE "lockJobs"]
  BY InitTypeInv DEF Init
<1>1. /\ Chain(heap, create_queue) = <<>> /\ Linked(heap, create_queue) = {}
  <2>1. Nodes(<<>>) = {}
    BY DEF Nodes
  <2> QED BY <2>1, EmptyList, ListOperators
<1>2. Lists
  BY <1>0, <1>1, EmptyList DEF Lists, TwoLists
<1>3. JobSockets = <<>> /\ LogWords = <<>>
  BY <1>0, <1>1 DEF JobSockets, LogWords
<1>4. /\ pc[Main] = "accept" /\ pc[Logger] = "lockLog" /\ \A w \in Workers : pc[w] = "lockJobs"
      /\ Main \notin Workers /\ Logger \notin Workers
  BY <1>0, ThreadsAreApart DEF Threads
<1>5. Entries = <<>>
  <2>1. Entries = <<>> \o <<>> \o <<>>
    BY <1>0, <1>3, <1>4 DEF Entries
  <2> QED BY <2>1
<1>6. \A w \in Workers : Serving(w) = 0
  BY <1>4 DEF Serving, ServingLabels
<1>7. pc[Main] \notin HoldingLabels /\ Closed = {}
  BY <1>0, <1>4 DEF HoldingLabels, Closed
<1>8. OnePlace
  <2>1. OnePlaceOf(<<>>, [w \in Workers |-> Serving(w)], pc[Main] \in HoldingLabels, 0, {})
    BY <1>6, <1>7 DEF OnePlaceOf
  <2> QED BY <1>0, <1>3, <1>7, <2>1 DEF OnePlace
<1>9. /\ \A w \in Workers : pc[w] \notin ComposedLabels /\ pc[w] # "signalCond3"
      /\ \A c : ~ Composing(c) /\ ~ Closing(c)
  BY <1>4 DEF Composing, Closing, ComposedLabels
<1>10. InTurn
  <2>1. \A c \in Clients : Pushed[c] = 0
    BY <1>0, <1>9 DEF Pushed
  <2>2. Numbered(<<>>, Pushed)
    BY <2>1 DEF Numbered
  <2> QED BY <1>5, <1>9, <2>2 DEF InTurn
<1>11. EndsLast
  BY <1>5, <1>7, <1>9 DEF EndsLast
<1> QED BY <1>0, <1>2, <1>8, <1>10, <1>11 DEF QueueInv, EndInv

LEMMA AlwaysQueueInv == Spec => []QueueInv
<1>1. Init => QueueInv
  BY InitQueueInv
<1>2. QueueInv /\ [Next]_vars => QueueInv'
  BY NextQueueInv
<1> QED BY <1>1, <1>2, PTL DEF Spec

-----------------------------------------------------------------------------
(***************************************************************************)
(* The theorems.                                                           *)
(***************************************************************************)
LEMMA ListsAreIntact == TypeInv /\ Lists => QueuesIntact
<1> SUFFICES ASSUME Lists PROVE QueuesIntact
  OBVIOUS
<1>1. ASSUME NEW q, IsList(heap, q, Chain(heap, q))
      PROVE  ~ Cyclic(heap, q) /\ q.queue_size = Cardinality(Linked(heap, q))
  <2> DEFINE s == Chain(heap, q)
  <2>1. IsList(heap, q, s)
    BY <1>1
  <2>2. ~ Cyclic(heap, q) /\ Linked(heap, q) = Nodes(s) /\ q.queue_size = Len(s)
    <3> HIDE DEF s
    <3>1. ~ Cyclic(heap, q) /\ Linked(heap, q) = Nodes(s)
      BY <2>1, ListOperators
    <3>2. q.queue_size = Len(s)
      BY <2>1 DEF IsList
    <3> QED BY <3>1, <3>2
  <2>3. Cardinality(Nodes(s)) = Len(s)
    <3> HIDE DEF s
    <3> QED BY <2>1, NodesCounted
  <2> QED BY <2>2, <2>3
<1> QED BY <1>1 DEF Lists, TwoLists, QueuesIntact

\* The lists that push and pop maintain are what the queues' sizes say, share
\* no node and hold no freed one but at a front (lines 390-423), until malloc
\* hands out a node that is still in use.
THEOREM ListsIntact == Spec => []QueuesIntact
<1>1. QueueInv => QueuesIntact
  BY ListsAreIntact DEF QueueInv, QueuesIntact
<1> QED BY <1>1, AlwaysQueueInv, PTL

LEMMA OnePlaceIsEnough == TypeInv /\ OnePlace => OnePlacePerClient
<1> SUFFICES ASSUME TypeInv, OnePlace, NEW c \in 1 .. accepted
    PROVE  Cardinality({<<"queued", i>> : i \in {j \in DOMAIN JobSockets : JobSockets[j] = c}}
             \cup {<<"served", w>> : w \in {v \in Workers : Serving(v) = c}}
             \cup {<<"closed", d>> : d \in {c} \cap {e \in Clients : conn[e] = "closed"}}
             \cup {<<"main", d>> : d \in {c} \cap {accepted} \cap
                     {e \in Clients : pc[Main] \in HoldingLabels}}) = 1
  BY DEF OnePlacePerClient
<1> DEFINE queued == {j \in DOMAIN JobSockets : JobSockets[j] = c}
           served == {v \in Workers : Serving(v) = c}
           closed == {c} \cap {e \in Clients : conn[e] = "closed"}
           main   == {c} \cap {accepted} \cap {e \in Clients : pc[Main] \in HoldingLabels}
           places == {<<"queued", i>> : i \in queued} \cup {<<"served", w>> : w \in served}
                       \cup {<<"closed", d>> : d \in closed} \cup {<<"main", d>> : d \in main}
           srv == [w \in Workers |-> Serving(w)]
<1>1. OnePlaceOf(JobSockets, srv, pc[Main] \in HoldingLabels, accepted, Closed)
  BY DEF OnePlace
<1>2. /\ JobSockets \in Seq(1 .. accepted) /\ DOMAIN JobSockets = 1 .. Len(JobSockets)
      /\ c # 0 /\ c \in Clients
  BY <1>1, BoundsAssumption DEF OnePlaceOf, TypeInv, TypeOK, Clients
<1>3. /\ queued = {j \in 1 .. Len(JobSockets) : JobSockets[j] = c}
      /\ served = {v \in Workers : srv[v] = c}
      /\ closed = {c} \cap Closed
      /\ c \in main <=> pc[Main] \in HoldingLabels /\ c = accepted
      /\ main \subseteq {c} /\ closed \subseteq {c}
  BY <1>2 DEF Closed
<1> HIDE DEF srv
<1>4. /\ \A i, j \in queued : i = j
      /\ \A v, w \in served : v = w
      /\ queued # {} => served = {} /\ c \notin closed /\ c \notin main
      /\ served # {} => c \notin closed /\ c \notin main
      /\ c \in closed => c \notin main
      /\ queued # {} \/ served # {} \/ c \in closed \/ c \in main
  BY <1>1, <1>2, <1>3 DEF OnePlaceOf
<1> HIDE DEF queued, served, closed, main
<1>5. \E x : places = {x}
  <2>1. CASE queued # {}
    <3>1. PICK i : queued = {i}
      BY <1>4, <2>1
    <3>2. served = {} /\ closed = {} /\ main = {}
      BY <1>3, <1>4, <2>1
    <3>3. places = {<<"queued", i>>}
      BY <3>1, <3>2
    <3> QED BY <3>3
  <2>2. CASE served # {}
    <3>1. PICK w : served = {w}
      BY <1>4, <2>2
    <3>2. queued = {} /\ closed = {} /\ main = {}
      BY <1>3, <1>4, <2>2
    <3>3. places = {<<"served", w>>}
      BY <3>1, <3>2
    <3> QED BY <3>3
  <2>3. CASE c \in closed
    <3>1. queued = {} /\ served = {} /\ closed = {c} /\ main = {}
      BY <1>3, <1>4, <2>3
    <3>2. places = {<<"closed", c>>}
      BY <3>1
    <3> QED BY <3>2
  <2>4. CASE c \in main
    <3>1. queued = {} /\ served = {} /\ closed = {} /\ main = {c}
      BY <1>3, <1>4, <2>4
    <3>2. places = {<<"main", c>>}
      BY <3>1
    <3> QED BY <3>2
  <2> QED BY <1>4, <2>1, <2>2, <2>3, <2>4
<1>6. Cardinality(places) = 1
  <2> HIDE DEF places
  <2> QED BY <1>5, FS_Singleton
<1> QED BY <1>6 DEF queued, served, closed, main

\* No connection is forgotten and none is served twice, whatever the threads
\* do between accept (line 208) and close (line 537).
THEOREM ConnectionsInOnePlace == Spec => []OnePlacePerClient
<1>1. QueueInv => OnePlacePerClient
  BY OnePlaceIsEnough DEF QueueInv, OnePlacePerClient
<1> QED BY <1>1, AlwaysQueueInv, PTL

\* At most one worker has an entry of a client that it composed and not pushed.
LEMMA OneComposer ==
  ASSUME TypeInv, OnePlace, NEW c \in Clients
  PROVE  WithWorker(c) = IF Composing(c) THEN 1 ELSE 0
<1> DEFINE S == {w \in Workers : pc[w] \in ComposedLabels /\ client_socket[w] = c}
<1>1. WithWorker(c) = Cardinality(S)
  BY DEF WithWorker, ComposedLabels
<1>2. \A v, w \in S : v = w
  BY ServedAlone, ComposedServes
<1>3. Composing(c) <=> S # {}
  BY DEF Composing
<1> HIDE DEF S
<1>4. CASE S = {}
  BY <1>1, <1>3, <1>4, FS_EmptySet
<1>5. CASE S # {}
  <2>1. PICK w : S = {w}
    BY <1>2, <1>5
  <2> QED BY <1>1, <1>3, <1>5, <2>1, FS_Singleton
<1> QED BY <1>4, <1>5

LEMMA TurnIsOrder ==
  ASSUME TypeInv, OnePlace, InTurn, NEW c \in Clients
  PROVE  InOrder(c)
<1> DEFINE n == sent[c] - WithWorker(c)
           k == Len(Entries)
<1>1. n = Pushed[c]
  BY OneComposer DEF Pushed
<1>2. /\ Entries \in Seq(Word)
      /\ \A i \in 1 .. k : Entries[i].no \in 1 .. Pushed[Entries[i].client]
      /\ \A m \in 1 .. Pushed[c] : \E i \in 1 .. k : Entries[i].client = c /\ Entries[i].no = m
      /\ \A i, j \in 1 .. k : Entries[i].client = Entries[j].client /\ i < j => Entries[i].no < Entries[j].no
  BY DEF InTurn, Numbered
<1>3. PlacesOf(c) = {i \in 1 .. k : Entries[i].client = c}
  BY <1>2 DEF PlacesOf
<1>4. {Entries[i].no : i \in PlacesOf(c)} = 1 .. n
  <2> HIDE DEF n, k
  <2>1. \A i \in PlacesOf(c) : Entries[i].no \in 1 .. n
    BY <1>1, <1>2, <1>3
  <2>2. ASSUME NEW m \in 1 .. n PROVE \E i \in PlacesOf(c) : Entries[i].no = m
    BY <1>1, <1>2, <1>3
  <2> QED BY <2>1, <2>2
<1>5. \A i, j \in PlacesOf(c) : i < j => Entries[i].no < Entries[j].no
  BY <1>2, <1>3
<1> QED BY <1>4, <1>5 DEF InOrder

\* The log of each client is complete and in order, whatever the workers and
\* the log thread do between composing an entry and writing it (lines 511-661),
\* and the terminator's entry is the last one (line 529).
THEOREM EntriesInOrder == Spec => []LogKeepsOrder
<1>1. QueueInv /\ EndInv => LogKeepsOrder
  <2> SUFFICES ASSUME TypeInv, OnePlace, InTurn, EndsLast, NEW c \in Clients
               PROVE  /\ InOrder(c)
                      /\ \A i \in PlacesOf(c) : Entries[i].last => Entries[i].no = sent[c]
                      /\ conn[c] = "closed" => \E i \in PlacesOf(c) : Entries[i].last
    BY DEF QueueInv, EndInv, LogKeepsOrder
  <2>1. InOrder(c)
    BY TurnIsOrder
  <2>2. PlacesOf(c) = {i \in 1 .. Len(Entries) : Entries[i].client = c}
    BY DEF PlacesOf, InTurn, Numbered
  <2>3. conn[c] = "closed" => c \in Closed
    BY DEF Closed
  <2> QED BY <2>1, <2>2, <2>3 DEF EndsLast
<1>2. Init => QueueInv /\ EndInv
  BY InitQueueInv
<1>3. QueueInv /\ EndInv /\ [Next]_vars => (QueueInv /\ EndInv)'
  BY NextQueueInv, NextEndInv
<1> QED BY <1>1, <1>2, <1>3, PTL DEF Spec

LEMMA StepIsFifo ==
  ASSUME QueueInv, [Next]_vars
  PROVE  [JobQueue!Next]_(JobQueue!vars)
<1>1. recycled \in BOOLEAN /\ recycled' \in BOOLEAN
  BY NextTypeInv DEF QueueInv, TypeInv, TypeOK
<1>2. recycled => recycled'
  BY NextRecycles DEF Recycles
<1>3. CASE recycled
  BY <1>1, <1>2, <1>3 DEF JobQueue!vars
<1>4. CASE ~ recycled /\ recycled'
  <2>1. JobQueue!Break
    BY <1>4 DEF JobQueue!Break
  <2> QED BY <2>1 DEF JobQueue!Next
<1>5. CASE ~ recycled /\ ~ recycled'
  <2>1. JobsMove
    BY <1>5, NextSteps DEF QueueInv
  <2>2. CASE JobSockets' = JobSockets
    BY <1>1, <1>5, <2>2 DEF JobQueue!vars
  <2>3. ASSUME NEW c \in Clients, JobSockets' = Append(JobSockets, c)
        PROVE  [JobQueue!Next]_(JobQueue!vars)
    <3>1. JobQueue!Put(c)
      BY <1>1, <1>5, <2>3 DEF JobQueue!Put
    <3> QED BY <3>1 DEF JobQueue!Next
  <2>4. CASE JobSockets # <<>> /\ JobSockets' = Tail(JobSockets)
    <3>1. JobQueue!Take
      BY <1>1, <1>5, <2>4 DEF JobQueue!Take
    <3> QED BY <3>1 DEF JobQueue!Next
  <2> QED BY <2>1, <2>2, <2>3, <2>4 DEF JobsMove
<1> QED BY <1>3, <1>4, <1>5

\* The job queue implements Fifo: a push (line 230) puts the connection last, a
\* pop (line 463) takes the first, no other step of any thread changes what is
\* waiting, and only memory handed out twice breaks it.
THEOREM ImplementsFifo == Spec => JobQueueIsFifo
<1>1. Init => JobQueue!Init
  <2> SUFFICES ASSUME Init PROVE JobQueue!Init
    OBVIOUS
  <2>1. QueueInv /\ ~ recycled /\ job_queue = create_queue
    BY InitQueueInv DEF Init
  <2>2. IsList(heap, create_queue, <<>>)
    BY EmptyList
  <2>3. Chain(heap, create_queue) = <<>>
    BY <2>2, ChainIsList
  <2>4. JobSockets = <<>>
    BY <2>1, <2>3 DEF JobSockets
  <2> QED BY <2>1, <2>4 DEF JobQueue!Init
<1>2. Spec => [][JobQueue!Next]_(JobQueue!vars)
  BY AlwaysQueueInv, StepIsFifo, PTL DEF Spec
<1> QED BY <1>1, <1>2, PTL DEF Spec, JobQueueIsFifo, JobQueue!Spec
=============================================================================
