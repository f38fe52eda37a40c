----------------------------- MODULE ShellProofs -----------------------------
(***************************************************************************)
(* What Shell owes its children, its descriptors and its lines, for every  *)
(* set of scripts and programs, every number of processes, descriptors and *)
(* failing forks, typed or as a batch.                                     *)
(***************************************************************************)
EXTENDS Shell, FiniteSetTheorems, WellFoundedInduction, TLAPS

-----------------------------------------------------------------------------
(***************************************************************************)
(* The lowest descriptor, the first free slot, a name for a pipe.          *)
(***************************************************************************)

\* A set of natural numbers with a member has a least one.
LEMMA LeastIsLeast ==
  ASSUME NEW S, S \subseteq Nat, S # {}
  PROVE  LeastOf(S) \in S /\ \A y \in S : LeastOf(S) <= y
<1> DEFINE R == OpToRel(<, Nat)
<1>1. IsWellFoundedOn(R, Nat)
  BY NatLessThanWellFounded
<1>2. PICK m \in S : \A n \in S : ~ (<<n, m>> \in R)
  <2> HIDE DEF R
  <2> QED BY <1>1, WFMin
<1>3. \A n \in S : ~ (n < m)
  BY <1>2 DEF OpToRel
<1>4. \A n \in S : m <= n
  BY <1>3
<1> QED BY <1>2, <1>4 DEF LeastOf

LEMMA ProcessSet ==
  /\ IsFiniteSet(Processes)
  /\ Cardinality(Processes) = MaxProcesses + 1
  /\ First \in Processes
  /\ NoParent \notin Processes
  /\ Processes \subseteq Nat
<1>1. 0 \in Int /\ MaxProcesses \in Int
  BY SizesAssumption
<1>2. /\ IsFiniteSet(0 .. MaxProcesses)
      /\ Cardinality(0 .. MaxProcesses) = IF 0 > MaxProcesses THEN 0 ELSE MaxProcesses - 0 + 1
  BY ONLY <1>1, FS_Interval
<1> QED BY <1>2, SizesAssumption DEF Processes, First, NoParent

LEMMA DescriptorSet ==
  /\ IsFiniteSet(Descriptors)
  /\ Cardinality(Descriptors) = MaxDescriptor + 1
  /\ Descriptors \subseteq Nat
  /\ {0, 1, 2, 3} \subseteq Descriptors
<1>1. 0 \in Int /\ MaxDescriptor \in Int
  BY SizesAssumption
<1>2. /\ IsFiniteSet(0 .. MaxDescriptor)
      /\ Cardinality(0 .. MaxDescriptor) = IF 0 > MaxDescriptor THEN 0 ELSE MaxDescriptor - 0 + 1
  BY ONLY <1>1, FS_Interval
<1> QED BY <1>2, SizesAssumption, RoomForBatchFile DEF Descriptors

\* Any set of descriptors is finite.
LEMMA DescriptorsFinite ==
  ASSUME NEW S, S \subseteq Descriptors
  PROVE  IsFiniteSet(S) /\ Cardinality(S) \in Nat
<1>1. IsFiniteSet(S)
  BY DescriptorSet, FS_Subset
<1> QED BY <1>1, FS_CardinalityType

LEMMA ProcessesFinite ==
  ASSUME NEW S, S \subseteq Processes
  PROVE  IsFiniteSet(S) /\ Cardinality(S) \in Nat
<1>1. IsFiniteSet(S)
  BY ProcessSet, FS_Subset
<1> QED BY <1>1, FS_CardinalityType

LEMMA FreeSlotIsFree ==
  ASSUME FreeSlots # {}
  PROVE  LeastOf(FreeSlots) \in FreeSlots
BY LeastIsLeast, ProcessSet DEF FreeSlots

LEMMA FreeDescriptorIsFree ==
  ASSUME NEW fds, FreeDescriptors(fds) # {}
  PROVE  FreeDescriptor(fds) \in FreeDescriptors(fds)
BY LeastIsLeast, DescriptorSet DEF FreeDescriptor, FreeDescriptors

-----------------------------------------------------------------------------
(***************************************************************************)
(* One process.                                                            *)
(***************************************************************************)
Labels == {"free"} \cup ShellLabels \cup ChildLabels

\* The records a process may be while the shell works on script s.
Records(s) ==
  [pc : Labels, parent : Processes \cup {NoParent}, line : 0 .. Len(s),
   side : {"none", "left", "right"}, fds : [Descriptors -> FdTypes],
   rd : Descriptors, wr : Descriptors, next : 1 .. Len(s) + 1, last : 0 .. Len(s),
   owed : Nat, leaks : Nat]

ProcessTypes == script \in Scripts /\ process \in [Processes -> Records(script)]

LEMMA ScriptLength ==
  ASSUME NEW s \in Scripts
  PROVE  Len(s) \in Nat /\ DOMAIN s = 1 .. Len(s)
BY ScriptsAssumption

\* There is a name left for a new pipe: a descriptor is free, and there are as
\* many names as descriptors.
LEMMA PipeHasName ==
  ASSUME ProcessTypes, NEW p \in Processes, FreeDescriptors(process[p].fds) # {}
  PROVE  LeastOf(Pipes \ PipesInUse) \in Pipes
<1> DEFINE Places == Processes \X Descriptors
           f == [x \in Places |-> process[x[1]].fds[x[2]].pipe]
<1>1. IsFiniteSet(Places) /\ Cardinality(Places) = (MaxProcesses + 1) * (MaxDescriptor + 1)
  BY ProcessSet, DescriptorSet, FS_Product
<1>2. f \in Surjection(Places, PipesInUse)
  <2>1. ASSUME NEW x \in Places PROVE f[x] \in PipesInUse
    <3>1. x[1] \in Processes /\ x[2] \in Descriptors
      OBVIOUS
    <3>2. process[x[1]].fds[x[2]].pipe \in PipesInUse
      BY <3>1 DEF PipesInUse
    <3> QED BY <3>2
  <2>2. ASSUME NEW t \in PipesInUse PROVE \E x \in Places : f[x] = t
    <3>1. PICK q \in Processes, d \in Descriptors : t = process[q].fds[d].pipe
      BY DEF PipesInUse
    <3>2. <<q, d>> \in Places /\ f[<<q, d>>] = t
      BY <3>1
    <3> QED BY <3>2
  <2>3. f \in [Places -> PipesInUse]
    BY <2>1
  <2> HIDE DEF f, Places
  <2> QED BY <2>2, <2>3 DEF Surjection
<1>3. IsFiniteSet(PipesInUse) /\ Cardinality(PipesInUse) <= Cardinality(Places)
  <2> HIDE DEF f, Places
  <2> QED BY <1>1, <1>2, FS_Surjection
<1>4. 0 \in PipesInUse
  <2>1. PICK d \in Descriptors : process[p].fds[d] = Closed
    BY DEF FreeDescriptors
  <2>2. process[p].fds[d].pipe = 0
    BY <2>1 DEF Closed, Other
  <2> QED BY <2>2 DEF PipesInUse
<1> DEFINE n == (MaxProcesses + 1) * (MaxDescriptor + 1)
<1>5. n \in Nat
  BY SizesAssumption
<1>6. Pipes \ PipesInUse # {}
  <2> SUFFICES ASSUME Pipes \subseteq PipesInUse PROVE FALSE
    OBVIOUS
  <2>1. 0 .. n \subseteq PipesInUse
    <3> HIDE DEF n
    <3> Pipes = 1 .. n
      BY DEF Pipes, n
    <3> QED BY <1>4, <1>5
  <2>2. Cardinality(0 .. n) = n + 1
    <3> HIDE DEF n
    <3>1. 0 \in Int /\ n \in Int
      BY <1>5
    <3>2. Cardinality(0 .. n) = IF 0 > n THEN 0 ELSE n - 0 + 1
      BY ONLY <3>1, FS_Interval
    <3> QED BY <1>5, <3>2
  <2>3. Cardinality(0 .. n) <= Cardinality(PipesInUse)
    <3> HIDE DEF n
    <3> QED BY <1>3, <2>1, FS_Subset
  <2>4. Cardinality(PipesInUse) \in Nat /\ Cardinality(Places) = n
    BY <1>1, <1>3, FS_CardinalityType
  <2> HIDE DEF n, Places
  <2> QED BY <1>3, <1>5, <2>2, <2>3, <2>4
<1>7. Pipes \subseteq Nat
  BY <1>5 DEF Pipes
<1> QED BY <1>6, <1>7, LeastIsLeast

-----------------------------------------------------------------------------
(***************************************************************************)
(* The inductive invariant.                                                *)
(***************************************************************************)
\* Both ends of a pipe, away from the input and output of commands.
HasPipe(r) ==
  /\ r.rd \notin {0, 1} /\ r.wr \notin {0, 1} /\ r.rd # r.wr
  /\ r.fds[r.rd].kind = "read" /\ r.fds[r.wr].kind = "write"

Intact(r) == r.fds[0] # Closed /\ r.fds[1] # Closed

InPipe(r) == r.pc = "exec" /\ r.side # "none"

\* A shell that this module follows.
Shells == ShellLabels \ {"lost"}

\* What RedirectionsHold says of one process.
Redirected(s, r) ==
  LET command == Parsed[s[r.line]]
      stdin == r.fds[0].kind
      stdout == r.fds[1].kind
  IN  /\ r.pc \in {"exec", "run"} /\ r.side = "none"
      /\ ~command.isBg /\ (command.hasInput \/ command.hasOutput)
      => /\ command.hasInput => stdin \in {"input", "closed"}
         /\ command.hasOutput => stdout \in {"output", "closed"}
         /\ command.hasInput /\ command.hasOutput => stdin = "input" /\ stdout = "output"

\* What each process knows: a copy of the shell owes nobody, input and output are
\* open until redirections are done, and the ends of a pipe are at hand from
\* pipe() until they are closed.
Sound(s, r) ==
  /\ r.pc = "free" => r = Free
  /\ r.pc \notin ShellLabels => r.owed = 0
  /\ r.pc = "redirect" => r.side = "none"
  /\ r.pc \in Shells \cup {"redirect"} \/ InPipe(r) => Intact(r)
  /\ r.pc = "forkRight" \/ InPipe(r) => HasPipe(r)
  /\ r.pc = "wait" => HasPipe(r) \/ (r.rd = 0 /\ r.wr = 0)
  /\ r.pc \in Shells \ {"forkRight", "wait"} => r.rd = 0 /\ r.wr = 0
  /\ Redirected(s, r)

Parents ==
  \A p \in Processes :
    process[p].parent # NoParent =>
      process[p].parent # p /\ process[process[p].parent].pc \in ShellLabels

\* The child that the shell is going to wait for.
Awaited(r) == IF r.pc \in {"wait", "forkRight"} THEN 1 ELSE 0

Reaping ==
  \A p \in Processes :
    process[p].pc \in ShellLabels =>
      Cardinality(ChildrenOf(p)) = process[p].owed + Awaited(process[p])

\* Pipe ends of a shell: of the pipes it left open and the one it is working with.
Ends(r) ==
  2 * r.leaks + (IF r.pc = "forkRight" \/ (r.pc = "wait" /\ r.rd # 0) THEN 2 ELSE 0)

\* The first shell is nobody's child.
FirstIsFirst ==
  /\ process[First].parent = NoParent
  /\ process[First].pc \in {"free"} \cup ShellLabels
  /\ Cardinality(PipeEnds(process[First].fds)) = Ends(process[First])

ProcessInv ==
  /\ ProcessTypes
  /\ \A p \in Processes : Sound(script, process[p])
  /\ Parents
  /\ Reaping
  /\ FirstIsFirst

OtherTypes ==
  /\ batch \in BOOLEAN
  /\ offset \in 0 .. Len(script)
  /\ reads \in 0 .. MaxReads
  /\ forkFailures \in 0 .. MaxForkFailures
  /\ executed \in [DOMAIN script -> Nat]
  /\ copies \in Nat
  /\ rewound \in BOOLEAN

\* Shells that will work on line k, as it is in their buffer.
Readers(k) ==
  {p \in Processes :
     process[p].pc \in Shells /\ process[p].next <= k /\ k <= process[p].last}

\* How often a line has been worked on, and will be if nothing happens to the
\* shells that have it: in a batch nobody has any line before the file is read.
LinesInv ==
  ~rewound =>
    /\ batch =>
         /\ offset < Len(script) =>
              /\ \A k \in DOMAIN script : executed[k] = 0
              /\ \A p \in Processes : process[p].next > process[p].last
         /\ \A k \in DOMAIN script : executed[k] + Cardinality(Readers(k)) <= 1 + copies
    /\ ~batch =>
         \A k \in DOMAIN script : executed[k] <= (IF k <= offset THEN 1 ELSE 0)

ShellInv == OtherTypes /\ ProcessInv /\ LinesInv

LEMMA FdTypesHold ==
  /\ \A kind \in {"closed", "tty", "batch", "input", "output"} : Other(kind) \in FdTypes
  /\ \A k \in Pipes : ReadEnd(k) \in FdTypes /\ WriteEnd(k) \in FdTypes
  /\ Closed \in FdTypes /\ Tty \in FdTypes
BY DEF FdTypes, Closed, Tty

LEMMA FreeIsRecord ==
  ASSUME NEW s \in Scripts
  PROVE  Free \in Records(s) /\ Sound(s, Free)
<1>1. Free.fds \in [Descriptors -> FdTypes]
  BY FdTypesHold DEF Free
<1>2. Free \in Records(s)
  BY <1>1, ScriptLength, DescriptorSet DEF Free, Records, Labels
<1>3. Sound(s, Free)
  BY DEF Sound, Free, Shells, ShellLabels, InPipe, Redirected
<1> QED BY <1>2, <1>3

\* Only a shell has children.
LEMMA Childless ==
  ASSUME ProcessInv, NEW p \in Processes, process[p].pc \notin ShellLabels
  PROVE  ChildrenOf(p) = {} /\ Cardinality(ChildrenOf(p)) = 0 /\ process[p].owed = 0
<1>1. ChildrenOf(p) = {}
  BY ProcessSet DEF ProcessInv, Parents, ChildrenOf
<1>2. process[p].owed = 0
  BY DEF ProcessInv, Sound
<1> QED BY <1>1, <1>2, FS_EmptySet

\* What a process counts besides its children: nothing, unless it is a shell.
LEMMA ChildCount ==
  ASSUME ProcessInv, NEW p \in Processes
  PROVE  Cardinality(ChildrenOf(p)) = process[p].owed + Awaited(process[p])
<1>1. CASE process[p].pc \in ShellLabels
  BY <1>1 DEF ProcessInv, Reaping
<1>2. CASE process[p].pc \notin ShellLabels
  BY <1>2, Childless DEF Awaited, ShellLabels
<1> QED BY <1>1, <1>2

(***************************************************************************)
(* A step of one process that neither forks nor ends.                      *)
(***************************************************************************)
LEMMA LocalStep ==
  ASSUME ProcessInv, script' = script,
         NEW p \in Processes, NEW r \in Records(script), Sound(script, r),
         process' = [process EXCEPT ![p] = r],
         process[p].pc # "free", r.parent = process[p].parent,
         process[p].pc \in ShellLabels => r.pc \in ShellLabels,
         r.owed + Awaited(r) = process[p].owed + Awaited(process[p]),
         p = First => Cardinality(PipeEnds(r.fds)) = Ends(r)
  PROVE  ProcessInv'
<1> USE DEF ProcessInv
<1>1. /\ process'[p] = r
      /\ \A q \in Processes : q # p => process'[q] = process[q]
  BY DEF ProcessTypes
<1>2. ProcessTypes'
  BY DEF ProcessTypes
<1>3. \A q \in Processes : Sound(script, process[q])'
  BY <1>1
<1>4. \A q \in Processes : process'[q].parent = process[q].parent
  BY <1>1
<1>5. Parents'
  <2> SUFFICES ASSUME NEW q \in Processes, process[q].parent # NoParent
               PROVE  process[q].parent # q /\ process'[process[q].parent].pc \in ShellLabels
    BY <1>4 DEF Parents
  <2>1. /\ process[q].parent \in Processes /\ process[q].parent # q
        /\ process[process[q].parent].pc \in ShellLabels
    BY DEF ProcessTypes, Records, Parents
  <2> QED BY <1>1, <2>1
<1>6. \A q : ChildrenOf(q)' = ChildrenOf(q)
  BY <1>4 DEF ChildrenOf
<1>7. Reaping'
  <2> SUFFICES ASSUME NEW q \in Processes
               PROVE  Cardinality(ChildrenOf(q)) = process'[q].owed + Awaited(process'[q])
    BY <1>6 DEF Reaping, Awaited
  <2> QED BY <1>1, ChildCount
<1>8. FirstIsFirst'
  <2>1. CASE p = First
    BY <1>1, <2>1 DEF FirstIsFirst, PipeEnds, Ends
  <2>2. CASE p # First
    BY <1>1, <2>2, ProcessSet DEF FirstIsFirst, PipeEnds, Ends
  <2> QED BY <2>1, <2>2
<1> QED BY <1>2, <1>3, <1>5, <1>7, <1>8

(***************************************************************************)
(* The end of a process.                                                   *)
(***************************************************************************)
Remains(p) ==
  IF process[p].parent = NoParent THEN Free
  ELSE [Free EXCEPT !.pc = "zombie", !.parent = process[p].parent]

LEMMA RemainsSound ==
  ASSUME ProcessInv, NEW p \in Processes
  PROVE  /\ Remains(p) \in Records(script) /\ Sound(script, Remains(p))
         /\ Remains(p).pc \notin ShellLabels
         /\ Remains(p).parent = process[p].parent
<1>1. Free \in Records(script) /\ Sound(script, Free)
  BY FreeIsRecord DEF ProcessInv, ProcessTypes
<1>2. CASE process[p].parent = NoParent
  BY <1>1, <1>2 DEF Remains, Free, ShellLabels
<1>3. CASE process[p].parent # NoParent
  <2> DEFINE r == [Free EXCEPT !.pc = "zombie", !.parent = process[p].parent]
  <2>1. Remains(p) = r
    BY <1>3 DEF Remains
  <2>2. process[p].parent \in Processes
    BY <1>3 DEF ProcessInv, ProcessTypes, Records
  <2>3. r \in Records(script)
    BY <1>1, <2>2 DEF Records, Labels, ChildLabels
  <2>4. r.pc = "zombie" /\ r.parent = process[p].parent /\ r.owed = 0
    BY DEF Free
  <2>5. Sound(script, r)
    BY <2>4 DEF Sound, Shells, ShellLabels, InPipe, Redirected
  <2> QED BY <2>1, <2>3, <2>4, <2>5 DEF ShellLabels
<1> QED BY <1>2, <1>3

LEMMA EndStep ==
  ASSUME ProcessInv, script' = script,
         NEW p \in Processes, process[p].pc # "free", process' = AfterEndOf(p)
  PROVE  ProcessInv'
<1> USE DEF ProcessInv
<1>0. script \in Scripts /\ Free \in Records(script) /\ Sound(script, Free)
  BY FreeIsRecord DEF ProcessTypes
<1>1. /\ process'[p] = Remains(p)
      /\ \A q \in Processes :
           /\ q # p /\ process[q].parent # p => process'[q] = process[q]
           /\ q # p /\ process[q].parent = p =>
                process'[q] = IF process[q].pc = "zombie" THEN Free
                              ELSE [process[q] EXCEPT !.parent = NoParent]
  BY DEF AfterEndOf, Remains, At
<1>2. ASSUME NEW q \in Processes
      PROVE  /\ process'[q] \in Records(script) /\ Sound(script, process'[q])
             /\ q # p => process'[q].parent = IF process[q].parent = p THEN NoParent ELSE process[q].parent
             /\ process'[q].pc \in ShellLabels =>
                  /\ q # p /\ process'[q].pc = process[q].pc
                  /\ process'[q].owed = process[q].owed
             /\ q # p /\ process[q].pc \in ShellLabels => process'[q].pc \in ShellLabels
  <2>1. CASE q = p
    BY <1>1, <2>1, RemainsSound
  <2>2. CASE q # p /\ process[q].parent # p
    BY <1>1, <2>2 DEF ProcessTypes
  <2>3. CASE q # p /\ process[q].parent = p /\ process[q].pc = "zombie"
    <3>1. process'[q] = Free
      BY <1>1, <2>3
    <3>2. Free.pc = "free" /\ Free.parent = NoParent
      BY DEF Free
    <3> HIDE DEF ProcessInv
    <3> QED BY <1>0, <2>3, <3>1, <3>2 DEF ShellLabels
  <2>4. CASE q # p /\ process[q].parent = p /\ process[q].pc # "zombie"
    <3> DEFINE r == [process[q] EXCEPT !.parent = NoParent]
    <3>1. process'[q] = r
      BY <1>1, <2>4
    <3>2. process[q] \in Records(script) /\ Sound(script, process[q])
      BY DEF ProcessTypes
    <3>3. /\ r \in Records(script) /\ r.parent = NoParent /\ r.pc = process[q].pc /\ r.owed = process[q].owed
          /\ r.fds = process[q].fds /\ r.rd = process[q].rd /\ r.wr = process[q].wr
          /\ r.side = process[q].side /\ r.line = process[q].line
      BY <3>2 DEF Records
    <3>4. process[q].pc # "free"
      <4>1. process[q] = Free => process[q].parent = NoParent
        BY DEF Free
      <4> QED BY <2>4, <3>2, <4>1, ProcessSet DEF Sound
    <3>5. Sound(script, r)
      <4> HIDE DEF r
      <4> QED BY <3>2, <3>3, <3>4 DEF Sound, Intact, HasPipe, InPipe, Redirected
    <3> QED BY <2>4, <3>1, <3>3, <3>5
  <2> QED BY <2>1, <2>2, <2>3, <2>4
<1>3. ProcessTypes'
  <2>1. process' = [q \in Processes |-> process'[q]]
    BY DEF AfterEndOf
  <2> QED BY <1>0, <1>2, <2>1 DEF ProcessTypes
<1>4. (\A q \in Processes : Sound(script, process[q]))'
  BY <1>2
<1>5. process'[p].parent = process[p].parent /\ process'[p].pc \notin ShellLabels
  BY <1>1, RemainsSound
<1>6. process[p].parent # p
  BY ProcessSet DEF Parents
<1>7. Parents'
  <2> SUFFICES ASSUME NEW q \in Processes, process'[q].parent # NoParent
               PROVE  /\ process'[q].parent # q
                      /\ process'[process'[q].parent].pc \in ShellLabels
    BY DEF Parents
  <2>1. process'[q].parent = process[q].parent /\ process[q].parent # p
    BY <1>2, <1>5, <1>6
  <2>2. /\ process[q].parent # q /\ process[q].parent \in Processes
        /\ process[process[q].parent].pc \in ShellLabels
    BY <2>1 DEF Parents, ProcessTypes, Records
  <2> QED BY <1>2, <2>1, <2>2
<1>8. Reaping'
  <2> SUFFICES ASSUME NEW q \in Processes, process'[q].pc \in ShellLabels
               PROVE  Cardinality(ChildrenOf(q)') = process'[q].owed + Awaited(process'[q])
    BY DEF Reaping, Awaited
  <2>1. q # p /\ process'[q].pc = process[q].pc /\ process'[q].owed = process[q].owed
    BY <1>2
  <2>2. ChildrenOf(q)' = ChildrenOf(q)
    <3>1. ASSUME NEW c \in Processes PROVE process'[c].parent = q <=> process[c].parent = q
      BY <1>2, <1>5, <2>1, ProcessSet
    <3> QED BY <3>1 DEF ChildrenOf
  <2> QED BY <2>1, <2>2, ChildCount DEF Awaited
<1>9. FirstIsFirst'
  <2>1. CASE p = First
    <3>1. process'[First] = Free
      BY <1>1, <2>1 DEF FirstIsFirst, Remains
    <3>2. PipeEnds(Free.fds) = {} /\ Ends(Free) = 0 /\ Free.pc = "free" /\ Free.parent = NoParent
      BY DEF PipeEnds, Ends, Free, Closed, Other
    <3> QED BY <3>1, <3>2, FS_EmptySet DEF FirstIsFirst, PipeEnds, Ends
  <2>2. CASE p # First
    <3>1. process'[First] = process[First]
      BY <1>1, <2>2, ProcessSet DEF FirstIsFirst
    <3> QED BY <3>1 DEF FirstIsFirst, PipeEnds, Ends
  <2> QED BY <2>1, <2>2
<1> QED BY <1>3, <1>4, <1>7, <1>8, <1>9

(***************************************************************************)
(* A fork and a wait: a child more, a child less.                          *)
(***************************************************************************)
LEMMA ForkStep ==
  ASSUME ProcessInv, script' = script,
         NEW p \in Processes, NEW c \in FreeSlots,
         NEW child \in Records(script), Sound(script, child), child.parent = p,
         child.pc \notin ShellLabels,
         NEW r \in Records(script), Sound(script, r),
         process' = [process EXCEPT ![c] = child, ![p] = r],
         process[p].pc \in ShellLabels, r.pc \in ShellLabels, r.parent = process[p].parent,
         r.owed + Awaited(r) = process[p].owed + Awaited(process[p]) + 1,
         p = First => Cardinality(PipeEnds(r.fds)) = Ends(r)
  PROVE  ProcessInv'
<1> USE DEF ProcessInv
<1>0. /\ c \in Processes /\ c # First /\ process[c].pc = "free" /\ process[c].parent = NoParent
      /\ c # p
  <2>1. c \in Processes /\ c # First /\ process[c].pc = "free"
    BY DEF FreeSlots, At
  <2>2. process[c] = Free
    BY <2>1 DEF Sound
  <2> QED BY <2>1, <2>2 DEF Free, ShellLabels
<1>1. /\ process'[p] = r /\ process'[c] = child
      /\ \A q \in Processes : q # p /\ q # c => process'[q] = process[q]
  BY <1>0 DEF ProcessTypes
<1>2. ProcessTypes'
  BY DEF ProcessTypes
<1>3. \A q \in Processes : Sound(script, process[q])'
  BY <1>1
<1>4. /\ process'[c].parent = p
      /\ \A q \in Processes : q # c => process'[q].parent = process[q].parent
      /\ \A q \in Processes : process[q].pc \in ShellLabels => process'[q].pc \in ShellLabels
  BY <1>0, <1>1 DEF ShellLabels
<1>5. Parents'
  <2> SUFFICES ASSUME NEW q \in Processes, process'[q].parent # NoParent
               PROVE  /\ process'[q].parent # q
                      /\ process'[process'[q].parent].pc \in ShellLabels
    BY DEF Parents
  <2>1. CASE q = c
    BY <1>0, <1>1, <1>4, <2>1
  <2>2. CASE q # c
    <3>1. process'[q].parent = process[q].parent
      BY <1>4, <2>2
    <3>2. /\ process[q].parent # q /\ process[q].parent \in Processes
          /\ process[process[q].parent].pc \in ShellLabels
      BY <3>1 DEF Parents, ProcessTypes, Records
    <3> QED BY <1>4, <3>1, <3>2
  <2> QED BY <2>1, <2>2
<1>6. \A q \in Processes : q # p => ChildrenOf(q)' = ChildrenOf(q)
  <2> SUFFICES ASSUME NEW q \in Processes, q # p, NEW x \in Processes
               PROVE  process'[x].parent = q <=> process[x].parent = q
    BY DEF ChildrenOf
  <2> QED BY <1>0, <1>4, ProcessSet
<1>7. ChildrenOf(p)' = ChildrenOf(p) \cup {c} /\ c \notin ChildrenOf(p)
  BY <1>0, <1>4, ProcessSet DEF ChildrenOf
<1>8. Cardinality(ChildrenOf(p)') = Cardinality(ChildrenOf(p)) + 1
  <2>1. IsFiniteSet(ChildrenOf(p))
    BY ProcessesFinite DEF ChildrenOf
  <2> QED BY <1>7, <2>1, FS_AddElement
<1>9. Reaping'
  <2> SUFFICES ASSUME NEW q \in Processes, process'[q].pc \in ShellLabels
               PROVE  Cardinality(ChildrenOf(q)') = process'[q].owed + Awaited(process'[q])
    BY DEF Reaping, Awaited
  <2>1. CASE q = p
    BY <1>1, <1>8, <2>1, ChildCount
  <2>2. CASE q # p
    BY <1>1, <1>6, <2>2, ChildCount
  <2> QED BY <2>1, <2>2
<1>10. FirstIsFirst'
  <2>1. CASE p = First
    BY <1>1, <2>1 DEF FirstIsFirst, PipeEnds, Ends
  <2>2. CASE p # First
    BY <1>0, <1>1, <2>2, ProcessSet DEF FirstIsFirst, PipeEnds, Ends
  <2> QED BY <2>1, <2>2
<1> QED BY <1>2, <1>3, <1>5, <1>9, <1>10

LEMMA WaitStep ==
  ASSUME ProcessInv, script' = script,
         NEW p \in Processes, NEW z \in Processes, process[z].parent = p, process[z].pc = "zombie",
         NEW r \in Records(script), Sound(script, r),
         process' = [process EXCEPT ![z] = Free, ![p] = r],
         process[p].pc \in ShellLabels, r.pc \in ShellLabels, r.parent = process[p].parent,
         r.owed + Awaited(r) = (process[p].owed + Awaited(process[p])) - 1,
         p = First => Cardinality(PipeEnds(r.fds)) = Ends(r)
  PROVE  ProcessInv'
<1> USE DEF ProcessInv
<1>0. /\ z # p /\ z # First
      /\ Free \in Records(script) /\ Sound(script, Free)
      /\ Free.parent = NoParent /\ Free.pc = "free" /\ Free.owed = 0
  <2>1. Free.parent = NoParent /\ Free.pc = "free" /\ Free.owed = 0
    BY DEF Free
  <2> QED BY <2>1, FreeIsRecord, ProcessSet DEF ProcessTypes, ShellLabels, FirstIsFirst
<1>1. /\ process'[p] = r /\ process'[z] = Free
      /\ \A q \in Processes : q # p /\ q # z => process'[q] = process[q]
  BY <1>0 DEF ProcessTypes
<1>2. ProcessTypes'
  BY <1>0 DEF ProcessTypes
<1>3. \A q \in Processes : Sound(script, process[q])'
  BY <1>0, <1>1
<1>4. /\ process'[z].parent = NoParent
      /\ \A q \in Processes : q # z => process'[q].parent = process[q].parent
      /\ \A q \in Processes : process[q].pc \in ShellLabels => process'[q].pc \in ShellLabels
  BY <1>0, <1>1 DEF ShellLabels
<1>5. Parents'
  <2> SUFFICES ASSUME NEW q \in Processes, process'[q].parent # NoParent
               PROVE  /\ process'[q].parent # q
                      /\ process'[process'[q].parent].pc \in ShellLabels
    BY DEF Parents
  <2>1. process'[q].parent = process[q].parent
    BY <1>4
  <2>2. /\ process[q].parent # q /\ process[q].parent \in Processes
        /\ process[process[q].parent].pc \in ShellLabels
    BY <2>1 DEF Parents, ProcessTypes, Records
  <2> QED BY <1>4, <2>1, <2>2
<1>6. \A q \in Processes : q # p => ChildrenOf(q)' = ChildrenOf(q)
  <2> SUFFICES ASSUME NEW q \in Processes, q # p, NEW x \in Processes
               PROVE  process'[x].parent = q <=> process[x].parent = q
    BY DEF ChildrenOf
  <2> QED BY <1>4, ProcessSet
<1>7. ChildrenOf(p)' = ChildrenOf(p) \ {z} /\ z \in ChildrenOf(p)
  BY <1>4, ProcessSet DEF ChildrenOf
<1>8. Cardinality(ChildrenOf(p)') = Cardinality(ChildrenOf(p)) - 1
  <2>1. IsFiniteSet(ChildrenOf(p))
    BY ProcessesFinite DEF ChildrenOf
  <2> QED BY <1>7, <2>1, FS_RemoveElement
<1>9. Reaping'
  <2> SUFFICES ASSUME NEW q \in Processes, process'[q].pc \in ShellLabels
               PROVE  Cardinality(ChildrenOf(q)') = process'[q].owed + Awaited(process'[q])
    BY DEF Reaping, Awaited
  <2>1. CASE q = p
    <3>1. process'[q].owed + Awaited(process'[q]) = (process[p].owed + Awaited(process[p])) - 1
      BY <1>1, <2>1
    <3>2. Cardinality(ChildrenOf(p)) = process[p].owed + Awaited(process[p])
      BY ChildCount
    <3>3. Cardinality(ChildrenOf(q)') = Cardinality(ChildrenOf(p)) - 1
      BY <1>8, <2>1
    <3> QED BY ONLY <3>1, <3>2, <3>3
  <2>2. CASE q # p
    <3>1. q # z
      BY <1>0, <1>1 DEF ShellLabels
    <3> QED BY <1>1, <1>6, <2>2, <3>1, ChildCount
  <2> QED BY <2>1, <2>2
<1>10. FirstIsFirst'
  <2>1. CASE p = First
    BY <1>1, <2>1 DEF FirstIsFirst, PipeEnds, Ends
  <2>2. CASE p # First
    BY <1>0, <1>1, <2>2, ProcessSet DEF FirstIsFirst, PipeEnds, Ends
  <2> QED BY <2>1, <2>2
<1> QED BY <1>2, <1>3, <1>5, <1>9, <1>10

-----------------------------------------------------------------------------
(***************************************************************************)
(* The steps of a shell.                                                   *)
(***************************************************************************)
LEMMA Here ==
  ASSUME ProcessInv, NEW p \in Processes
  PROVE  /\ script \in Scripts /\ Len(script) \in Nat /\ DOMAIN script = 1 .. Len(script)
         /\ process[p] \in Records(script) /\ Sound(script, process[p])
BY ScriptLength DEF ProcessInv, ProcessTypes

\* A shell that keeps its descriptors, as all do but for pipes.
LEMMA ShellMoves ==
  ASSUME ProcessInv, script' = script, NEW p \in Processes,
         process[p].pc \in Shells \ {"forkRight", "wait"},
         NEW r \in Records(script), process' = [process EXCEPT ![p] = r],
         r.pc \in ShellLabels \ {"forkRight", "wait"},
         r.parent = process[p].parent, r.fds = process[p].fds, r.rd = 0, r.wr = 0,
         r.owed = process[p].owed, r.leaks = process[p].leaks
  PROVE  ProcessInv'
<1>1. Intact(process[p])
  BY Here DEF Sound
<1>2. Sound(script, r)
  BY <1>1 DEF Sound, Shells, ShellLabels, Intact, InPipe, Redirected
<1>3. Awaited(r) = 0 /\ Awaited(process[p]) = 0 /\ Ends(r) = Ends(process[p])
  BY DEF Awaited, Ends
<1>4. p = First => Cardinality(PipeEnds(r.fds)) = Ends(r)
  BY <1>3 DEF ProcessInv, FirstIsFirst
<1>5. process[p].pc # "free"
  BY DEF Shells, ShellLabels
<1> QED BY <1>2, <1>3, <1>4, <1>5, LocalStep

\* The descriptors of a pipe are set only while a shell works with one.
LEMMA NoPipeAtHand ==
  ASSUME ProcessInv, NEW p \in Processes, process[p].pc \in Shells \ {"forkRight", "wait"}
  PROVE  process[p].rd = 0 /\ process[p].wr = 0
BY Here DEF Sound

LEMMA PromptFields ==
  ASSUME NEW s \in Scripts, NEW r \in Records(s)
  PROVE  /\ Prompt(r) \in Records(s)
         /\ Prompt(r).pc = "read" /\ Prompt(r).line = 0 /\ Prompt(r).rd = 0 /\ Prompt(r).wr = 0
         /\ Prompt(r).parent = r.parent /\ Prompt(r).side = r.side /\ Prompt(r).fds = r.fds
         /\ Prompt(r).next = r.next /\ Prompt(r).last = r.last
         /\ Prompt(r).owed = r.owed /\ Prompt(r).leaks = r.leaks
<1>1. 0 \in 0 .. Len(s) /\ 0 \in Descriptors /\ "read" \in Labels
  BY ScriptLength, DescriptorSet DEF Labels, ShellLabels
<1>2. Prompt(r) \in Records(s)
  BY <1>1 DEF Prompt, Records
<1> QED BY <1>2 DEF Prompt, Records

LEMMA PromptStep ==
  ASSUME ProcessInv, script' = script, NEW p \in Processes,
         process[p].pc \in Shells \ {"forkRight", "wait"}, Become(p, Prompt(process[p]))
  PROVE  ProcessInv'
<1> DEFINE r == Prompt(process[p])
<1>1. r \in Records(script) /\ r.pc = "read" /\ r.parent = process[p].parent
      /\ r.fds = process[p].fds /\ r.rd = 0 /\ r.wr = 0
      /\ r.owed = process[p].owed /\ r.leaks = process[p].leaks
  BY Here, PromptFields
<1>2. process' = [process EXCEPT ![p] = r]
  BY DEF Become
<1>3. r.pc \in ShellLabels \ {"forkRight", "wait"}
  BY <1>1 DEF ShellLabels
<1> HIDE DEF r
<1> QED BY <1>1, <1>2, <1>3, ShellMoves

LEMMA GotoStep ==
  ASSUME ProcessInv, script' = script, NEW p \in Processes,
         process[p].pc \in Shells \ {"forkRight", "wait"},
         NEW label \in ShellLabels \ {"forkRight", "wait"}, Goto(p, label)
  PROVE  ProcessInv'
<1> DEFINE r == [process[p] EXCEPT !.pc = label]
<1>1. r \in Records(script) /\ r.pc = label /\ r.parent = process[p].parent
      /\ r.fds = process[p].fds /\ r.rd = process[p].rd /\ r.wr = process[p].wr
      /\ r.owed = process[p].owed /\ r.leaks = process[p].leaks
  BY Here DEF Records, Labels
<1>2. process' = [process EXCEPT ![p] = r]
  BY DEF Goto, Become
<1> HIDE DEF r
<1> QED BY <1>1, <1>2, NoPipeAtHand, ShellMoves

LEMMA FirstSteps ==
  ASSUME NEW k
  PROVE  FirstStep(k) \in {"read", "exit", "pipe", "fork", "builtin"}
BY DEF FirstStep, RunLabel

LEMMA StartsStep ==
  ASSUME ProcessInv, script' = script, NEW p \in Processes, process[p].pc = "read",
         NEW r \in Records(script), NEW k \in 1 .. Len(script), Starts(p, r, k),
         r.parent = process[p].parent, r.fds = process[p].fds,
         r.rd = process[p].rd, r.wr = process[p].wr,
         r.owed = process[p].owed, r.leaks = process[p].leaks
  PROVE  ProcessInv'
<1> DEFINE line == IF FirstStep(k) = "read" THEN 0 ELSE k
           n == [r EXCEPT !.pc = FirstStep(k), !.line = line]
<1>1. line \in 0 .. Len(script)
  BY Here
<1>2. FirstStep(k) \in ShellLabels \ {"forkRight", "wait"}
  BY FirstSteps DEF ShellLabels
<1>3. n \in Records(script) /\ n.pc = FirstStep(k) /\ n.parent = process[p].parent
      /\ n.fds = process[p].fds /\ n.rd = process[p].rd /\ n.wr = process[p].wr
      /\ n.owed = process[p].owed /\ n.leaks = process[p].leaks
  <2> HIDE DEF line
  <2> QED BY <1>1, <1>2 DEF Records, Labels
<1>4. process' = [process EXCEPT ![p] = n]
  BY DEF Starts, Become
<1>5. process[p].pc \in Shells \ {"forkRight", "wait"}
  BY DEF Shells, ShellLabels
<1> HIDE DEF n
<1> QED BY <1>2, <1>3, <1>4, <1>5, NoPipeAtHand, ShellMoves

LEMMA ReadLineStep ==
  ASSUME ProcessInv, NEW p \in Processes, ReadLine(p)
  PROVE  ProcessInv'
<1> DEFINE r == [process[p] EXCEPT !.next = @ + 1]
           k == process[p].next
<1>1. script' = script /\ process[p].pc = "read" /\ k <= process[p].last /\ Starts(p, r, k)
  BY DEF ReadLine, At
<1>2. k \in 1 .. Len(script)
  BY <1>1, Here DEF Records
<1>3. k + 1 \in 1 .. Len(script) + 1
  BY <1>2, Here
<1>4. r \in Records(script) /\ r.parent = process[p].parent /\ r.fds = process[p].fds
      /\ r.rd = process[p].rd /\ r.wr = process[p].wr
      /\ r.owed = process[p].owed /\ r.leaks = process[p].leaks
  BY <1>3, Here DEF Records
<1> HIDE DEF r, k
<1> QED BY <1>1, <1>2, <1>4, StartsStep

LEMMA ReadTypedStep ==
  ASSUME ProcessInv, OtherTypes, NEW p \in Processes, ReadTyped(p)
  PROVE  ProcessInv'
<1> DEFINE k == offset + 1
<1>1. script' = script /\ process[p].pc = "read" /\ Starts(p, process[p], k)
  BY DEF ReadTyped, At
<1>2. k \in 1 .. Len(script)
  BY Here DEF OtherTypes, ReadTyped
<1> HIDE DEF k
<1> QED BY <1>1, <1>2, Here, StartsStep

LEMMA FillBufferStep ==
  ASSUME ProcessInv, OtherTypes, NEW p \in Processes, FillBuffer(p)
  PROVE  ProcessInv'
<1> DEFINE r == [process[p] EXCEPT !.next = offset + 1, !.last = Len(script)]
<1>1. script' = script /\ process[p].pc = "read" /\ process' = [process EXCEPT ![p] = r]
  BY DEF FillBuffer, At, Become
<1>2. offset + 1 \in 1 .. Len(script) + 1 /\ Len(script) \in 0 .. Len(script)
  BY Here DEF OtherTypes, FillBuffer
<1>3. r \in Records(script) /\ r.pc = "read" /\ r.parent = process[p].parent
      /\ r.fds = process[p].fds /\ r.rd = process[p].rd /\ r.wr = process[p].wr
      /\ r.owed = process[p].owed /\ r.leaks = process[p].leaks
  BY <1>1, <1>2, Here DEF Records
<1>4. "read" \in ShellLabels \ {"forkRight", "wait"} /\ "read" \in Shells \ {"forkRight", "wait"}
  BY DEF Shells, ShellLabels
<1> HIDE DEF r
<1> QED BY <1>1, <1>3, <1>4, NoPipeAtHand, ShellMoves

\* The end of the file, a pipe at its end, a pipe that cannot be made.
LEMMA LeaveLoopStep ==
  ASSUME ProcessInv, NEW p \in Processes, EndOfFile(p) \/ ReadPipe(p) \/ PipeFails(p)
  PROVE  ProcessInv'
<1>1. script' = script /\ process[p].pc \in Shells \ {"forkRight", "wait"}
  BY DEF EndOfFile, ReadPipe, PipeFails, At, Shells, ShellLabels
<1>2. Goto(p, "exit") \/ Goto(p, "lost")
  BY DEF EndOfFile, ReadPipe, PipeFails
<1>3. "exit" \in ShellLabels \ {"forkRight", "wait"} /\ "lost" \in ShellLabels \ {"forkRight", "wait"}
  BY DEF ShellLabels
<1>4. CASE Goto(p, "exit")
  BY <1>1, <1>3, <1>4, GotoStep
<1>5. CASE Goto(p, "lost")
  BY <1>1, <1>3, <1>5, GotoStep
<1> QED BY <1>2, <1>4, <1>5

LEMMA BuiltinStep ==
  ASSUME ProcessInv, NEW p \in Processes, Builtin(p)
  PROVE  ProcessInv'
<1>1. script' = script /\ process[p].pc = "builtin"
  BY DEF Builtin, At
<1>2. process[p].pc \in Shells \ {"forkRight", "wait"} /\ process[p].pc # "free"
      /\ "lost" \in ShellLabels \ {"forkRight", "wait"}
  BY <1>1 DEF Shells, ShellLabels
<1>3. Become(p, Prompt(process[p])) \/ process' = AfterEndOf(p) \/ Goto(p, "lost")
  BY DEF Builtin
<1>4. CASE Become(p, Prompt(process[p]))
  BY <1>1, <1>2, <1>4, PromptStep
<1>5. CASE process' = AfterEndOf(p)
  BY <1>1, <1>2, <1>5, EndStep
<1>6. CASE Goto(p, "lost")
  BY <1>1, <1>2, <1>6, GotoStep
<1> QED BY <1>3, <1>4, <1>5, <1>6

LEMMA PressEnterStep ==
  ASSUME ProcessInv, NEW p \in Processes, PressEnter(p)
  PROVE  ProcessInv'
<1>1. script' = script /\ process[p].pc \in Shells \ {"forkRight", "wait"}
  BY DEF PressEnter, At, Shells, ShellLabels
<1>2. Become(p, Prompt(process[p]))
  BY DEF PressEnter
<1> QED BY <1>1, <1>2, PromptStep

LEMMA ForkFailsStep ==
  ASSUME ProcessInv, NEW p \in Processes, ForkFails(p)
  PROVE  ProcessInv'
<1>1. script' = script /\ process[p].pc \in Shells \ {"forkRight", "wait"}
  BY DEF ForkFails, At, Shells, ShellLabels
<1> QED BY <1>1, PromptStep DEF ForkFails

\* Every way a process ends.
LEMMA EndSteps ==
  ASSUME ProcessInv, NEW p \in Processes,
         Quit(p) \/ OpenFails(p) \/ ExecFails(p) \/ ProgramEnds(p) \/ PressEnterInChild(p)
  PROVE  ProcessInv'
<1>1. script' = script /\ process[p].pc # "free" /\ process' = AfterEndOf(p)
  BY DEF Quit, OpenFails, ExecFails, ProgramEnds, PressEnterInChild, Exits, Dies, At
<1> QED BY <1>1, EndStep

\* What a child begins with, in the line of its parent.
LEMMA ChildFields ==
  ASSUME NEW s \in Scripts, NEW r \in Records(s), NEW p \in Processes,
         NEW label, label = "redirect" \/ label = "exec",
         NEW side, side = "none" \/ side = "left" \/ side = "right"
  PROVE  /\ ChildOf(p, r, label, side) \in Records(s)
         /\ ChildOf(p, r, label, side).pc = label
         /\ ChildOf(p, r, label, side).parent = p
         /\ ChildOf(p, r, label, side).side = side
         /\ ChildOf(p, r, label, side).fds = r.fds
         /\ ChildOf(p, r, label, side).line = r.line
         /\ ChildOf(p, r, label, side).rd = r.rd /\ ChildOf(p, r, label, side).wr = r.wr
         /\ ChildOf(p, r, label, side).next = r.next /\ ChildOf(p, r, label, side).last = r.last
         /\ ChildOf(p, r, label, side).owed = 0
<1>1. label \in Labels
  BY DEF Labels, ChildLabels
<1> QED BY <1>1 DEF ChildOf, Records

LEMMA ForkOne ==
  ASSUME ProcessInv, NEW p \in Processes, Fork(p)
  PROVE  ProcessInv'
<1> DEFINE k == process[p].line
           label == IF Redirects(k) THEN "redirect" ELSE "exec"
           child == ChildOf(p, process[p], label, "none")
           r == IF Command(k).isBg THEN [Prompt(process[p]) EXCEPT !.owed = @ + 1]
                ELSE [process[p] EXCEPT !.pc = "wait"]
           c == LeastOf(FreeSlots)
<1>1. script' = script /\ process[p].pc = "fork" /\ c \in FreeSlots
  BY FreeSlotIsFree DEF Fork, At
<1>2. process' = [process EXCEPT ![c] = child, ![p] = r]
  BY DEF Fork
<1>3. process[p] \in Records(script) /\ Intact(process[p]) /\ process[p].rd = 0 /\ process[p].wr = 0
  BY <1>1, Here DEF Sound, Shells, ShellLabels
<1>4. child \in Records(script) /\ child.pc = label /\ child.parent = p /\ child.side = "none"
      /\ child.fds = process[p].fds /\ child.line = k /\ child.owed = 0
  <2>1. label \in {"redirect", "exec"}
    OBVIOUS
  <2>2. ASSUME NEW l \in {"redirect", "exec"}, NEW m, m = ChildOf(p, process[p], l, "none")
        PROVE  /\ m \in Records(script) /\ m.pc = l /\ m.parent = p /\ m.side = "none"
               /\ m.fds = process[p].fds /\ m.line = process[p].line /\ m.owed = 0
    <3> DEFINE q == process[p]
    <3>1. q \in Records(script) /\ script \in Scripts
      BY <1>3, Here
    <3> HIDE DEF q
    <3>2. /\ ChildOf(p, q, l, "none") \in Records(script) /\ ChildOf(p, q, l, "none").pc = l
          /\ ChildOf(p, q, l, "none").parent = p /\ ChildOf(p, q, l, "none").side = "none"
          /\ ChildOf(p, q, l, "none").fds = q.fds /\ ChildOf(p, q, l, "none").line = q.line
          /\ ChildOf(p, q, l, "none").owed = 0
      BY <3>1, ChildFields
    <3> QED BY <2>2, <3>2 DEF q
  <2> HIDE DEF label, child
  <2>3. child = ChildOf(p, process[p], label, "none")
    BY DEF child
  <2> QED BY <2>1, <2>2, <2>3
<1>5. label = "exec" => ~Redirects(k)
  OBVIOUS
<1>6. label \in {"redirect", "exec"}
  OBVIOUS
<1>7. Sound(script, child) /\ child.pc \notin ShellLabels
  <2> HIDE DEF child, label, k
  <2> USE <1>3, <1>4, <1>5, <1>6
  <2>1. Redirected(script, child)
    BY DEF Redirected, Redirects, Command
  <2>2. Intact(child)
    BY DEF Intact
  <2> QED BY <2>1, <2>2 DEF Sound, Shells, ShellLabels, InPipe
<1>8. /\ r \in Records(script) /\ Sound(script, r) /\ r.pc \in ShellLabels
      /\ r.parent = process[p].parent /\ r.fds = process[p].fds
      /\ Ends(r) = Ends(process[p])
      /\ r.owed + Awaited(r) = process[p].owed + Awaited(process[p]) + 1
  <2>1. CASE Command(k).isBg
    <3> DEFINE n == [Prompt(process[p]) EXCEPT !.owed = @ + 1]
    <3>1. n \in Records(script) /\ n.pc = "read" /\ n.rd = 0 /\ n.wr = 0
          /\ n.parent = process[p].parent /\ n.fds = process[p].fds
          /\ n.owed = process[p].owed + 1 /\ n.leaks = process[p].leaks
      <4> DEFINE m == Prompt(process[p])
      <4>1. m \in Records(script) /\ m.pc = "read" /\ m.rd = 0 /\ m.wr = 0
            /\ m.parent = process[p].parent /\ m.fds = process[p].fds
            /\ m.owed = process[p].owed /\ m.leaks = process[p].leaks
        BY <1>3, Here, PromptFields
      <4> HIDE DEF m
      <4> QED BY <4>1 DEF Records
    <3>2. r = n
      BY <2>1
    <3> HIDE DEF n, r
    <3>3. Awaited(n) = 0 /\ Awaited(process[p]) = 0 /\ Ends(n) = Ends(process[p])
      BY <1>1, <3>1 DEF Awaited, Ends
    <3>4. Sound(script, n)
      BY <1>3, <3>1 DEF Sound, Intact, InPipe, Shells, ShellLabels, Redirected
    <3>5. process[p].owed \in Nat
      BY <1>3 DEF Records
    <3> QED BY <3>1, <3>2, <3>3, <3>4, <3>5 DEF ShellLabels
  <2>2. CASE ~Command(k).isBg
    <3> DEFINE n == [process[p] EXCEPT !.pc = "wait"]
    <3>1. n \in Records(script) /\ n.pc = "wait" /\ n.rd = 0 /\ n.wr = 0
          /\ n.parent = process[p].parent /\ n.fds = process[p].fds
          /\ n.owed = process[p].owed /\ n.leaks = process[p].leaks
      BY <1>3 DEF Records, Labels, ShellLabels
    <3>2. r = n
      BY <2>2
    <3> HIDE DEF n, r
    <3>3. Awaited(n) = 1 /\ Awaited(process[p]) = 0 /\ Ends(n) = Ends(process[p])
      BY <1>1, <3>1 DEF Awaited, Ends
    <3>4. Sound(script, n)
      BY <1>3, <3>1 DEF Sound, Intact, InPipe, Shells, ShellLabels, Redirected
    <3>5. process[p].owed \in Nat
      BY <1>3 DEF Records
    <3> QED BY <3>1, <3>2, <3>3, <3>4, <3>5 DEF ShellLabels
  <2> QED BY <2>1, <2>2
<1>9. p = First => Cardinality(PipeEnds(r.fds)) = Ends(r)
  <2> HIDE DEF r
  <2> QED BY <1>8 DEF ProcessInv, FirstIsFirst
<1>10. process[p].pc \in ShellLabels
  BY <1>1 DEF ShellLabels
<1> HIDE DEF child, r, c
<1> QED BY <1>1, <1>2, <1>4, <1>7, <1>8, <1>9, <1>10, ForkStep

(***************************************************************************)
(* Pipes.                                                                  *)
(***************************************************************************)
LEMMA PipeMade ==
  ASSUME ProcessInv, NEW p \in Processes, RoomForPipe(process[p]), Intact(process[p])
  PROVE  LET r == WithPipe(process[p])
         IN  /\ r \in Records(script) /\ HasPipe(r) /\ Intact(r) /\ r.rd # 0
             /\ r.pc = process[p].pc /\ r.parent = process[p].parent /\ r.line = process[p].line
             /\ r.side = process[p].side /\ r.next = process[p].next /\ r.last = process[p].last
             /\ r.owed = process[p].owed /\ r.leaks = process[p].leaks
             /\ Cardinality(PipeEnds(r.fds)) = Cardinality(PipeEnds(process[p].fds)) + 2
<1> DEFINE fds == process[p].fds
           k == LeastOf(Pipes \ PipesInUse)
           rd == FreeDescriptor(fds)
           fds1 == [fds EXCEPT ![rd] = ReadEnd(k)]
           wr == FreeDescriptor(fds1)
           fds2 == [fds EXCEPT ![rd] = ReadEnd(k), ![wr] = WriteEnd(k)]
<1>1. process[p] \in Records(script) /\ fds \in [Descriptors -> FdTypes]
  BY Here DEF Records
<1>2. IsFiniteSet(FreeDescriptors(fds)) /\ Cardinality(FreeDescriptors(fds)) >= 2
  BY DescriptorsFinite DEF RoomForPipe, FreeDescriptors
<1>3. rd \in Descriptors /\ fds[rd] = Closed
  <2>1. FreeDescriptors(fds) # {}
    BY <1>2, FS_EmptySet
  <2> QED BY <2>1, FreeDescriptorIsFree DEF FreeDescriptors
<1>4. k \in Pipes
  <2>1. FreeDescriptors(fds) # {}
    BY <1>3 DEF FreeDescriptors
  <2> QED BY <2>1, PipeHasName DEF ProcessInv
<1>5. ReadEnd(k) # Closed /\ ReadEnd(k).kind = "read" /\ WriteEnd(k).kind = "write"
      /\ ReadEnd(k) \in FdTypes /\ WriteEnd(k) \in FdTypes
  BY <1>4, FdTypesHold DEF ReadEnd, WriteEnd, Closed, Other
<1>6. wr \in Descriptors /\ fds1[wr] = Closed
  <2>1. FreeDescriptors(fds) \ {rd} # {}
    <3>1. Cardinality(FreeDescriptors(fds) \ {rd}) = Cardinality(FreeDescriptors(fds)) - 1
      BY <1>2, <1>3, FS_RemoveElement DEF FreeDescriptors
    <3>2. Cardinality(FreeDescriptors(fds)) \in Nat
      BY <1>2, FS_CardinalityType
    <3>3. Cardinality(FreeDescriptors(fds) \ {rd}) # 0
      BY <1>2, <3>1, <3>2
    <3> QED BY <3>3, FS_EmptySet
  <2>2. PICK d \in Descriptors : d # rd /\ fds[d] = Closed
    BY <2>1 DEF FreeDescriptors
  <2>3. d \in FreeDescriptors(fds1)
    BY <1>1, <2>2 DEF FreeDescriptors
  <2> HIDE DEF fds1
  <2> QED BY <2>3, FreeDescriptorIsFree DEF FreeDescriptors
<1> HIDE DEF k, rd
<1>7. wr # rd /\ fds[wr] = Closed
  BY <1>1, <1>3, <1>5, <1>6
<1> HIDE DEF wr
<1>8. /\ fds2 \in [Descriptors -> FdTypes] /\ fds2[rd] = ReadEnd(k) /\ fds2[wr] = WriteEnd(k)
      /\ \A d \in Descriptors : d # rd /\ d # wr => fds2[d] = fds[d]
  BY <1>1, <1>3, <1>5, <1>6, <1>7
<1>9. rd \notin {0, 1} /\ wr \notin {0, 1}
  BY <1>3, <1>7 DEF Intact
<1>10. fds2[0] = fds[0] /\ fds2[1] = fds[1]
  BY <1>8, <1>9, DescriptorSet
<1> DEFINE n == [process[p] EXCEPT !.fds = fds2, !.rd = rd, !.wr = wr]
<1>11. WithPipe(process[p]) = n
  BY DEF WithPipe, k, rd, wr
<1> HIDE DEF fds2
<1>12. /\ n \in Records(script) /\ n.fds = fds2 /\ n.rd = rd /\ n.wr = wr
       /\ n.pc = process[p].pc /\ n.parent = process[p].parent /\ n.line = process[p].line
       /\ n.side = process[p].side /\ n.next = process[p].next /\ n.last = process[p].last
       /\ n.owed = process[p].owed /\ n.leaks = process[p].leaks
  BY <1>1, <1>3, <1>6, <1>8 DEF Records
<1>13. HasPipe(n) /\ Intact(n)
  <2> HIDE DEF n
  <2> QED BY <1>5, <1>7, <1>8, <1>9, <1>10, <1>12 DEF HasPipe, Intact
<1>14. Cardinality(PipeEnds(fds2)) = Cardinality(PipeEnds(fds)) + 2
  <2>1. PipeEnds(fds2) = (PipeEnds(fds) \cup {rd}) \cup {wr}
    BY <1>3, <1>5, <1>6, <1>8 DEF PipeEnds
  <2>2. rd \notin PipeEnds(fds) /\ wr \notin PipeEnds(fds) \cup {rd}
    BY <1>3, <1>7 DEF PipeEnds, Closed, Other
  <2>3. IsFiniteSet(PipeEnds(fds)) /\ Cardinality(PipeEnds(fds)) \in Nat
    BY DescriptorsFinite DEF PipeEnds
  <2>4. IsFiniteSet(PipeEnds(fds) \cup {rd})
        /\ Cardinality(PipeEnds(fds) \cup {rd}) = Cardinality(PipeEnds(fds)) + 1
    BY <2>2, <2>3, FS_AddElement
  <2>5. Cardinality((PipeEnds(fds) \cup {rd}) \cup {wr}) = Cardinality(PipeEnds(fds) \cup {rd}) + 1
    BY <2>2, <2>4, FS_AddElement
  <2> QED BY <2>1, <2>3, <2>4, <2>5
<1> HIDE DEF n
<1> QED BY <1>9, <1>11, <1>12, <1>13, <1>14

\* The first shell's ends, and no others, are counted by Ends.
LEMMA FirstEnds ==
  ASSUME ProcessInv, NEW p \in Processes, p = First
  PROVE  Cardinality(PipeEnds(process[p].fds)) = Ends(process[p])
BY DEF ProcessInv, FirstIsFirst

LEMMA ForkLeftStep ==
  ASSUME ProcessInv, NEW p \in Processes, ForkLeft(p)
  PROVE  ProcessInv'
<1> DEFINE q == WithPipe(process[p])
           child == ChildOf(p, q, "exec", "left")
           r == [q EXCEPT !.pc = "forkRight"]
           c == LeastOf(FreeSlots)
<1>1. script' = script /\ process[p].pc = "pipe" /\ c \in FreeSlots /\ RoomForPipe(process[p])
  BY FreeSlotIsFree DEF ForkLeft, At
<1>2. process' = [process EXCEPT ![c] = child, ![p] = r]
  BY DEF ForkLeft
<1>3. Intact(process[p]) /\ process[p].owed \in Nat /\ process[p].leaks \in Nat
  BY <1>1, Here DEF Sound, Shells, ShellLabels, Records
<1>4. /\ q \in Records(script) /\ HasPipe(q) /\ Intact(q) /\ q.rd # 0
      /\ q.parent = process[p].parent /\ q.owed = process[p].owed /\ q.leaks = process[p].leaks
      /\ Cardinality(PipeEnds(q.fds)) = Cardinality(PipeEnds(process[p].fds)) + 2
  BY <1>1, <1>3, PipeMade
<1> HIDE DEF q
<1>5. /\ child \in Records(script) /\ child.pc = "exec" /\ child.parent = p
      /\ child.side = "left" /\ child.fds = q.fds /\ child.rd = q.rd /\ child.wr = q.wr
      /\ child.owed = 0
  BY <1>4, Here, ChildFields
<1>6. Sound(script, child) /\ child.pc \notin ShellLabels
  <2> HIDE DEF child
  <2> QED BY <1>4, <1>5
      DEF Sound, Shells, ShellLabels, InPipe, Intact, HasPipe, Redirected
<1>7. /\ r \in Records(script) /\ r.pc = "forkRight" /\ r.parent = process[p].parent
      /\ r.fds = q.fds /\ r.rd = q.rd /\ r.wr = q.wr
      /\ r.owed = process[p].owed /\ r.leaks = process[p].leaks
  BY <1>4 DEF Records, Labels, ShellLabels
<1> HIDE DEF r, child, c
<1>8. Sound(script, r) /\ r.pc \in ShellLabels /\ process[p].pc \in ShellLabels
  BY <1>1, <1>4, <1>7 DEF Sound, Shells, ShellLabels, InPipe, Intact, HasPipe, Redirected
<1>9. r.owed + Awaited(r) = process[p].owed + Awaited(process[p]) + 1
  BY <1>1, <1>3, <1>7 DEF Awaited
<1>10. p = First => Cardinality(PipeEnds(r.fds)) = Ends(r)
  <2> SUFFICES ASSUME p = First PROVE Cardinality(PipeEnds(r.fds)) = Ends(r)
    OBVIOUS
  <2>1. Cardinality(PipeEnds(process[p].fds)) = 2 * process[p].leaks
    BY <1>1, <1>3, FirstEnds DEF Ends
  <2>2. Ends(r) = 2 * process[p].leaks + 2
    BY <1>7 DEF Ends
  <2> QED BY <1>4, <1>7, <2>1, <2>2
<1> QED BY <1>1, <1>2, <1>5, <1>6, <1>7, <1>8, <1>9, <1>10, ForkStep

LEMMA ForkLeftFailsStep ==
  ASSUME ProcessInv, NEW p \in Processes, ForkLeftFails(p)
  PROVE  ProcessInv'
<1> DEFINE q == WithPipe(process[p])
           m == Prompt(q)
           r == [m EXCEPT !.leaks = @ + 1]
<1>1. script' = script /\ process[p].pc = "pipe" /\ RoomForPipe(process[p])
  BY DEF ForkLeftFails, At
<1>2. process' = [process EXCEPT ![p] = r]
  BY DEF ForkLeftFails, Become
<1>3. Intact(process[p]) /\ process[p].owed \in Nat /\ process[p].leaks \in Nat
  BY <1>1, Here DEF Sound, Shells, ShellLabels, Records
<1>4. /\ q \in Records(script) /\ Intact(q)
      /\ q.parent = process[p].parent /\ q.owed = process[p].owed /\ q.leaks = process[p].leaks
      /\ Cardinality(PipeEnds(q.fds)) = Cardinality(PipeEnds(process[p].fds)) + 2
  BY <1>1, <1>3, PipeMade
<1> HIDE DEF q
<1>5. /\ m \in Records(script) /\ m.pc = "read" /\ m.rd = 0 /\ m.wr = 0 /\ m.fds = q.fds
      /\ m.parent = q.parent /\ m.owed = q.owed /\ m.leaks = q.leaks
  BY <1>4, Here, PromptFields
<1> HIDE DEF m
<1>6. /\ r \in Records(script) /\ r.pc = "read" /\ r.rd = 0 /\ r.wr = 0 /\ r.fds = q.fds
      /\ r.parent = process[p].parent /\ r.owed = process[p].owed
      /\ r.leaks = process[p].leaks + 1
  <2>1. m.leaks + 1 \in Nat
    BY <1>3, <1>4, <1>5
  <2>2. r \in Records(script)
    BY <1>5, <2>1 DEF Records
  <2> QED BY <1>4, <1>5, <2>2 DEF Records
<1> HIDE DEF r
<1>7. Sound(script, r) /\ r.pc \in ShellLabels /\ process[p].pc # "free"
  BY <1>1, <1>4, <1>6 DEF Sound, Shells, ShellLabels, InPipe, Intact, Redirected
<1>8. r.owed + Awaited(r) = process[p].owed + Awaited(process[p])
  BY <1>1, <1>3, <1>6 DEF Awaited
<1>9. p = First => Cardinality(PipeEnds(r.fds)) = Ends(r)
  <2> SUFFICES ASSUME p = First PROVE Cardinality(PipeEnds(r.fds)) = Ends(r)
    OBVIOUS
  <2>1. Cardinality(PipeEnds(process[p].fds)) = 2 * process[p].leaks
    BY <1>1, <1>3, FirstEnds DEF Ends
  <2>2. Ends(r) = 2 * (process[p].leaks + 1)
    BY <1>3, <1>6 DEF Ends
  <2> QED BY <1>3, <1>4, <1>6, <2>1, <2>2
<1> QED BY <1>1, <1>2, <1>6, <1>7, <1>8, <1>9, LocalStep

LEMMA ForkRightStep ==
  ASSUME ProcessInv, NEW p \in Processes, ForkRight(p)
  PROVE  ProcessInv'
<1> DEFINE q == process[p]
           child == ChildOf(p, q, "exec", "right")
           r == [q EXCEPT !.pc = "wait", !.owed = @ + 1]
           c == LeastOf(FreeSlots)
<1>1. script' = script /\ process[p].pc = "forkRight" /\ c \in FreeSlots
  BY FreeSlotIsFree DEF ForkRight, At
<1>2. process' = [process EXCEPT ![c] = child, ![p] = r]
  BY DEF ForkRight
<1>3. q \in Records(script) /\ Intact(q) /\ HasPipe(q) /\ q.owed \in Nat /\ q.leaks \in Nat
      /\ q.pc = "forkRight"
  BY <1>1, Here DEF Sound, Shells, ShellLabels, Records
<1>4. /\ child \in Records(script) /\ child.pc = "exec" /\ child.parent = p
      /\ child.side = "right" /\ child.fds = q.fds /\ child.rd = q.rd /\ child.wr = q.wr
      /\ child.owed = 0
  <2> HIDE DEF q
  <2> QED BY <1>3, Here, ChildFields
<1>5. Sound(script, child) /\ child.pc \notin ShellLabels
  <2> HIDE DEF child, q
  <2> QED BY <1>3, <1>4
      DEF Sound, Shells, ShellLabels, InPipe, Intact, HasPipe, Redirected
<1>6. /\ r \in Records(script) /\ r.pc = "wait" /\ r.parent = q.parent
      /\ r.fds = q.fds /\ r.rd = q.rd /\ r.wr = q.wr
      /\ r.owed = q.owed + 1 /\ r.leaks = q.leaks
  <2> HIDE DEF q
  <2>1. q.owed + 1 \in Nat /\ "wait" \in Labels
    BY <1>3 DEF Labels, ShellLabels
  <2>2. r \in Records(script)
    BY <1>3, <2>1 DEF Records
  <2> QED BY <1>3, <2>2 DEF Records
<1> HIDE DEF r, child, c
<1>7. Sound(script, r) /\ r.pc \in ShellLabels /\ q.pc \in ShellLabels
  <2> HIDE DEF q
  <2> QED BY <1>3, <1>6 DEF Sound, Shells, ShellLabels, InPipe, Intact, HasPipe, Redirected
<1>8. r.owed + Awaited(r) = q.owed + Awaited(q) + 1
  <2> HIDE DEF q
  <2> QED BY <1>3, <1>6 DEF Awaited
<1>9. Ends(r) = Ends(q)
  <2> HIDE DEF q
  <2> QED BY <1>3, <1>6 DEF Ends, HasPipe
<1>10. p = First => Cardinality(PipeEnds(r.fds)) = Ends(r)
  BY <1>6, <1>9, FirstEnds
<1> QED BY <1>1, <1>2, <1>4, <1>5, <1>6, <1>7, <1>8, <1>10, ForkStep

LEMMA ForkRightFailsStep ==
  ASSUME ProcessInv, NEW p \in Processes, ForkRightFails(p)
  PROVE  ProcessInv'
<1> DEFINE m == Prompt(process[p])
           r == [m EXCEPT !.leaks = @ + 1, !.owed = @ + 1]
<1>1. script' = script /\ process[p].pc = "forkRight"
  BY DEF ForkRightFails, At
<1>2. process' = [process EXCEPT ![p] = r]
  BY DEF ForkRightFails, Become
<1>3. Intact(process[p]) /\ process[p].owed \in Nat /\ process[p].leaks \in Nat
      /\ process[p] \in Records(script)
  BY <1>1, Here DEF Sound, Shells, ShellLabels, Records
<1>4. /\ m \in Records(script) /\ m.pc = "read" /\ m.rd = 0 /\ m.wr = 0 /\ m.fds = process[p].fds
      /\ m.parent = process[p].parent /\ m.owed = process[p].owed /\ m.leaks = process[p].leaks
  BY <1>3, Here, PromptFields
<1> HIDE DEF m
<1>5. /\ r \in Records(script) /\ r.pc = "read" /\ r.rd = 0 /\ r.wr = 0 /\ r.fds = process[p].fds
      /\ r.parent = process[p].parent /\ r.owed = process[p].owed + 1
      /\ r.leaks = process[p].leaks + 1
  <2>1. m.leaks + 1 \in Nat /\ m.owed + 1 \in Nat
    BY <1>3, <1>4
  <2>2. r \in Records(script)
    BY <1>4, <2>1 DEF Records
  <2> QED BY <1>4, <2>2 DEF Records
<1> HIDE DEF r
<1>6. Sound(script, r) /\ r.pc \in ShellLabels /\ process[p].pc # "free"
  BY <1>1, <1>3, <1>5 DEF Sound, Shells, ShellLabels, InPipe, Intact, Redirected
<1>7. r.owed + Awaited(r) = process[p].owed + Awaited(process[p])
  BY <1>1, <1>3, <1>5 DEF Awaited
<1>8. Ends(r) = Ends(process[p])
  BY <1>1, <1>3, <1>5 DEF Ends
<1>9. p = First => Cardinality(PipeEnds(r.fds)) = Ends(r)
  BY <1>5, <1>8, FirstEnds
<1> QED BY <1>1, <1>2, <1>5, <1>6, <1>7, <1>9, LocalStep

LEMMA CloseFds ==
  ASSUME NEW fds \in [Descriptors -> FdTypes], NEW S
  PROVE  /\ Close(fds, S) \in [Descriptors -> FdTypes]
         /\ \A d \in Descriptors : Close(fds, S)[d] = IF d \in S THEN Closed ELSE fds[d]
         /\ PipeEnds(Close(fds, S)) = PipeEnds(fds) \ S
<1>1. /\ Close(fds, S) \in [Descriptors -> FdTypes]
      /\ \A d \in Descriptors : Close(fds, S)[d] = IF d \in S THEN Closed ELSE fds[d]
  BY FdTypesHold DEF Close
<1>2. PipeEnds(Close(fds, S)) = PipeEnds(fds) \ S
  BY <1>1 DEF PipeEnds, Closed, Other
<1> QED BY <1>1, <1>2

LEMMA WaitsStep ==
  ASSUME ProcessInv, NEW p \in Processes, Wait(p)
  PROVE  ProcessInv'
<1> DEFINE q == process[p]
           S == {q.rd, q.wr} \ {0}
           m == Prompt(q)
           r == [m EXCEPT !.fds = Close(@, S)]
<1>1. script' = script /\ q.pc = "wait"
  BY DEF Wait, At
<1>2. PICK z \in Processes : /\ process[z].parent = p /\ process[z].pc = "zombie"
                             /\ process' = [process EXCEPT ![z] = Free, ![p] = r]
  BY DEF Wait, At
<1>3. /\ q \in Records(script) /\ Intact(q) /\ q.owed \in Nat /\ q.leaks \in Nat
      /\ q.fds \in [Descriptors -> FdTypes] /\ q.rd \in Descriptors /\ q.wr \in Descriptors
      /\ HasPipe(q) \/ (q.rd = 0 /\ q.wr = 0)
  BY <1>1, Here DEF Sound, Shells, ShellLabels, Records
<1> HIDE DEF q
<1>4. /\ m \in Records(script) /\ m.pc = "read" /\ m.rd = 0 /\ m.wr = 0 /\ m.fds = q.fds
      /\ m.parent = q.parent /\ m.owed = q.owed /\ m.leaks = q.leaks
  BY <1>3, Here, PromptFields
<1> HIDE DEF m, S
<1>5. Close(q.fds, S) \in [Descriptors -> FdTypes]
  BY <1>3, CloseFds
<1>6. /\ r \in Records(script) /\ r.pc = "read" /\ r.rd = 0 /\ r.wr = 0
      /\ r.fds = Close(q.fds, S)
      /\ r.parent = q.parent /\ r.owed = q.owed /\ r.leaks = q.leaks
  <2>1. r \in Records(script)
    BY <1>4, <1>5 DEF Records
  <2> QED BY <1>4, <2>1 DEF Records
<1>7. Intact(r)
  <2>1. 0 \notin S /\ 1 \notin S
    BY <1>3 DEF S, HasPipe
  <2>2. r.fds[0] = q.fds[0] /\ r.fds[1] = q.fds[1]
    BY <1>3, <1>6, <2>1, CloseFds, DescriptorSet
  <2> QED BY <1>3, <2>2 DEF Intact
<1> HIDE DEF r
<1>8. Sound(script, r) /\ r.pc \in ShellLabels /\ q.pc \in ShellLabels
  BY <1>1, <1>6, <1>7 DEF Sound, Shells, ShellLabels, InPipe, Intact, Redirected
<1>9. r.owed + Awaited(r) = (q.owed + Awaited(q)) - 1
  BY <1>1, <1>3, <1>6 DEF Awaited
<1>10. p = First => Cardinality(PipeEnds(r.fds)) = Ends(r)
  <2> SUFFICES ASSUME p = First PROVE Cardinality(PipeEnds(r.fds)) = Ends(r)
    OBVIOUS
  <2>1. Cardinality(PipeEnds(q.fds)) = Ends(q)
    BY FirstEnds DEF q
  <2>2. PipeEnds(r.fds) = PipeEnds(q.fds) \ S
    BY <1>3, <1>6, CloseFds
  <2>3. Ends(r) = 2 * q.leaks
    BY <1>3, <1>6 DEF Ends
  <2>4. CASE HasPipe(q)
    <3>1. S = {q.rd, q.wr} /\ q.rd # 0 /\ q.rd # q.wr
      BY <2>4 DEF S, HasPipe
    <3>2. q.rd \in PipeEnds(q.fds) /\ q.wr \in PipeEnds(q.fds) \ {q.rd}
      BY <1>3, <2>4, <3>1 DEF HasPipe, PipeEnds
    <3>3. IsFiniteSet(PipeEnds(q.fds)) /\ Cardinality(PipeEnds(q.fds)) \in Nat
      BY DescriptorsFinite DEF PipeEnds
    <3>4. /\ IsFiniteSet(PipeEnds(q.fds) \ {q.rd})
          /\ Cardinality(PipeEnds(q.fds) \ {q.rd}) = Cardinality(PipeEnds(q.fds)) - 1
      BY <3>2, <3>3, FS_RemoveElement
    <3>5. Cardinality((PipeEnds(q.fds) \ {q.rd}) \ {q.wr}) = Cardinality(PipeEnds(q.fds) \ {q.rd}) - 1
      BY <3>2, <3>4, FS_RemoveElement
    <3>6. PipeEnds(q.fds) \ S = (PipeEnds(q.fds) \ {q.rd}) \ {q.wr}
      BY <3>1
    <3>7. Ends(q) = 2 * q.leaks + 2
      BY <1>1, <3>1 DEF Ends
    <3>8. Cardinality(PipeEnds(r.fds)) = Cardinality((PipeEnds(q.fds) \ {q.rd}) \ {q.wr})
      BY <2>2, <3>6
    <3>9. q.leaks \in Nat
      BY <1>3
    <3> QED BY ONLY <2>1, <2>3, <3>3, <3>4, <3>5, <3>7, <3>8, <3>9
  <2>5. CASE q.rd = 0 /\ q.wr = 0
    <3>1. S = {}
      BY <2>5 DEF S
    <3>2. Ends(q) = 2 * q.leaks
      BY <1>1, <1>3, <2>5 DEF Ends
    <3> QED BY <2>1, <2>2, <2>3, <3>1, <3>2
  <2> QED BY <1>3, <2>4, <2>5
<1> QED BY <1>1, <1>2, <1>6, <1>8, <1>9, <1>10, WaitStep DEF q

-----------------------------------------------------------------------------
(***************************************************************************)
(* The steps of a child.                                                   *)
(***************************************************************************)
\* A child that goes on as another child keeps its place among processes.
LEMMA ChildMoves ==
  ASSUME ProcessInv, script' = script, NEW p \in Processes,
         process[p].pc \in {"redirect", "exec"},
         NEW r \in Records(script), Sound(script, r), process' = [process EXCEPT ![p] = r],
         r.parent = process[p].parent, r.owed = process[p].owed,
         r.pc \notin {"wait", "forkRight"}
  PROVE  ProcessInv'
<1>1. Awaited(r) = 0 /\ Awaited(process[p]) = 0 /\ process[p].pc \notin ShellLabels
      /\ process[p].pc # "free"
  BY DEF Awaited, ShellLabels
<1>2. p # First
  BY <1>1 DEF ProcessInv, FirstIsFirst
<1> QED BY <1>1, <1>2, LocalStep

\* What open and dup2 leave: input and output stay apart from the number that
\* open returned, if they were open.
LEMMA OpenedFds ==
  ASSUME NEW fds \in [Descriptors -> FdTypes], NEW target \in {0, 1},
         NEW kind \in {"input", "output"}, NEW new \in Opened(fds, target, kind)
  PROVE  /\ new \in [Descriptors -> FdTypes]
         /\ new[target].kind \in {kind, "closed"}
         /\ fds[0] # Closed /\ fds[1] # Closed =>
              /\ new[target].kind = kind /\ new[0] # Closed /\ new[1] # Closed
              /\ new[1 - target] = fds[1 - target]
<1>1. PICK n \in Descriptors :
        /\ fds[n] = Closed
        /\ new = Close([fds EXCEPT ![n] = Other(kind), ![target] = Other(kind)], {n})
  BY DEF Opened, FreeDescriptors
<1> DEFINE two == [fds EXCEPT ![n] = Other(kind), ![target] = Other(kind)]
<1>2. Other(kind) \in FdTypes /\ Other(kind).kind = kind /\ Closed.kind = "closed"
      /\ Other(kind) # Closed
  BY FdTypesHold DEF Other, Closed
<1>3. target \in Descriptors /\ 0 \in Descriptors /\ 1 \in Descriptors
  BY DescriptorSet
<1>4. two \in [Descriptors -> FdTypes] /\ two[target] = Other(kind)
      /\ \A d \in Descriptors : d # n /\ d # target => two[d] = fds[d]
  BY <1>1, <1>2, <1>3
<1> HIDE DEF two
<1>5. new \in [Descriptors -> FdTypes]
      /\ \A d \in Descriptors : new[d] = IF d \in {n} THEN Closed ELSE two[d]
  BY <1>1, <1>4, CloseFds DEF two
<1>6. new[target].kind \in {kind, "closed"}
  BY <1>2, <1>3, <1>4, <1>5
<1>7. ASSUME fds[0] # Closed, fds[1] # Closed
      PROVE  /\ new[target].kind = kind /\ new[0] # Closed /\ new[1] # Closed
             /\ new[1 - target] = fds[1 - target]
  <2>1. n # 0 /\ n # 1
    BY <1>1, <1>7
  <2>2. new[0] = two[0] /\ new[1] = two[1] /\ new[target] = two[target]
    BY <1>3, <1>5, <2>1
  <2>3. CASE target = 0
    BY <1>2, <1>3, <1>4, <1>7, <2>1, <2>2, <2>3
  <2>4. CASE target = 1
    BY <1>2, <1>3, <1>4, <1>7, <2>1, <2>2, <2>4
  <2> QED BY <2>3, <2>4
<1> QED BY <1>5, <1>6, <1>7

LEMMA OpenFilesStep ==
  ASSUME ProcessInv, NEW c \in Processes, OpenFiles(c)
  PROVE  ProcessInv'
<1> DEFINE q == process[c]
           k == q.line
<1>1. script' = script /\ q.pc = "redirect"
  BY DEF OpenFiles, At
<1>2a. PICK fdsIn \in AfterInput(k, q.fds) :
        \E fds \in AfterOutput(k, fdsIn) :
          process' = [process EXCEPT ![c] = [q EXCEPT !.pc = "exec", !.fds = fds]]
  BY DEF OpenFiles, Become
<1>2. PICK fdsOut \in AfterOutput(k, fdsIn) :
        process' = [process EXCEPT ![c] = [q EXCEPT !.pc = "exec", !.fds = fdsOut]]
  BY <1>2a
<1>3. q \in Records(script) /\ Intact(q) /\ q.fds \in [Descriptors -> FdTypes]
      /\ q.side = "none" /\ q.owed = 0
  BY <1>1, Here DEF Sound, Shells, ShellLabels, Records
<1> HIDE DEF q
<1> DEFINE in == Command(k).hasInput
           out == Command(k).hasOutput
<1>4. /\ fdsIn \in [Descriptors -> FdTypes]
      /\ in => fdsIn[0].kind = "input" /\ fdsIn[0] # Closed /\ fdsIn[1] # Closed
  <2>1. CASE in
    <3>1. fdsIn \in Opened(q.fds, 0, "input")
      BY <2>1 DEF AfterInput
    <3>2. 0 \in {0, 1} /\ "input" \in {"input", "output"}
      OBVIOUS
    <3> QED BY <1>3, <3>1, <3>2, OpenedFds DEF Intact
  <2>2. CASE ~in
    <3>1. PICK g \in Garbage : fdsIn = Close(q.fds, {g})
      BY <2>2 DEF AfterInput
    <3> QED BY <1>3, <2>2, <3>1, CloseFds
  <2> QED BY <2>1, <2>2
<1>5. /\ fdsOut \in [Descriptors -> FdTypes]
      /\ out => fdsOut[1].kind \in {"output", "closed"}
      /\ out /\ in => fdsOut[1].kind = "output" /\ fdsOut[0].kind = "input"
      /\ ~out /\ in => fdsOut[0].kind \in {"input", "closed"}
  <2>1. CASE out
    <3>1. fdsOut \in Opened(fdsIn, 1, "output")
      BY <2>1 DEF AfterOutput
    <3>2. 1 \in {0, 1} /\ "output" \in {"input", "output"} /\ 1 - 1 = 0
      OBVIOUS
    <3>3. /\ fdsOut \in [Descriptors -> FdTypes]
          /\ fdsOut[1].kind \in {"output", "closed"}
          /\ fdsIn[0] # Closed /\ fdsIn[1] # Closed =>
               fdsOut[1].kind = "output" /\ fdsOut[0] = fdsIn[0]
      BY <1>4, <3>1, <3>2, OpenedFds
    <3> QED BY <1>4, <2>1, <3>3
  <2>2. CASE ~out
    <3>1. PICK g \in Garbage : fdsOut = Close(fdsIn, {g})
      BY <2>2 DEF AfterOutput
    <3>2. fdsOut \in [Descriptors -> FdTypes]
          /\ fdsOut[0] = IF 0 \in {g} THEN Closed ELSE fdsIn[0]
      BY <1>4, <3>1, CloseFds, DescriptorSet
    <3>3. Closed.kind = "closed"
      BY DEF Closed, Other
    <3> QED BY <1>4, <2>2, <3>2, <3>3
  <2> QED BY <2>1, <2>2
<1> DEFINE r == [q EXCEPT !.pc = "exec", !.fds = fdsOut]
<1>6. /\ r \in Records(script) /\ r.pc = "exec" /\ r.fds = fdsOut /\ r.side = "none"
      /\ r.parent = q.parent /\ r.owed = 0 /\ r.line = k
  <2>1. "exec" \in Labels
    BY DEF Labels, ChildLabels
  <2>2. r \in Records(script)
    BY <1>3, <1>5, <2>1 DEF Records
  <2> QED BY <1>3, <2>2 DEF Records
<1>7. process' = [process EXCEPT ![c] = r]
  BY <1>2
<1>8. /\ in <=> Parsed[script[r.line]].hasInput
      /\ out <=> Parsed[script[r.line]].hasOutput
  BY <1>6 DEF Command
<1> HIDE DEF r, in, out
<1>9. Redirected(script, r)
  BY <1>5, <1>6, <1>8 DEF Redirected
<1>10. Sound(script, r)
  BY <1>6, <1>9 DEF Sound, Shells, ShellLabels, InPipe
<1> QED BY <1>1, <1>3, <1>6, <1>7, <1>10, ChildMoves DEF q

\* A child of a pipe has its end in place, and input and output open.
LEMMA PlumbedFds ==
  ASSUME ProcessInv, NEW c \in Processes, process[c].pc = "exec"
  PROVE  /\ Plumbed(process[c]) \in [Descriptors -> FdTypes]
         /\ process[c].side # "none" => Plumbed(process[c])[0] # Closed /\ Plumbed(process[c])[1] # Closed
         /\ process[c].side = "none" => Plumbed(process[c]) = process[c].fds
<1> DEFINE r == process[c]
           left == [r.fds EXCEPT ![1] = r.fds[r.wr]]
           right == [r.fds EXCEPT ![0] = r.fds[r.rd]]
<1>1. /\ r.fds \in [Descriptors -> FdTypes] /\ r.rd \in Descriptors /\ r.wr \in Descriptors
      /\ r.side \in {"none", "left", "right"}
      /\ r.side # "none" => HasPipe(r) /\ Intact(r)
      /\ 0 \in Descriptors /\ 1 \in Descriptors
  BY Here, DescriptorSet DEF Records, Sound, InPipe
<1> HIDE DEF r
<1>2. Closed.kind # "read" /\ Closed.kind # "write"
  BY DEF Closed, Other
<1>3. CASE r.side = "none"
  <2>1. Plumbed(r) = r.fds
    BY <1>3 DEF Plumbed
  <2> QED BY <1>1, <1>3, <2>1 DEF r
<1>4. CASE r.side = "left"
  <2>1. Plumbed(r) = Close(left, {r.rd})
    BY <1>4 DEF Plumbed
  <2>2. left \in [Descriptors -> FdTypes] /\ left[0] # Closed /\ left[1] # Closed
    BY <1>1, <1>2, <1>4 DEF HasPipe, Intact
  <2> HIDE DEF left
  <2>3. Plumbed(r) \in [Descriptors -> FdTypes]
        /\ Plumbed(r)[0] = left[0] /\ Plumbed(r)[1] = left[1]
    BY <1>1, <1>4, <2>1, <2>2, CloseFds DEF HasPipe
  <2> QED BY <1>4, <2>2, <2>3 DEF r
<1>5. CASE r.side = "right"
  <2>1. Plumbed(r) = Close(right, {r.wr})
    BY <1>5 DEF Plumbed
  <2>2. right \in [Descriptors -> FdTypes] /\ right[0] # Closed /\ right[1] # Closed
    BY <1>1, <1>2, <1>5 DEF HasPipe, Intact
  <2> HIDE DEF right
  <2>3. Plumbed(r) \in [Descriptors -> FdTypes]
        /\ Plumbed(r)[0] = right[0] /\ Plumbed(r)[1] = right[1]
    BY <1>1, <1>5, <2>1, <2>2, CloseFds DEF HasPipe
  <2> QED BY <1>5, <2>2, <2>3 DEF r
<1> QED BY <1>1, <1>3, <1>4, <1>5

LEMMA BuiltinInChildStep ==
  ASSUME ProcessInv, NEW c \in Processes, BuiltinInChild(c)
  PROVE  ProcessInv'
<1> DEFINE q == process[c]
           fds == Plumbed(q)
           second == [q EXCEPT !.fds = fds, !.side = "none"]
           lost == [q EXCEPT !.pc = "lost", !.fds = fds]
<1>1. script' = script /\ q.pc = "exec"
  BY DEF BuiltinInChild, At
<1>2. \/ process' = AfterEndOf(c)
      \/ q.side # "none" /\ process' = [process EXCEPT ![c] = Prompt(second)]
      \/ process' = [process EXCEPT ![c] = lost]
  BY DEF BuiltinInChild, Exits, Dies, Become
<1>3. /\ q \in Records(script) /\ q.owed = 0
      /\ fds \in [Descriptors -> FdTypes]
      /\ q.side # "none" => fds[0] # Closed /\ fds[1] # Closed
  BY <1>1, Here, PlumbedFds DEF Sound, ShellLabels
<1>4. CASE process' = AfterEndOf(c)
  BY <1>1, <1>4, EndStep
<1> HIDE DEF q, fds
<1>5. CASE q.side # "none" /\ process' = [process EXCEPT ![c] = Prompt(second)]
  <2>1. second \in Records(script) /\ second.fds = fds /\ second.parent = q.parent
        /\ second.owed = 0
    BY <1>3 DEF Records
  <2> HIDE DEF second
  <2> DEFINE r == Prompt(second)
  <2>2. /\ r \in Records(script) /\ r.pc = "read" /\ r.rd = 0 /\ r.wr = 0 /\ r.fds = fds
        /\ r.parent = q.parent /\ r.owed = 0
    BY <2>1, Here, PromptFields
  <2>3. process' = [process EXCEPT ![c] = r]
    BY <1>5
  <2> HIDE DEF r
  <2>4. Sound(script, r)
    BY <1>3, <1>5, <2>2 DEF Sound, Shells, ShellLabels, InPipe, Intact, Redirected
  <2> QED BY <1>1, <1>3, <2>2, <2>3, <2>4, ChildMoves DEF q
<1>6. CASE process' = [process EXCEPT ![c] = lost]
  <2>1. lost \in Records(script) /\ lost.pc = "lost" /\ lost.parent = q.parent /\ lost.owed = 0
    <3>1. "lost" \in Labels
      BY DEF Labels, ShellLabels
    <3>2. lost \in Records(script)
      BY <1>3, <3>1 DEF Records
    <3> QED BY <1>3, <3>2 DEF Records
  <2> HIDE DEF lost
  <2>2. Sound(script, lost)
    BY <2>1 DEF Sound, Shells, ShellLabels, InPipe, Redirected
  <2> QED BY <1>1, <1>3, <1>6, <2>1, <2>2, ChildMoves DEF q
<1> QED BY <1>2, <1>4, <1>5, <1>6

LEMMA ExecStep ==
  ASSUME ProcessInv, NEW c \in Processes, Exec(c)
  PROVE  ProcessInv'
<1> DEFINE q == process[c]
           r == [q EXCEPT !.pc = "run", !.fds = Plumbed(q)]
<1>1. script' = script /\ q.pc = "exec" /\ process' = [process EXCEPT ![c] = r]
  BY DEF Exec, At, Become
<1>2. /\ q \in Records(script) /\ q.owed = 0 /\ Redirected(script, q)
      /\ Plumbed(q) \in [Descriptors -> FdTypes]
      /\ q.side = "none" => Plumbed(q) = q.fds
  BY <1>1, Here, PlumbedFds DEF Sound, ShellLabels
<1> HIDE DEF q
<1>3. /\ r \in Records(script) /\ r.pc = "run" /\ r.parent = q.parent /\ r.owed = 0
      /\ r.side = q.side /\ r.line = q.line /\ r.fds = Plumbed(q)
  <2>1. "run" \in Labels
    BY DEF Labels, ChildLabels
  <2>2. r \in Records(script)
    BY <1>2, <2>1 DEF Records
  <2> QED BY <1>2, <2>2 DEF Records
<1> HIDE DEF r
<1>4. Redirected(script, r)
  <2>1. CASE q.side = "none"
    BY <1>1, <1>2, <1>3, <2>1 DEF Redirected
  <2>2. CASE q.side # "none"
    BY <1>3, <2>2 DEF Redirected
  <2> QED BY <2>1, <2>2
<1>5. Sound(script, r)
  BY <1>3, <1>4 DEF Sound, Shells, ShellLabels, InPipe
<1> QED BY <1>1, <1>2, <1>3, <1>5, ChildMoves DEF q

-----------------------------------------------------------------------------
(***************************************************************************)
(* The processes, in all.                                                  *)
(***************************************************************************)
LEMMA InitProcessInv ==
  Init => ProcessInv
<1> SUFFICES ASSUME Init PROVE ProcessInv
  OBVIOUS
<1> DEFINE r == FirstShell(batch)
<1>1. /\ script \in Scripts /\ Len(script) \in Nat
      /\ process = [p \in Processes |-> IF p = First THEN r ELSE Free]
  BY ScriptLength DEF Init
<1>2. Free \in Records(script) /\ Sound(script, Free) /\ Free.pc = "free" /\ Free.parent = NoParent
      /\ Free.owed = 0 /\ Free.leaks = 0 /\ Free.rd = 0 /\ Free.wr = 0
  BY <1>1, FreeIsRecord DEF Free
<1> DEFINE fds == [d \in Descriptors |->
                     IF d \in 0 .. 2 THEN Tty ELSE IF d = 3 /\ batch THEN Other("batch") ELSE Closed]
<1>3. fds \in [Descriptors -> FdTypes] /\ fds[0] = Tty /\ fds[1] = Tty
      /\ \A d \in Descriptors : fds[d].kind \notin {"read", "write"}
  <2>1. /\ Tty.kind \notin {"read", "write"} /\ Closed.kind \notin {"read", "write"}
        /\ Other("batch").kind \notin {"read", "write"}
    BY DEF Tty, Closed, Other
  <2>2. Other("batch") \in FdTypes
    BY FdTypesHold
  <2>3. fds \in [Descriptors -> FdTypes]
    BY <2>2, FdTypesHold
  <2>4. 0 \in Descriptors /\ 1 \in Descriptors /\ 0 \in 0 .. 2 /\ 1 \in 0 .. 2
    BY DescriptorSet
  <2> QED BY <2>1, <2>3, <2>4
<1>4. /\ r \in Records(script) /\ r.pc = "read" /\ r.parent = NoParent /\ r.fds = fds
      /\ r.rd = 0 /\ r.wr = 0 /\ r.owed = 0 /\ r.leaks = 0
  <2>1. r = [Free EXCEPT !.pc = "read", !.fds = fds]
    BY DEF FirstShell
  <2>2. "read" \in Labels
    BY DEF Labels, ShellLabels
  <2> HIDE DEF fds, r
  <2>3. r \in Records(script)
    BY <1>2, <1>3, <2>1, <2>2 DEF Records
  <2> QED BY <1>2, <2>1, <2>3 DEF Records
<1> HIDE DEF r, fds
<1>5. Sound(script, r)
  <2>1. Tty # Closed
    BY DEF Tty, Closed, Other
  <2> QED BY <1>3, <1>4, <2>1 DEF Sound, Shells, ShellLabels, InPipe, Intact, Redirected
<1>6. \A p \in Processes :
        /\ process[p] \in Records(script) /\ Sound(script, process[p])
        /\ process[p].parent = NoParent /\ process[p].owed = 0 /\ Awaited(process[p]) = 0
  BY <1>1, <1>2, <1>4, <1>5 DEF Awaited
<1>7. ProcessTypes
  BY <1>1, <1>6 DEF ProcessTypes
<1>8. Parents
  BY <1>6 DEF Parents
<1>9. Reaping
  <2> SUFFICES ASSUME NEW p \in Processes PROVE Cardinality(ChildrenOf(p)) = 0
    BY <1>6 DEF Reaping
  <2>1. ChildrenOf(p) = {}
    BY <1>6, ProcessSet DEF ChildrenOf
  <2> QED BY <2>1, FS_EmptySet
<1>10. FirstIsFirst
  <2>1. process[First] = r
    BY <1>1, ProcessSet
  <2>2. PipeEnds(r.fds) = {} /\ Ends(r) = 0
    BY <1>3, <1>4 DEF PipeEnds, Ends
  <2> QED BY <1>4, <2>1, <2>2, FS_EmptySet DEF FirstIsFirst, ShellLabels
<1> QED BY <1>6, <1>7, <1>8, <1>9, <1>10 DEF ProcessInv

LEMMA NextProcessInv ==
  ASSUME ProcessInv, OtherTypes, [Next]_vars
  PROVE  ProcessInv'
<1>1. CASE UNCHANGED vars
  BY <1>1 DEF vars, ProcessInv, ProcessTypes, Parents, Reaping, FirstIsFirst, ChildrenOf
<1>2. ASSUME NEW p \in Processes, Runs(p) \/ UserActs(p)
      PROVE  ProcessInv'
  <2>1. CASE ReadLine(p)
    BY <2>1, ReadLineStep
  <2>2. CASE FillBuffer(p)
    BY <2>2, FillBufferStep
  <2>3. CASE EndOfFile(p) \/ ReadPipe(p) \/ PipeFails(p)
    BY <2>3, LeaveLoopStep
  <2>4. CASE Quit(p) \/ OpenFails(p) \/ ExecFails(p) \/ ProgramEnds(p) \/ PressEnterInChild(p)
    BY <2>4, EndSteps
  <2>5. CASE Builtin(p)
    BY <2>5, BuiltinStep
  <2>6. CASE Fork(p)
    BY <2>6, ForkOne
  <2>7. CASE ForkFails(p)
    BY <2>7, ForkFailsStep
  <2>8. CASE ForkLeft(p)
    BY <2>8, ForkLeftStep
  <2>9. CASE ForkLeftFails(p)
    BY <2>9, ForkLeftFailsStep
  <2>10. CASE ForkRight(p)
    BY <2>10, ForkRightStep
  <2>11. CASE ForkRightFails(p)
    BY <2>11, ForkRightFailsStep
  <2>12. CASE Wait(p)
    BY <2>12, WaitsStep
  <2>13. CASE OpenFiles(p)
    BY <2>13, OpenFilesStep
  <2>14. CASE BuiltinInChild(p)
    BY <2>14, BuiltinInChildStep
  <2>15. CASE Exec(p)
    BY <2>15, ExecStep
  <2>16. CASE ReadTyped(p)
    BY <2>16, ReadTypedStep
  <2>17. CASE PressEnter(p)
    BY <2>17, PressEnterStep
  <2> QED BY <1>2, <2>1, <2>2, <2>3, <2>4, <2>5, <2>6, <2>7, <2>8, <2>9, <2>10, <2>11, <2>12,
             <2>13, <2>14, <2>15, <2>16, <2>17 DEF Runs, UserActs
<1> QED BY <1>1, <1>2 DEF Next

-----------------------------------------------------------------------------
(***************************************************************************)
(* The other variables.                                                    *)
(***************************************************************************)
\* A fork that fails is one of those allowed for, or for want of a slot.
LEMMA FailuresBounded ==
  ASSUME forkFailures \in 0 .. MaxForkFailures, ForkCanFail, ForkHasFailed
  PROVE  forkFailures' \in 0 .. MaxForkFailures
BY BoundsAssumption DEF ForkCanFail, ForkHasFailed

\* exit moves the offset back, not before the start of the file.
LEMMA ExitsOffset ==
  ASSUME ProcessInv, OtherTypes, NEW p \in Processes, NEW fds, Exits(p, fds)
  PROVE  /\ offset' \in 0 .. Len(script)
         /\ rewound' \in BOOLEAN
         /\ rewound => rewound'
         /\ offset' = offset \/ rewound'
<1> DEFINE unread == process[p].last + 1 - process[p].next
<1>1. process[p].last \in Nat /\ process[p].next \in Nat /\ Len(script) \in Nat
  BY Here DEF Records
<1>2. unread \in Int
  BY <1>1
<1>3. CASE fds[3].kind = "batch" /\ unread \in 1 .. offset
  <2>1. offset' = offset - unread /\ rewound' = TRUE
    BY <1>3 DEF Exits
  <2> HIDE DEF unread
  <2> QED BY <1>1, <1>2, <1>3, <2>1 DEF OtherTypes
<1>4. CASE ~ (fds[3].kind = "batch" /\ unread \in 1 .. offset)
  <2>1. offset' = offset /\ (rewound' = (rewound \/ FALSE))
    BY <1>4 DEF Exits
  <2> QED BY <2>1 DEF OtherTypes
<1> QED BY <1>3, <1>4

LEMMA StartsCounts ==
  ASSUME OtherTypes, NEW p, NEW r, NEW k \in DOMAIN script, Starts(p, r, k)
  PROVE  /\ executed' \in [DOMAIN script -> Nat]
         /\ \A j \in DOMAIN script : executed'[j] = IF j = k THEN executed[j] + 1 ELSE executed[j]
BY DEF OtherTypes, Starts

LEMMA InitOtherTypes ==
  Init => OtherTypes
<1> SUFFICES ASSUME Init PROVE OtherTypes
  OBVIOUS
<1>1. script \in Scripts /\ Len(script) \in Nat
  BY ScriptLength DEF Init
<1>2. offset \in 0 .. Len(script) /\ reads \in 0 .. MaxReads /\ forkFailures \in 0 .. MaxForkFailures
  BY <1>1, BoundsAssumption DEF Init
<1>3. executed \in [DOMAIN script -> Nat] /\ copies \in Nat
  BY DEF Init
<1>4. batch \in BOOLEAN /\ rewound \in BOOLEAN
  BY DEF Init
<1> QED BY <1>2, <1>3, <1>4 DEF OtherTypes

\* The line that a shell takes next is one of the script.
LEMMA NextLine ==
  ASSUME ProcessInv, OtherTypes, NEW p \in Processes
  PROVE  /\ process[p].next <= process[p].last => process[p].next \in DOMAIN script
         /\ offset < Len(script) => offset + 1 \in DOMAIN script /\ offset + 1 \in 0 .. Len(script)
<1>1. /\ process[p].next \in 1 .. Len(script) + 1 /\ process[p].last \in 0 .. Len(script)
      /\ Len(script) \in Nat /\ DOMAIN script = 1 .. Len(script)
  BY Here DEF Records
<1> QED BY <1>1 DEF OtherTypes

LEMMA TypedOffset ==
  ASSUME ProcessInv, OtherTypes, UserTypes
  PROVE  /\ offset' \in 0 .. Len(script)
         /\ offset' = offset \/ (~batch /\ offset' = offset + 1)
         /\ offset <= offset'
<1>1. offset \in 0 .. Len(script) /\ Len(script) \in Nat
  BY Here DEF OtherTypes
<1> QED BY <1>1 DEF UserTypes

LEMMA NextOtherTypes ==
  ASSUME ProcessInv, OtherTypes, [Next]_vars
  PROVE  OtherTypes'
<1>1. CASE UNCHANGED vars
  BY <1>1 DEF vars, histories, OtherTypes
<1>2. ASSUME NEW p \in Processes, Runs(p) \/ UserActs(p)
      PROVE  OtherTypes'
  <2> USE DEF histories
  <2>0. Len(script) \in Nat
    BY Here
  <2>1. CASE ReadLine(p)
    <3>1. executed' \in [DOMAIN script -> Nat]
      BY <2>1, NextLine, StartsCounts DEF ReadLine
    <3> QED BY <2>1, <3>1 DEF ReadLine, OtherTypes
  <2>2. CASE FillBuffer(p)
    BY <2>0, <2>2, BoundsAssumption DEF FillBuffer, OtherTypes
  <2>3. CASE EndOfFile(p) \/ ReadPipe(p) \/ PipeFails(p) \/ Fork(p) \/ ForkLeft(p) \/ ForkRight(p)
              \/ Wait(p) \/ OpenFiles(p) \/ Exec(p)
    BY <2>3 DEF EndOfFile, ReadPipe, PipeFails, Fork, ForkLeft, ForkRight, Wait, OpenFiles, Exec, OtherTypes
  <2>4. CASE ForkFails(p) \/ ForkLeftFails(p) \/ ForkRightFails(p)
    <3>1. forkFailures' \in 0 .. MaxForkFailures
      BY <2>4, FailuresBounded DEF ForkFails, ForkLeftFails, ForkRightFails, OtherTypes
    <3> QED BY <2>4, <3>1 DEF ForkFails, ForkLeftFails, ForkRightFails, OtherTypes
  <2>5. CASE Quit(p)
    <3>1. offset' \in 0 .. Len(script) /\ rewound' \in BOOLEAN
      BY <2>5, ExitsOffset DEF Quit
    <3> QED BY <2>5, <3>1 DEF Quit, OtherTypes
  <2>6. CASE OpenFails(p)
    <3>1. offset' \in 0 .. Len(script) /\ rewound' \in BOOLEAN
      BY <2>6, ExitsOffset DEF OpenFails
    <3> QED BY <2>6, <3>1 DEF OpenFails, OtherTypes
  <2>7. CASE ExecFails(p)
    <3>1. offset' \in 0 .. Len(script) /\ rewound' \in BOOLEAN
      BY <2>7, ExitsOffset DEF ExecFails
    <3> QED BY <2>7, <3>1 DEF ExecFails, OtherTypes
  <2>8. CASE ProgramEnds(p)
    BY <2>8 DEF ProgramEnds, Dies, OtherTypes
  <2>9. CASE Builtin(p)
    BY <2>9 DEF Builtin, OtherTypes
  <2>10. CASE BuiltinInChild(p)
    <3>1. \/ Exits(p, Plumbed(process[p])) /\ UNCHANGED copies
          \/ UNCHANGED <<offset, rewound>> /\ copies' \in {copies, copies + 1}
      BY <2>10 DEF BuiltinInChild, Dies
    <3>2. copies' \in Nat
      BY <3>1 DEF OtherTypes
    <3>3. offset' \in 0 .. Len(script) /\ rewound' \in BOOLEAN
      <4>1. CASE Exits(p, Plumbed(process[p]))
        BY <4>1, ExitsOffset
      <4>2. CASE UNCHANGED <<offset, rewound>>
        BY <4>2 DEF OtherTypes
      <4> QED BY <3>1, <4>1, <4>2
    <3> QED BY <2>10, <3>2, <3>3 DEF BuiltinInChild, OtherTypes
  <2>11. CASE ReadTyped(p)
    <3>1. executed' \in [DOMAIN script -> Nat] /\ offset' \in 0 .. Len(script)
      BY <2>11, NextLine, StartsCounts DEF ReadTyped
    <3> QED BY <2>11, <3>1 DEF ReadTyped, OtherTypes
  <2>12. CASE PressEnter(p)
    <3>1. offset' \in 0 .. Len(script)
      BY <2>12, TypedOffset DEF PressEnter
    <3> QED BY <2>12, <3>1 DEF PressEnter, OtherTypes
  <2>13. CASE PressEnterInChild(p)
    <3>1. offset' \in 0 .. Len(script) /\ rewound' \in BOOLEAN
      BY <2>13, TypedOffset, ExitsOffset DEF PressEnterInChild, OtherTypes
    <3> QED BY <2>13, <3>1 DEF PressEnterInChild, OtherTypes
  <2> QED BY <1>2, <2>1, <2>2, <2>3, <2>4, <2>5, <2>6, <2>7, <2>8, <2>9, <2>10, <2>11, <2>12, <2>13
          DEF Runs, UserActs
<1> QED BY <1>1, <1>2 DEF Next

-----------------------------------------------------------------------------
(***************************************************************************)
(* The lines.                                                              *)
(***************************************************************************)
SameBuffer(r, q) == r.next = q.next /\ r.last = q.last

\* Nobody becomes a reader, and every buffer is empty or one there was.
BuffersKept ==
  \A p \in Processes :
    /\ process'[p].pc \in Shells =>
         process[p].pc \in Shells /\ SameBuffer(process'[p], process[p])
    /\ \/ process'[p].next > process'[p].last
       \/ \E q \in Processes : SameBuffer(process'[p], process[q])

LEMMA ReadersFinite ==
  ASSUME NEW k
  PROVE  IsFiniteSet(Readers(k)) /\ Cardinality(Readers(k)) \in Nat
BY ProcessesFinite DEF Readers

\* Steps that take no line.
LEMMA LinesKept ==
  ASSUME ProcessInv, OtherTypes, OtherTypes', LinesInv, BuffersKept,
         UNCHANGED <<batch, script, executed, copies>>,
         rewound => rewound',
         rewound' \/ offset' = offset \/ (~batch /\ offset <= offset')
  PROVE  LinesInv'
<1> SUFFICES ASSUME ~rewound' PROVE LinesInv'
  BY DEF LinesInv
<1>1. ~rewound
  OBVIOUS
<1>2. ASSUME batch
      PROVE  /\ offset' < Len(script) =>
                  /\ \A k \in DOMAIN script : executed[k] = 0
                  /\ \A p \in Processes : process'[p].next > process'[p].last
             /\ \A k \in DOMAIN script : executed[k] + Cardinality(Readers(k)') <= 1 + copies
  <2>1. offset' = offset
    BY <1>2
  <2>2. ASSUME offset < Len(script), NEW p \in Processes
        PROVE  process'[p].next > process'[p].last
    <3>1. \A q \in Processes : process[q].next > process[q].last
      BY <1>1, <1>2, <2>2 DEF LinesInv
    <3> QED BY <3>1 DEF BuffersKept, SameBuffer
  <2>3. ASSUME NEW k \in DOMAIN script
        PROVE  executed[k] + Cardinality(Readers(k)') <= 1 + copies
    <3>1. Readers(k)' \subseteq Readers(k)
      BY DEF BuffersKept, SameBuffer, Readers
    <3>2. Cardinality(Readers(k)') <= Cardinality(Readers(k))
      BY <3>1, ReadersFinite, FS_Subset
    <3>3. Cardinality(Readers(k)') \in Nat
      BY <3>1, ReadersFinite, FS_Subset, FS_CardinalityType
    <3>4. executed[k] + Cardinality(Readers(k)) <= 1 + copies
      BY <1>1, <1>2 DEF LinesInv
    <3>5. executed[k] \in Nat /\ copies \in Nat
      BY DEF OtherTypes
    <3> QED BY <3>2, <3>3, <3>4, <3>5, ReadersFinite
  <2> QED BY <1>1, <1>2, <2>1, <2>2, <2>3 DEF LinesInv
<1>3. ASSUME ~batch, NEW k \in DOMAIN script
      PROVE  executed[k] <= (IF k <= offset' THEN 1 ELSE 0)
  <2>1. executed[k] <= (IF k <= offset THEN 1 ELSE 0)
    BY <1>1, <1>3 DEF LinesInv
  <2>2. offset <= offset' /\ offset \in Nat /\ offset' \in Nat /\ k \in Nat /\ executed[k] \in Nat
    BY <1>3, Here, ProcessSet DEF OtherTypes
  <2> QED BY <2>1, <2>2
<1> QED BY <1>2, <1>3 DEF LinesInv

LEMMA LocalBuffers ==
  ASSUME ProcessInv, NEW p \in Processes, NEW r, process' = [process EXCEPT ![p] = r],
         r.pc \in Shells => process[p].pc \in Shells,
         SameBuffer(r, process[p])
  PROVE  BuffersKept
BY DEF ProcessInv, ProcessTypes, BuffersKept, SameBuffer

LEMMA EndBuffers ==
  ASSUME NEW p \in Processes, process' = AfterEndOf(p)
  PROVE  BuffersKept
<1> SUFFICES ASSUME NEW q \in Processes
             PROVE  /\ process'[q].pc \in Shells =>
                         process[q].pc \in Shells /\ SameBuffer(process'[q], process[q])
                    /\ \/ process'[q].next > process'[q].last
                       \/ \E x \in Processes : SameBuffer(process'[q], process[x])
  BY DEF BuffersKept
<1>1. Free.pc \notin Shells /\ Free.next > Free.last /\ "zombie" \notin Shells
  BY DEF Free, Shells, ShellLabels
<1>2. CASE q = p
  <2>1. process'[q] = Remains(p)
    BY <1>2 DEF AfterEndOf, Remains
  <2>2. Remains(p).pc \notin Shells /\ Remains(p).next = 1 /\ Remains(p).last = 0
    BY DEF Remains, Free, Shells, ShellLabels
  <2> QED BY <2>1, <2>2
<1>3. CASE q # p /\ process[q].parent # p
  BY <1>3 DEF AfterEndOf, SameBuffer
<1>4. CASE q # p /\ process[q].parent = p /\ At(q, "zombie")
  BY <1>1, <1>4 DEF AfterEndOf
<1>5. CASE q # p /\ process[q].parent = p /\ ~At(q, "zombie")
  <2>1. process'[q] = [process[q] EXCEPT !.parent = NoParent]
    BY <1>5 DEF AfterEndOf
  <2>2. /\ process'[q].pc = process[q].pc /\ SameBuffer(process'[q], process[q])
    BY <2>1 DEF SameBuffer
  <2> QED BY <2>2
<1> QED BY <1>2, <1>3, <1>4, <1>5

LEMMA ForkBuffers ==
  ASSUME ProcessInv, NEW p \in Processes, NEW c \in FreeSlots, NEW child, NEW r,
         process' = [process EXCEPT ![c] = child, ![p] = r],
         child.pc \notin Shells, SameBuffer(child, process[p]),
         process[p].pc \in Shells, SameBuffer(r, process[p])
  PROVE  BuffersKept
BY DEF ProcessInv, ProcessTypes, BuffersKept, SameBuffer, FreeSlots

LEMMA WaitBuffers ==
  ASSUME ProcessInv, NEW p \in Processes, NEW z \in Processes, NEW r,
         process' = [process EXCEPT ![z] = Free, ![p] = r],
         process[p].pc \in Shells, SameBuffer(r, process[p])
  PROVE  BuffersKept
<1>1. Free.pc \notin Shells /\ Free.next > Free.last
  BY DEF Free, Shells, ShellLabels
<1> QED BY <1>1 DEF ProcessInv, ProcessTypes, BuffersKept, SameBuffer

\* Most steps of a shell leave what is in its buffer alone.
LEMMA ShellBuffers ==
  ASSUME ProcessInv, NEW p \in Processes,
         \/ EndOfFile(p) \/ ReadPipe(p) \/ PipeFails(p) \/ Builtin(p) \/ PressEnter(p)
         \/ ForkFails(p) \/ ForkLeftFails(p) \/ ForkRightFails(p)
  PROVE  BuffersKept
<1> DEFINE q == process[p]
           w == WithPipe(q)
           Same(r) == process' = [process EXCEPT ![p] = r] /\ SameBuffer(r, q)
<1>1. q \in Records(script) /\ script \in Scripts
  BY Here
<1>2. process[p].pc \in Shells
  BY DEF EndOfFile, ReadPipe, PipeFails, Builtin, PressEnter, ForkFails, ForkLeftFails,
         ForkRightFails, At, Shells, ShellLabels
<1>3. ASSUME NEW label, Goto(p, label) PROVE \E r : Same(r)
  <2>1. SameBuffer([q EXCEPT !.pc = label], q)
    BY <1>1 DEF SameBuffer, Records
  <2> QED BY <1>3, <2>1 DEF Goto, Become
<1>4. ASSUME Become(p, Prompt(q)) PROVE \E r : Same(r)
  <2>1. SameBuffer(Prompt(q), q)
    BY <1>1, PromptFields DEF SameBuffer
  <2> QED BY <1>4, <2>1 DEF Become
<1>5. ASSUME ForkLeftFails(p) PROVE \E r : Same(r)
  <2>1. /\ w \in Records(script) /\ w.next = q.next /\ w.last = q.last
    <3>1. Intact(q) /\ RoomForPipe(q)
      BY <1>5, Here DEF ForkLeftFails, At, Sound, Shells, ShellLabels
    <3> QED BY <3>1, PipeMade
  <2> HIDE DEF w
  <2> DEFINE m == Prompt(w)
             r == [m EXCEPT !.leaks = @ + 1]
  <2>2. m \in Records(script) /\ m.next = q.next /\ m.last = q.last
    BY <1>1, <2>1, PromptFields
  <2> HIDE DEF m
  <2>3. SameBuffer(r, q)
    BY <2>2 DEF SameBuffer, Records
  <2>4. process' = [process EXCEPT ![p] = r]
    BY <1>5 DEF ForkLeftFails, Become, m, w
  <2> QED BY <2>3, <2>4
<1>6. ASSUME ForkRightFails(p) PROVE \E r : Same(r)
  <2> DEFINE m == Prompt(q)
             r == [m EXCEPT !.leaks = @ + 1, !.owed = @ + 1]
  <2>1. m \in Records(script) /\ m.next = q.next /\ m.last = q.last
    BY <1>1, PromptFields
  <2>2. process' = [process EXCEPT ![p] = r]
    BY <1>6 DEF ForkRightFails, Become
  <2> HIDE DEF m
  <2>3. SameBuffer(r, q)
    BY <2>1 DEF SameBuffer, Records
  <2> QED BY <2>2, <2>3
<1>7. process' = AfterEndOf(p) \/ \E r : Same(r)
  <2>1. CASE EndOfFile(p) \/ ReadPipe(p) \/ PipeFails(p)
    <3>1. Goto(p, "exit") \/ Goto(p, "lost")
      BY <2>1 DEF EndOfFile, ReadPipe, PipeFails
    <3> QED BY <1>3, <3>1
  <2>2. CASE Builtin(p)
    <3>1. Become(p, Prompt(q)) \/ process' = AfterEndOf(p) \/ Goto(p, "lost")
      BY <2>2 DEF Builtin
    <3> QED BY <1>3, <1>4, <3>1
  <2>3. CASE ForkFails(p) \/ PressEnter(p)
    BY <1>4, <2>3 DEF ForkFails, PressEnter
  <2> QED BY <1>5, <1>6, <2>1, <2>2, <2>3
<1>8. CASE process' = AfterEndOf(p)
  BY <1>8, EndBuffers
<1>9. ASSUME NEW r, Same(r) PROVE BuffersKept
  BY <1>2, <1>9, LocalBuffers
<1> QED BY <1>7, <1>8, <1>9

\* A child has its parent's buffer, and does not read it.
LEMMA ForksBuffers ==
  ASSUME ProcessInv, NEW p \in Processes, Fork(p) \/ ForkLeft(p) \/ ForkRight(p)
  PROVE  BuffersKept
<1> DEFINE q == process[p]
           c == LeastOf(FreeSlots)
           Pair(child, r) ==
             /\ process' = [process EXCEPT ![c] = child, ![p] = r]
             /\ child.pc \notin Shells
             /\ SameBuffer(child, q) /\ SameBuffer(r, q)
<1>1. q \in Records(script) /\ script \in Scripts /\ c \in FreeSlots
  BY Here, FreeSlotIsFree DEF Fork, ForkLeft, ForkRight
<1>2. process[p].pc \in Shells
  BY DEF Fork, ForkLeft, ForkRight, At, Shells, ShellLabels
<1>3. "redirect" \notin Shells /\ "exec" \notin Shells
  BY DEF Shells, ShellLabels
<1>4. \E child, r : Pair(child, r)
  <2>1. CASE Fork(p)
    <3> DEFINE label == IF Redirects(q.line) THEN "redirect" ELSE "exec"
               child == ChildOf(p, q, label, "none")
               m == Prompt(q)
               r == IF Command(q.line).isBg THEN [m EXCEPT !.owed = @ + 1] ELSE [q EXCEPT !.pc = "wait"]
    <3>1. process' = [process EXCEPT ![c] = child, ![p] = r]
      BY <2>1 DEF Fork
    <3>2. label = "redirect" \/ label = "exec"
      OBVIOUS
    <3>3. child.pc = label /\ SameBuffer(child, q)
      <4> HIDE DEF label
      <4> QED BY <1>1, <3>2, ChildFields DEF SameBuffer
    <3>4. m \in Records(script) /\ m.next = q.next /\ m.last = q.last
      BY <1>1, PromptFields
    <3> HIDE DEF m
    <3>5. SameBuffer([m EXCEPT !.owed = @ + 1], q) /\ SameBuffer([q EXCEPT !.pc = "wait"], q)
      BY <1>1, <3>4 DEF SameBuffer, Records
    <3>6. SameBuffer(r, q)
      BY <3>5
    <3> HIDE DEF child, r, label
    <3>7. Pair(child, r)
      BY <1>3, <3>1, <3>2, <3>3, <3>6
    <3> QED BY <3>7
  <2>2. CASE ForkLeft(p)
    <3> DEFINE w == WithPipe(q)
               child == ChildOf(p, w, "exec", "left")
               r == [w EXCEPT !.pc = "forkRight"]
    <3>1. process' = [process EXCEPT ![c] = child, ![p] = r]
      BY <2>2 DEF ForkLeft
    <3>2. /\ w \in Records(script) /\ w.next = q.next /\ w.last = q.last
      <4>1. Intact(q) /\ RoomForPipe(q)
        BY <2>2, Here DEF ForkLeft, At, Sound, Shells, ShellLabels
      <4> QED BY <4>1, PipeMade
    <3> HIDE DEF w
    <3>3. child.pc = "exec" /\ SameBuffer(child, q)
      BY <1>1, <3>2, ChildFields DEF SameBuffer
    <3>4. SameBuffer(r, q)
      BY <3>2 DEF SameBuffer, Records
    <3> HIDE DEF child, r
    <3>5. Pair(child, r)
      BY <1>3, <3>1, <3>3, <3>4
    <3> QED BY <3>5
  <2>3. CASE ForkRight(p)
    <3> DEFINE child == ChildOf(p, q, "exec", "right")
               r == [q EXCEPT !.pc = "wait", !.owed = @ + 1]
    <3>1. process' = [process EXCEPT ![c] = child, ![p] = r]
      BY <2>3 DEF ForkRight
    <3>2. child.pc = "exec" /\ SameBuffer(child, q)
      BY <1>1, ChildFields DEF SameBuffer
    <3>3. SameBuffer(r, q)
      BY <1>1 DEF SameBuffer, Records
    <3> HIDE DEF child, r
    <3>4. Pair(child, r)
      BY <1>3, <3>1, <3>2, <3>3
    <3> QED BY <3>4
  <2> QED BY <2>1, <2>2, <2>3
<1>5. PICK child, r : Pair(child, r)
  BY <1>4
<1> HIDE DEF c
<1> QED BY <1>1, <1>2, <1>5, ForkBuffers

LEMMA WaitsBuffers ==
  ASSUME ProcessInv, NEW p \in Processes, Wait(p)
  PROVE  BuffersKept
<1> DEFINE q == process[p]
           m == Prompt(q)
           r == [m EXCEPT !.fds = Close(@, {q.rd, q.wr} \ {0})]
<1>1. PICK z \in Processes : process' = [process EXCEPT ![z] = Free, ![p] = r]
  BY DEF Wait
<1>2. process[p].pc \in Shells
  BY DEF Wait, At, Shells, ShellLabels
<1>3. m \in Records(script) /\ m.next = q.next /\ m.last = q.last
  BY Here, PromptFields
<1>4. SameBuffer(r, q)
  <2> HIDE DEF m
  <2> QED BY <1>3 DEF SameBuffer, Records
<1> HIDE DEF r
<1> QED BY <1>1, <1>2, <1>4, WaitBuffers

LEMMA ChildBuffers ==
  ASSUME ProcessInv, NEW c \in Processes, OpenFiles(c) \/ Exec(c)
  PROVE  BuffersKept
<1> DEFINE q == process[c]
           With(label, fds) == [q EXCEPT !.pc = label, !.fds = fds]
<1>1. \E label, fds : /\ process' = [process EXCEPT ![c] = With(label, fds)]
                      /\ label \in {"exec", "run"}
  BY DEF OpenFiles, Exec, Become
<1>2. PICK label, fds : /\ process' = [process EXCEPT ![c] = With(label, fds)]
                        /\ label \in {"exec", "run"}
  BY <1>1
<1>3. SameBuffer(With(label, fds), q) /\ With(label, fds).pc = label
  BY Here DEF SameBuffer, Records
<1>4. label \notin Shells
  BY <1>2 DEF Shells, ShellLabels
<1> HIDE DEF With
<1> QED BY <1>2, <1>3, <1>4, LocalBuffers

\* A line taken from a buffer: one reader less.
LEMMA ReadLineLines ==
  ASSUME ProcessInv, OtherTypes, LinesInv, NEW p \in Processes, ReadLine(p)
  PROVE  LinesInv'
<1> DEFINE k == process[p].next
           r == [process[p] EXCEPT !.next = @ + 1]
           line == IF FirstStep(k) = "read" THEN 0 ELSE k
           n == [r EXCEPT !.pc = FirstStep(k), !.line = line]
<1> SUFFICES ASSUME ~rewound PROVE LinesInv'
  BY DEF LinesInv, ReadLine
<1>1. /\ batch /\ process[p].pc = "read" /\ k <= process[p].last /\ Starts(p, r, k)
      /\ batch' = batch /\ script' = script /\ offset' = offset /\ copies' = copies
  BY DEF ReadLine, At
<1>2. k \in DOMAIN script /\ k \in Nat /\ process[p].last \in Nat /\ process \in [Processes -> Records(script)]
  BY <1>1, NextLine, Here DEF Records, ProcessInv, ProcessTypes
<1>3. \A j \in DOMAIN script : executed'[j] = IF j = k THEN executed[j] + 1 ELSE executed[j]
  BY <1>1, <1>2, StartsCounts
<1>4. process' = [process EXCEPT ![p] = n]
  BY <1>1 DEF Starts, Become
<1>5. n.next = k + 1 /\ n.last = process[p].last
  BY Here DEF Records
<1>6. p \in Readers(k)
  BY <1>1, <1>2 DEF Readers, Shells, ShellLabels
<1> HIDE DEF n, r, k
<1>7. ~ (offset < Len(script))
  BY <1>1, <1>2 DEF LinesInv, k
<1>8. ASSUME NEW j \in DOMAIN script
      PROVE  executed'[j] + Cardinality(Readers(j)') <= 1 + copies
  <2>1. Readers(j)' \subseteq Readers(j)
    <3> SUFFICES ASSUME NEW q \in Readers(j)' PROVE q \in Readers(j)
      OBVIOUS
    <3>1. CASE q = p
      <4>1. process'[p] = n /\ j \in Nat
        BY <1>2, <1>4, Here
      <4>2. k + 1 <= j /\ j <= process[p].last
        BY <1>5, <3>1, <4>1 DEF Readers
      <4> QED BY <1>1, <1>2, <3>1, <4>1, <4>2 DEF Readers, Shells, ShellLabels, k
    <3>2. CASE q # p
      BY <1>2, <1>4, <3>2 DEF Readers
    <3> QED BY <3>1, <3>2
  <2>2. /\ Cardinality(Readers(j)') \in Nat /\ Cardinality(Readers(j)') <= Cardinality(Readers(j))
        /\ IsFiniteSet(Readers(j)) /\ Cardinality(Readers(j)) \in Nat
    BY <2>1, ReadersFinite, FS_Subset, FS_CardinalityType
  <2>3. executed[j] + Cardinality(Readers(j)) <= 1 + copies
    BY <1>1 DEF LinesInv
  <2>4. executed[j] \in Nat /\ copies \in Nat
    BY DEF OtherTypes
  <2>5. CASE j # k
    BY <1>3, <2>2, <2>3, <2>4, <2>5
  <2>6. CASE j = k
    <3>1. p \notin Readers(j)'
      <4>1. process'[p] = n
        BY <1>2, <1>4
      <4>2. ~ (n.next <= j)
        BY <1>2, <1>5, <2>6
      <4> QED BY <4>1, <4>2 DEF Readers
    <3>2. Readers(j)' \subseteq Readers(j) \ {p}
      BY <2>1, <3>1
    <3>3. /\ IsFiniteSet(Readers(j) \ {p})
          /\ Cardinality(Readers(j) \ {p}) = Cardinality(Readers(j)) - 1
      BY <1>6, <2>2, <2>6, FS_RemoveElement
    <3>4. Cardinality(Readers(j)') <= Cardinality(Readers(j) \ {p})
      BY <3>2, <3>3, FS_Subset
    <3> QED BY <1>3, <2>2, <2>3, <2>4, <2>6, <3>3, <3>4
  <2> QED BY <2>5, <2>6
<1> QED BY <1>1, <1>7, <1>8 DEF LinesInv

\* The file is read while nobody has any of its lines.
LEMMA FillBufferLines ==
  ASSUME ProcessInv, OtherTypes, LinesInv, NEW p \in Processes, FillBuffer(p)
  PROVE  LinesInv'
<1> DEFINE r == [process[p] EXCEPT !.next = offset + 1, !.last = Len(script)]
<1> SUFFICES ASSUME ~rewound PROVE LinesInv'
  BY DEF LinesInv, FillBuffer, histories
<1>1. /\ batch /\ offset < Len(script) /\ process' = [process EXCEPT ![p] = r]
      /\ offset' = Len(script) /\ Len(script) \in Nat
      /\ batch' = batch /\ script' = script /\ copies' = copies /\ executed' = executed
  BY Here DEF FillBuffer, Become, histories
<1>2. \A k \in DOMAIN script : executed[k] = 0
  BY <1>1 DEF LinesInv
<1>3. \A q \in Processes :
        /\ process[q].next > process[q].last
        /\ process[q].next \in Nat /\ process[q].last \in Nat
  BY <1>1, Here DEF LinesInv, Records
<1> HIDE DEF r
<1>4. \A q \in Processes : q # p => process'[q] = process[q]
  BY <1>1 DEF ProcessInv, ProcessTypes
<1>5. ASSUME NEW k \in DOMAIN script
      PROVE  executed'[k] + Cardinality(Readers(k)') <= 1 + copies
  <2>1. Readers(k)' \subseteq {p}
    <3> SUFFICES ASSUME NEW q \in Processes, q # p, process'[q].next <= k, k <= process'[q].last
                 PROVE  FALSE
      BY DEF Readers
    <3>1. process[q].next <= k /\ k <= process[q].last /\ k \in Nat
      BY <1>4, Here
    <3> QED BY <1>3, <3>1
  <2>2. IsFiniteSet({p}) /\ Cardinality({p}) = 1
    BY FS_Singleton
  <2>3. Cardinality(Readers(k)') \in Nat /\ Cardinality(Readers(k)') <= 1
    BY <2>1, <2>2, FS_Subset, FS_CardinalityType
  <2> QED BY <1>1, <1>2, <2>3 DEF OtherTypes
<1> QED BY <1>1, <1>5 DEF LinesInv

\* What is typed is taken by one shell.
LEMMA ReadTypedLines ==
  ASSUME ProcessInv, OtherTypes, LinesInv, NEW p \in Processes, ReadTyped(p)
  PROVE  LinesInv'
<1> SUFFICES ASSUME ~rewound PROVE LinesInv'
  BY DEF LinesInv, ReadTyped
<1>1. /\ ~batch /\ batch' = batch /\ script' = script /\ offset' = offset + 1
      /\ offset < Len(script) /\ Starts(p, process[p], offset + 1)
  BY DEF ReadTyped
<1>2. \A j \in DOMAIN script : executed'[j] = IF j = offset + 1 THEN executed[j] + 1 ELSE executed[j]
  BY <1>1, NextLine, StartsCounts
<1>3. ASSUME NEW j \in DOMAIN script PROVE executed'[j] <= (IF j <= offset' THEN 1 ELSE 0)
  <2>1. executed[j] <= (IF j <= offset THEN 1 ELSE 0)
    BY <1>1 DEF LinesInv
  <2>2. executed[j] \in Nat /\ offset \in Nat /\ j \in Nat
    BY Here DEF OtherTypes
  <2> QED BY <1>1, <1>2, <2>1, <2>2
<1> QED BY <1>1, <1>3 DEF LinesInv

\* A second shell has a copy of what is left in its parent's buffer.
LEMMA SecondShellLines ==
  ASSUME ProcessInv, OtherTypes, LinesInv, NEW c \in Processes, NEW r,
         process' = [process EXCEPT ![c] = r], SameBuffer(r, process[c]),
         copies' = copies + 1, UNCHANGED <<batch, script, offset, executed, rewound>>
  PROVE  LinesInv'
<1> SUFFICES ASSUME ~rewound PROVE LinesInv'
  BY DEF LinesInv
<1>1. /\ \A q \in Processes : q # c => process'[q] = process[q]
      /\ process'[c] = r
  BY DEF ProcessInv, ProcessTypes
<1>2. ASSUME batch, NEW k \in DOMAIN script
      PROVE  executed[k] + Cardinality(Readers(k)') <= 1 + copies'
  <2>1. Readers(k)' \subseteq Readers(k) \cup {c}
    BY <1>1 DEF Readers
  <2>2. /\ IsFiniteSet(Readers(k) \cup {c})
        /\ \/ Cardinality(Readers(k) \cup {c}) = Cardinality(Readers(k))
           \/ Cardinality(Readers(k) \cup {c}) = Cardinality(Readers(k)) + 1
    BY ReadersFinite, FS_AddElement
  <2>3. /\ Cardinality(Readers(k)') \in Nat
        /\ Cardinality(Readers(k)') <= Cardinality(Readers(k) \cup {c})
    BY <2>1, <2>2, FS_Subset, FS_CardinalityType
  <2>4. executed[k] + Cardinality(Readers(k)) <= 1 + copies
    BY <1>2 DEF LinesInv
  <2>5. executed[k] \in Nat /\ copies \in Nat /\ Cardinality(Readers(k)) \in Nat
    BY ReadersFinite DEF OtherTypes
  <2> QED BY <2>2, <2>3, <2>4, <2>5
<1>3. ASSUME batch, offset < Len(script), NEW q \in Processes
      PROVE  process'[q].next > process'[q].last
  BY <1>1, <1>3 DEF LinesInv, SameBuffer
<1> QED BY <1>2, <1>3 DEF LinesInv

LEMMA BuiltinInChildLines ==
  ASSUME ProcessInv, OtherTypes, OtherTypes', LinesInv, NEW c \in Processes, BuiltinInChild(c)
  PROVE  LinesInv'
<1> DEFINE q == process[c]
           fds == Plumbed(q)
           second == [q EXCEPT !.fds = fds, !.side = "none"]
           lost == [q EXCEPT !.pc = "lost", !.fds = fds]
<1>1. UNCHANGED <<batch, script, executed>> /\ q.pc = "exec"
  BY DEF BuiltinInChild, At
<1>2. \/ Exits(c, fds) /\ UNCHANGED copies
      \/ Dies(c) /\ UNCHANGED copies
      \/ /\ process' = [process EXCEPT ![c] = Prompt(second)]
         /\ copies' = copies + 1 /\ UNCHANGED <<offset, rewound>>
      \/ /\ process' = [process EXCEPT ![c] = lost]
         /\ UNCHANGED <<offset, rewound, copies>>
  BY DEF BuiltinInChild, Become
<1>3. q \in Records(script) /\ script \in Scripts /\ fds \in [Descriptors -> FdTypes]
  BY <1>1, Here, PlumbedFds
<1> HIDE DEF fds
<1>5. CASE Exits(c, fds) /\ UNCHANGED copies
  <2>1. process' = AfterEndOf(c)
    BY <1>5 DEF Exits
  <2> QED BY <1>1, <1>5, <2>1, ExitsOffset, EndBuffers, LinesKept
<1>6. CASE Dies(c) /\ UNCHANGED copies
  BY <1>1, <1>6, EndBuffers, LinesKept DEF Dies
<1>7. CASE /\ process' = [process EXCEPT ![c] = Prompt(second)]
           /\ copies' = copies + 1 /\ UNCHANGED <<offset, rewound>>
  <2>1. second \in Records(script) /\ second.next = q.next /\ second.last = q.last
    BY <1>3 DEF Records
  <2> HIDE DEF second
  <2>2. SameBuffer(Prompt(second), process[c])
    BY <1>3, <2>1, PromptFields DEF SameBuffer
  <2> QED BY <1>1, <1>7, <2>2, SecondShellLines
<1>8. CASE /\ process' = [process EXCEPT ![c] = lost]
           /\ UNCHANGED <<offset, rewound, copies>>
  <2>1. lost.pc \notin Shells /\ SameBuffer(lost, process[c])
    BY <1>3 DEF Records, SameBuffer, Shells
  <2> HIDE DEF lost
  <2>2. BuffersKept
    BY <1>8, <2>1, LocalBuffers
  <2> QED BY <1>1, <1>8, <2>2, LinesKept
<1> QED BY <1>2, <1>5, <1>6, <1>7, <1>8

LEMMA PressEnterInChildLines ==
  ASSUME ProcessInv, OtherTypes, OtherTypes', LinesInv, NEW c \in Processes, PressEnterInChild(c)
  PROVE  LinesInv'
<1>1. UNCHANGED <<batch, script, executed, copies>>
  BY DEF PressEnterInChild
<1>2. process' = AfterEndOf(c)
  BY DEF PressEnterInChild, Exits
<1>3. BuffersKept
  BY <1>2, EndBuffers
<1>4. CASE batch
  <2>1. (rewound => rewound') /\ (offset' = offset \/ rewound')
    BY <1>4, ExitsOffset DEF PressEnterInChild
  <2> QED BY <1>1, <1>3, <2>1, LinesKept
<1>5. CASE ~batch
  <2>1. UserTypes /\ rewound' = rewound
    BY <1>5 DEF PressEnterInChild
  <2>2. offset <= offset'
    BY <2>1, TypedOffset
  <2> QED BY <1>1, <1>3, <1>5, <2>1, <2>2, LinesKept
<1> QED BY <1>4, <1>5

LEMMA InitLinesInv ==
  Init => LinesInv
<1> SUFFICES ASSUME Init PROVE LinesInv
  OBVIOUS
<1>1. \A p \in Processes : process[p].next > process[p].last
  <2>1. \A p \in Processes : process[p].next = 1 /\ process[p].last = 0
    BY DEF Init, FirstShell, Free
  <2> QED BY <2>1
<1>2. ASSUME NEW k \in DOMAIN script
      PROVE  executed[k] = 0 /\ Cardinality(Readers(k)) = 0 /\ k > offset
  <2>1. k \in 1 .. Len(script) /\ Len(script) \in Nat /\ offset = 0
    BY ScriptLength DEF Init
  <2>2. \A p \in Processes : process[p].next = 1 /\ process[p].last = 0
    BY DEF Init, FirstShell, Free
  <2>3. Readers(k) = {}
    BY <2>1, <2>2 DEF Readers
  <2> QED BY <2>1, <2>3, FS_EmptySet DEF Init
<1>3. copies = 0
  BY DEF Init
<1> QED BY <1>1, <1>2, <1>3 DEF LinesInv

LEMMA NextLinesInv ==
  ASSUME ProcessInv, OtherTypes, LinesInv, [Next]_vars
  PROVE  LinesInv'
<1> USE DEF histories
<1>0. OtherTypes'
  BY NextOtherTypes
<1>1. CASE UNCHANGED vars
  <2>1. BuffersKept
    BY <1>1 DEF vars, BuffersKept, SameBuffer
  <2> QED BY <1>0, <1>1, <2>1, LinesKept DEF vars
<1>2. ASSUME NEW p \in Processes, Runs(p) \/ UserActs(p)
      PROVE  LinesInv'
  <2>1. CASE ReadLine(p)
    BY <2>1, ReadLineLines
  <2>2. CASE FillBuffer(p)
    BY <2>2, FillBufferLines
  <2>3. CASE ReadTyped(p)
    BY <2>3, ReadTypedLines
  <2>4. CASE BuiltinInChild(p)
    BY <1>0, <2>4, BuiltinInChildLines
  <2>5. CASE EndOfFile(p) \/ ReadPipe(p) \/ PipeFails(p) \/ ForkFails(p) \/ ForkLeftFails(p) \/ ForkRightFails(p)
    <3>1. BuffersKept
      BY <2>5, ShellBuffers
    <3>2. UNCHANGED <<batch, script, executed, copies, offset, rewound>>
      BY <2>5 DEF EndOfFile, ReadPipe, PipeFails, ForkFails, ForkLeftFails, ForkRightFails
    <3> QED BY <1>0, <3>1, <3>2, LinesKept
  <2>6. CASE Builtin(p)
    <3>1. BuffersKept
      BY <2>6, ShellBuffers
    <3>2. UNCHANGED <<batch, script, executed, copies, offset, rewound>>
      BY <2>6 DEF Builtin
    <3> QED BY <1>0, <3>1, <3>2, LinesKept
  <2>7. CASE Fork(p) \/ ForkLeft(p) \/ ForkRight(p)
    <3>1. BuffersKept
      BY <2>7, ForksBuffers
    <3>2. UNCHANGED <<batch, script, executed, copies, offset, rewound>>
      BY <2>7 DEF Fork, ForkLeft, ForkRight
    <3> QED BY <1>0, <3>1, <3>2, LinesKept
  <2>8. CASE Wait(p)
    <3>1. BuffersKept
      BY <2>8, WaitsBuffers
    <3>2. UNCHANGED <<batch, script, executed, copies, offset, rewound>>
      BY <2>8 DEF Wait
    <3> QED BY <1>0, <3>1, <3>2, LinesKept
  <2>9. CASE OpenFiles(p) \/ Exec(p)
    <3>1. BuffersKept
      BY <2>9, ChildBuffers
    <3>2. UNCHANGED <<batch, script, executed, copies, offset, rewound>>
      BY <2>9 DEF OpenFiles, Exec
    <3> QED BY <1>0, <3>1, <3>2, LinesKept
  <2>10. CASE Quit(p) \/ OpenFails(p) \/ ExecFails(p)
    <3>1. PICK fds : Exits(p, fds)
      BY <2>10 DEF Quit, OpenFails, ExecFails
    <3>2. UNCHANGED <<batch, script, executed, copies>>
      BY <2>10 DEF Quit, OpenFails, ExecFails
    <3>3. BuffersKept
      BY <3>1, EndBuffers DEF Exits
    <3>4. (rewound => rewound') /\ (offset' = offset \/ rewound')
      BY <3>1, ExitsOffset
    <3> QED BY <1>0, <3>2, <3>3, <3>4, LinesKept
  <2>11. CASE ProgramEnds(p)
    <3>1. BuffersKept
      BY <2>11, EndBuffers DEF ProgramEnds, Dies
    <3>2. UNCHANGED <<batch, script, executed, copies, offset, rewound>>
      BY <2>11 DEF ProgramEnds, Dies
    <3> QED BY <1>0, <3>1, <3>2, LinesKept
  <2>12. CASE PressEnter(p)
    <3>1. BuffersKept
      BY <2>12, ShellBuffers
    <3>2. UNCHANGED <<batch, script, executed, copies, rewound>> /\ UserTypes
      BY <2>12 DEF PressEnter
    <3>3. (offset' = offset \/ ~batch) /\ offset <= offset'
      BY <3>2, TypedOffset
    <3> QED BY <1>0, <3>1, <3>2, <3>3, LinesKept
  <2>13. CASE PressEnterInChild(p)
    BY <1>0, <2>13, PressEnterInChildLines
  <2> QED BY <1>2, <2>1, <2>2, <2>3, <2>4, <2>5, <2>6, <2>7, <2>8, <2>9, <2>10, <2>11, <2>12, <2>13
          DEF Runs, UserActs
<1> QED BY <1>1, <1>2 DEF Next

-----------------------------------------------------------------------------
(***************************************************************************)
(* The theorems.                                                           *)
(***************************************************************************)
THEOREM ShellInvariant == Spec => []ShellInv
<1>1. Init => ShellInv
  BY InitOtherTypes, InitProcessInv, InitLinesInv DEF ShellInv
<1>2. ShellInv /\ [Next]_vars => ShellInv'
  BY NextOtherTypes, NextProcessInv, NextLinesInv DEF ShellInv
<1> QED BY <1>1, <1>2, PTL DEF Spec

\* Every variable keeps its type, the lines in a process's buffer and its
\* descriptors included, and only a shell is ever a parent.
THEOREM ShellTypes == Spec => []TypeOK
<1>1. ASSUME ShellInv PROVE TypeOK
  <2>1. /\ batch \in BOOLEAN /\ script \in Scripts /\ offset \in 0 .. Len(script)
        /\ reads \in 0 .. MaxReads /\ forkFailures \in 0 .. MaxForkFailures
        /\ executed \in [DOMAIN script -> Nat] /\ copies \in Nat /\ rewound \in BOOLEAN
    BY <1>1 DEF ShellInv, OtherTypes, ProcessInv, ProcessTypes
  <2>2. ProcessInv /\ DOMAIN process = Processes
    BY <1>1 DEF ShellInv, ProcessInv, ProcessTypes
  <2>3. ASSUME NEW p \in Processes
        PROVE  /\ process[p].pc \in {"free"} \cup ShellLabels \cup ChildLabels
               /\ process[p].fds \in [Descriptors -> FdTypes]
               /\ process[p].line \in 0 .. Len(script)
               /\ process[p].side \in {"none", "left", "right"}
               /\ process[p].next \in 1 .. Len(script) + 1 /\ process[p].last \in 0 .. Len(script)
               /\ process[p].owed \in Nat /\ process[p].leaks \in Nat
               /\ At(p, "free") => process[p] = Free
               /\ process[p].parent # NoParent => process[process[p].parent].pc \in ShellLabels
    <3>1. process[p] \in Records(script) /\ Sound(script, process[p])
      BY <2>2, Here
    <3>2. At(p, "free") => process[p] = Free
      BY <3>1 DEF Sound, At
    <3>3. process[p].parent # NoParent => process[process[p].parent].pc \in ShellLabels
      BY <2>2 DEF ProcessInv, Parents
    <3> QED BY <3>1, <3>2, <3>3 DEF Records, Labels
  <2> QED BY <2>1, <2>2, <2>3 DEF TypeOK
<1> QED BY <1>1, ShellInvariant, PTL

\* wait(NULL) may take any child; yet at its prompt a shell has one child for
\* each job and pipe it has left, not one more, however the children ended.
THEOREM ChildrenCounted == Spec => []UnreapedChildren
<1>1. ASSUME ShellInv PROVE UnreapedChildren
  <2> SUFFICES ASSUME NEW p \in Processes, process[p].pc = "read"
               PROVE  Cardinality(ChildrenOf(p)) = process[p].owed
    BY DEF UnreapedChildren, At
  <2>1. Cardinality(ChildrenOf(p)) = process[p].owed + 0
    BY <1>1, ChildCount DEF ShellInv, Awaited
  <2>2. process[p].owed \in Nat
    BY <1>1, Here DEF ShellInv, Records
  <2> QED BY <2>1, <2>2
<1> QED BY <1>1, ShellInvariant, PTL

\* The shell's prompt returns with no end of a pipe open, but for two for each
\* fork that failed in executePipe, whatever descriptors the pipes were given.
THEOREM PipesAreClosed == Spec => []PipesClosed
<1>1. ASSUME ShellInv PROVE PipesClosed
  <2> SUFFICES ASSUME At(First, "read")
               PROVE  Cardinality(PipeEnds(process[First].fds)) = 2 * process[First].leaks
    BY DEF PipesClosed
  <2>1. Cardinality(PipeEnds(process[First].fds)) = 2 * process[First].leaks + 0
    BY <1>1 DEF ShellInv, ProcessInv, FirstIsFirst, Ends, At
  <2>2. process[First].leaks \in Nat
    BY <1>1, Here, ProcessSet DEF ShellInv, Records
  <2> QED BY <2>1, <2>2
<1> QED BY <1>1, ShellInvariant, PTL

\* A program whose line names both files has both, and one whose line names one
\* has that one or finds its standard input or output closed, never the terminal
\* or another file, whatever the variables of executeRedirection held before they
\* were set and when descriptors run out.
THEOREM FilesAreInPlace == Spec => []RedirectionsHold
<1>1. ASSUME ShellInv PROVE RedirectionsHold
  <2>1. ASSUME NEW c \in Processes PROVE Redirected(script, process[c])
    BY <1>1 DEF ShellInv, ProcessInv, Sound
  <2> QED BY <2>1 DEF RedirectionsHold, Redirected, Redirects, Command
<1> QED BY <1>1, ShellInvariant, PTL

\* A line is worked on once, and in a batch once more for each second shell at
\* most, until an exit moves the offset of the batch file.
THEOREM EachLineOnce == Spec => []LinesRunOnce
<1>1. ASSUME ShellInv PROVE LinesRunOnce
  <2> SUFFICES ASSUME ~rewound, NEW k \in DOMAIN script
               PROVE  executed[k] <= 1 + (IF batch THEN copies ELSE 0)
    BY DEF LinesRunOnce
  <2>1. executed[k] \in Nat /\ copies \in Nat /\ Cardinality(Readers(k)) \in Nat
    BY <1>1, ReadersFinite DEF ShellInv, OtherTypes
  <2>2. CASE batch
    <3>1. executed[k] + Cardinality(Readers(k)) <= 1 + copies
      BY <1>1, <2>2 DEF ShellInv, LinesInv
    <3> QED BY <2>1, <2>2, <3>1
  <2>3. CASE ~batch
    <3>1. executed[k] <= (IF k <= offset THEN 1 ELSE 0)
      BY <1>1, <2>3 DEF ShellInv, LinesInv
    <3> QED BY <2>1, <2>3, <3>1
  <2> QED BY <2>2, <2>3
<1> QED BY <1>1, ShellInvariant, PTL
=============================================================================
