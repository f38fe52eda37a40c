-------------------------- MODULE CommandLineProofs --------------------------
(***************************************************************************)
(* What the shell makes of a command line, for every sequence of tokens,   *)
(* and what the file copier makes of its own, for every command line and   *)
(* every disk: which files it may change, and what its copies hold.        *)
(***************************************************************************)
EXTENDS Tools, SequenceTheorems, WellFoundedInduction, TLAPS

-----------------------------------------------------------------------------
(***************************************************************************)
(* Natural numbers: induction, with the set of those it is for.            *)
(***************************************************************************)
LEMMA LeastNumber ==
  ASSUME NEW S \in SUBSET Nat, S # {}
  PROVE  \E m \in S : \A k \in S : m <= k
<1> DEFINE less == OpToRel(<, Nat)
<1>1. \A m, k \in Nat : <<m, k>> \in less <=> m < k
  BY DEF OpToRel
<1>2. IsWellFoundedOn(less, Nat)
  BY NatLessThanWellFounded
<1> HIDE DEF less
<1>3. \E m \in S : \A k \in S : <<k, m>> \notin less
  BY <1>2, WFMin
<1>4. PICK m \in S : \A k \in S : <<k, m>> \notin less
  BY <1>3
<1>5. ASSUME NEW k \in S PROVE m <= k
  <2>1. m \in Nat /\ k \in Nat /\ ~ k < m
    BY <1>1, <1>4
  <2> QED BY <2>1
<1> QED BY <1>4, <1>5

LEMMA SetInduction ==
  ASSUME NEW n \in Nat, NEW S, 0 \in S, \A k \in 0 .. n - 1 : k \in S => k + 1 \in S
  PROVE  n \in S
<1> SUFFICES ASSUME n \notin S PROVE FALSE
  OBVIOUS
<1> DEFINE missing == {k \in 0 .. n : k \notin S}
<1>1. missing \in SUBSET Nat /\ missing # {}
  OBVIOUS
<1>2. PICK m \in missing : \A k \in missing : m <= k
  BY <1>1, LeastNumber
<1>3. m # 0 /\ m - 1 \in 0 .. n - 1 /\ (m - 1) + 1 = m
  BY <1>2
<1>4. m - 1 \in S
  BY <1>2, <1>3
<1> QED BY <1>2, <1>3, <1>4

LEMMA MaxOfInterval ==
  ASSUME NEW n \in Nat, NEW s \in SUBSET (1 .. n), s # {}
  PROVE  Max(s) \in s /\ \A k \in s : Max(s) >= k
<1> DEFINE above == {m \in Nat : \A k \in s : m >= k}
<1>1. above \in SUBSET Nat /\ n \in above
  OBVIOUS
<1>2. PICK m \in above : \A k \in above : m <= k
  BY <1>1, LeastNumber
<1>3. m \in s
  <2> SUFFICES ASSUME m \notin s PROVE FALSE
    OBVIOUS
  <2>1. \A k \in s : k \in 1 .. n /\ m >= k /\ m # k
    BY <1>2
  <2>2. m # 0
    <3>1. PICK k : k \in s
      OBVIOUS
    <3>2. k \in 1 .. n /\ m >= k
      BY <2>1, <3>1
    <3> QED BY <3>2
  <2>3. m - 1 \in above
    BY <1>2, <2>1, <2>2
  <2> QED BY <1>2, <2>3
<1>4. \E x \in s : \A y \in s : x >= y
  BY <1>2, <1>3
<1> QED BY <1>4 DEF Max

-----------------------------------------------------------------------------
(***************************************************************************)
(* The loop of process.                                                    *)
(***************************************************************************)
\* f takes the first k tokens of w one after the other, as FoldLeft does it: the
\* last one is that with the largest index.
IsLoop(f, w, k) ==
  f = [s \in SUBSET (1 .. k) |-> IF s = {} THEN Start ELSE Turn(f[s \ {Max(s)}], w[Max(s)])]

\* After the first k tokens of w the variables of process are st.
LoopsTo(w, k, st) ==
  (\E f : IsLoop(f, w, k)) /\ \A f : IsLoop(f, w, k) => f[1 .. k] = st

LEMMA LoopIsFold ==
  ASSUME NEW T, NEW w \in Seq(T), NEW st, LoopsTo(w, Len(w), st)
  PROVE  FoldLeft(Turn, Start, w) = st
<1>1. DOMAIN w = 1 .. Len(w)
  BY LenProperties
<1> DEFINE f == CHOOSE f : IsLoop(f, w, Len(w))
<1>2. FoldLeft(Turn, Start, w) = f[1 .. Len(w)]
  BY <1>1, Zenon DEF FoldLeft, MapThenFoldSet, IsLoop
<1>3. IsLoop(f, w, Len(w))
  BY DEF LoopsTo
<1> HIDE DEF f
<1> QED BY <1>2, <1>3 DEF LoopsTo

LEMMA LoopBegins ==
  ASSUME NEW w
  PROVE  LoopsTo(w, 0, Start)
<1>1. 1 .. 0 = {} /\ SUBSET (1 .. 0) = {{}}
  OBVIOUS
<1>2. ASSUME NEW f, IsLoop(f, w, 0) PROVE f[1 .. 0] = Start
  BY <1>1, <1>2 DEF IsLoop
<1> DEFINE g == [s \in SUBSET (1 .. 0) |-> Start]
<1>3. IsLoop(g, w, 0)
  <2>1. g = [s \in SUBSET (1 .. 0) |-> IF s = {} THEN Start ELSE Turn(g[s \ {Max(s)}], w[Max(s)])]
    BY <1>1
  <2> QED BY <2>1 DEF IsLoop
<1> QED BY <1>2, <1>3 DEF LoopsTo

LEMMA LoopGoesOn ==
  ASSUME NEW w, NEW k \in Nat, NEW st, LoopsTo(w, k, st)
  PROVE  LoopsTo(w, k + 1, Turn(st, w[k + 1]))
<1> DEFINE new == k + 1
<1>1. /\ new \in Nat /\ new \notin 1 .. k /\ 1 .. new = (1 .. k) \cup {new}
      /\ (1 .. new) \ {new} = 1 .. k /\ 1 .. k \in SUBSET (1 .. k)
  OBVIOUS
<1>2. ASSUME NEW s \in SUBSET (1 .. new), new \in s
      PROVE  Max(s) = new /\ s \ {new} \in SUBSET (1 .. k)
  <2>1. Max(s) \in s /\ Max(s) >= new
    BY <1>1, <1>2, MaxOfInterval
  <2>2. Max(s) \in 1 .. new /\ new = k + 1
    BY <2>1
  <2>3. Max(s) = new
    BY <2>1, <2>2
  <2> HIDE DEF new
  <2> QED BY <1>1, <2>3
<1>3. ASSUME NEW s \in SUBSET (1 .. k), s # {}
      PROVE  Max(s) \in 1 .. k /\ s \ {Max(s)} \in SUBSET (1 .. k)
  BY <1>3, MaxOfInterval
<1> HIDE DEF new
<1>4. ASSUME NEW g, IsLoop(g, w, new)
      PROVE  g[1 .. new] = Turn(st, w[new])
  <2> DEFINE f == [s \in SUBSET (1 .. k) |-> g[s]]
  <2>1. \A s \in SUBSET (1 .. new) :
          g[s] = IF s = {} THEN Start ELSE Turn(g[s \ {Max(s)}], w[Max(s)])
    BY <1>4 DEF IsLoop
  <2>2. IsLoop(f, w, k)
    <3>1. ASSUME NEW s \in SUBSET (1 .. k)
          PROVE  g[s] = IF s = {} THEN Start ELSE Turn(f[s \ {Max(s)}], w[Max(s)])
      BY <1>1, <1>3, <2>1
    <3> QED BY <3>1 DEF IsLoop
  <2>3. g[1 .. k] = st
    <3>1. f[1 .. k] = st
      BY <2>2, Zenon DEF LoopsTo
    <3> QED BY <1>1, <3>1
  <2>4. g[1 .. new] = Turn(g[(1 .. new) \ {new}], w[new])
    BY <1>1, <1>2, <2>1
  <2> QED BY <1>1, <2>3, <2>4
<1>5. PICK f : IsLoop(f, w, k)
  BY DEF LoopsTo
<1> DEFINE h == [s \in SUBSET (1 .. new) |-> IF new \in s THEN Turn(f[s \ {new}], w[new]) ELSE f[s]]
<1>6. IsLoop(h, w, new)
  <2>1. ASSUME NEW s \in SUBSET (1 .. new)
        PROVE  h[s] = IF s = {} THEN Start ELSE Turn(h[s \ {Max(s)}], w[Max(s)])
    <3>1. CASE new \in s
      <4>1. h[s] = Turn(f[s \ {new}], w[new])
        BY <3>1
      <4>2. h[s \ {new}] = f[s \ {new}]
        BY <1>1, <1>2, <3>1
      <4> QED BY <1>2, <3>1, <4>1, <4>2
    <3>2. CASE new \notin s
      <4>1. s \in SUBSET (1 .. k)
        BY <1>1, <3>2
      <4>2. h[s] = f[s] /\ f[s] = IF s = {} THEN Start ELSE Turn(f[s \ {Max(s)}], w[Max(s)])
        BY <1>5, <3>2, <4>1 DEF IsLoop
      <4>3. s # {} => h[s \ {Max(s)}] = f[s \ {Max(s)}]
        BY <1>1, <1>3, <3>2, <4>1
      <4> QED BY <4>2, <4>3
    <3> QED BY <3>1, <3>2
  <2>2. h = [s \in SUBSET (1 .. new) |-> h[s]]
    OBVIOUS
  <2> HIDE DEF h
  <2>3. h = [s \in SUBSET (1 .. new) |-> IF s = {} THEN Start ELSE Turn(h[s \ {Max(s)}], w[Max(s)])]
    BY <2>1, <2>2, Zenon
  <2> QED BY <2>3 DEF IsLoop
<1>7. LoopsTo(w, new, Turn(st, w[new]))
  BY <1>4, <1>6, Zenon DEF LoopsTo
<1> QED BY <1>7 DEF new

-----------------------------------------------------------------------------
(***************************************************************************)
(* What the variables of process say of the tokens it has taken.           *)
(***************************************************************************)
Outputs == {">", ">>"}
NameKinds == {"inputName", "outputName", "appendName"}

States ==
  [expect : {"token", "command2", "nothing"} \cup NameKinds, error : BOOLEAN,
   isBg : BOOLEAN, isPipe : BOOLEAN, isAppend : BOOLEAN, hasInput : BOOLEAN, hasOutput : BOOLEAN,
   inputName : Tokens \cup {NoName}, outputName : Tokens \cup {NoName},
   command1 : Seq(Tokens), command2 : Seq(Tokens)]

\* The words of the command, and where the redirections after them end.
Words(st) == Len(st.command1)
End(st) == Words(st) + (IF st.hasInput THEN 2 ELSE 0) + (IF st.hasOutput THEN 2 ELSE 0)

\* Which of the redirections is the first one.
InputAt(w, st) == Words(st) + (IF w[Words(st) + 1] = "<" THEN 1 ELSE 3)
OutputAt(w, st) == Words(st) + (IF w[Words(st) + 1] = "<" THEN 3 ELSE 1)

CommandOK(w, k, st) ==
  /\ Words(st) <= k
  /\ \A j \in 1 .. Words(st) : st.command1[j] = w[j] /\ w[j] \notin Operators

FilesOK(w, st) ==
  /\ st.hasInput /\ ~st.hasOutput => w[Words(st) + 1] = "<"
  /\ st.hasOutput /\ ~st.hasInput => w[Words(st) + 1] \in Outputs
  /\ st.hasInput /\ st.hasOutput =>
       \/ w[Words(st) + 1] = "<" /\ w[Words(st) + 3] \in Outputs
       \/ w[Words(st) + 1] \in Outputs /\ w[Words(st) + 3] = "<"

\* A redirection that has its name has the token behind it.
NamesOK(w, st) ==
  /\ st.inputName =
       IF st.hasInput /\ st.expect # "inputName" THEN w[InputAt(w, st) + 1] ELSE NoName
  /\ st.outputName =
       IF st.hasOutput /\ st.expect \notin {"outputName", "appendName"}
       THEN w[OutputAt(w, st) + 1] ELSE NoName
  /\ st.isAppend <=> /\ st.hasOutput /\ st.expect \notin {"outputName", "appendName"}
                     /\ w[OutputAt(w, st)] = ">>"

\* What makes process refuse a line.
Misplaced(token, st) ==
  \/ token = "<" /\ st.hasInput
  \/ token \in Outputs /\ st.hasOutput
  \/ token \notin Operators /\ (st.hasInput \/ st.hasOutput)

\* A redirection waits for its name.
PendingOK(w, k, st) ==
  /\ k + 1 = End(st)
  /\ st.expect = "inputName" => w[k] = "<" /\ st.hasInput
  /\ st.expect = "outputName" => w[k] = ">" /\ st.hasOutput
  /\ st.expect = "appendName" => w[k] = ">>" /\ st.hasOutput

\* What stands behind the redirections.
TailOK(w, k, st) ==
  /\ st.expect \in {"command2", "nothing"} => k > End(st)
  /\ st.expect = "command2" =>
       /\ w[End(st) + 1] = "|"
       /\ Len(st.command2) = k - (End(st) + 1)
       /\ \A j \in 1 .. Len(st.command2) : st.command2[j] = w[End(st) + 1 + j]
  /\ st.expect # "command2" => st.command2 = <<>>
  /\ st.expect = "nothing" =>
       IF st.error THEN Misplaced(w[End(st) + 1], st) ELSE w[End(st) + 1] = "&"

FlagsOK(st) ==
  /\ st.error => st.expect = "nothing"
  /\ st.isPipe <=> st.expect = "command2"
  /\ st.isBg <=> st.expect = "nothing" /\ ~st.error

ShapeOK(w, k, st) ==
  /\ st \in States
  /\ CommandOK(w, k, st)
  /\ FilesOK(w, st)
  /\ NamesOK(w, st)
  /\ st.expect = "token" => k = End(st)
  /\ st.expect \in NameKinds => PendingOK(w, k, st)
  /\ TailOK(w, k, st)
  /\ FlagsOK(st)

-----------------------------------------------------------------------------
(***************************************************************************)
(* What one turn of the loop changes.                                      *)
(***************************************************************************)
SameFront(st, new) ==
  new.command1 = st.command1 /\ new.hasInput = st.hasInput /\ new.hasOutput = st.hasOutput
SameNames(st, new) ==
  new.inputName = st.inputName /\ new.outputName = st.outputName /\ new.isAppend = st.isAppend
SameTail(st, new) ==
  /\ new.isBg = st.isBg /\ new.isPipe = st.isPipe /\ new.error = st.error
  /\ new.command2 = st.command2

LEMMA Refusing ==
  ASSUME NEW st \in States
  PROVE  /\ Refuse(st) \in States /\ SameFront(st, Refuse(st)) /\ SameNames(st, Refuse(st))
         /\ Refuse(st).expect = "nothing" /\ Refuse(st).error
         /\ Refuse(st).isBg = st.isBg /\ Refuse(st).isPipe = st.isPipe
         /\ Refuse(st).command2 = st.command2
<1> DEFINE new == Refuse(st)
<1>1. new = [st EXCEPT !.expect = "nothing", !.error = TRUE]
  BY DEF Refuse
<1> HIDE DEF new
<1>2. new \in States
  BY <1>1, Zenon DEF States
<1>3. SameFront(st, new) /\ SameNames(st, new)
  BY <1>1, Zenon DEF States, SameFront, SameNames
<1>4. /\ new.expect = "nothing" /\ new.error /\ new.isBg = st.isBg /\ new.isPipe = st.isPipe
      /\ new.command2 = st.command2
  BY <1>1, Zenon DEF States
<1> QED BY <1>2, <1>3, <1>4 DEF new

LEMMA AddToSecond ==
  ASSUME NEW st \in States, NEW t \in Tokens, st.expect = "command2", NEW new, new = Turn(st, t)
  PROVE  /\ new \in States /\ SameFront(st, new) /\ SameNames(st, new)
         /\ new.expect = st.expect /\ new.isBg = st.isBg /\ new.isPipe = st.isPipe
         /\ new.error = st.error /\ new.command2 = Append(st.command2, t)
<1>1. new = [st EXCEPT !.command2 = Append(@, t)]
  BY DEF Turn
<1>2. Append(st.command2, t) \in Seq(Tokens)
  BY DEF States
<1>3. new \in States
  BY <1>1, <1>2, Zenon DEF States
<1>4. SameFront(st, new) /\ SameNames(st, new)
  BY <1>1, Zenon DEF States, SameFront, SameNames
<1>5. /\ new.expect = st.expect /\ new.isBg = st.isBg /\ new.isPipe = st.isPipe
      /\ new.error = st.error /\ new.command2 = Append(st.command2, t)
  BY <1>1, Zenon DEF States
<1> QED BY <1>3, <1>4, <1>5

LEMMA TakeInput ==
  ASSUME NEW st \in States, NEW t \in Tokens, st.expect = "inputName", NEW new, new = Turn(st, t)
  PROVE  /\ new \in States /\ SameFront(st, new) /\ SameTail(st, new)
         /\ new.expect = "token" /\ new.inputName = t
         /\ new.outputName = st.outputName /\ new.isAppend = st.isAppend
<1>1. new = [st EXCEPT !.inputName = t, !.expect = "token"]
  BY DEF Turn
<1>2. new \in States
  BY <1>1, Zenon DEF States
<1>3. SameFront(st, new) /\ SameTail(st, new)
  BY <1>1, Zenon DEF States, SameFront, SameTail
<1>4. /\ new.expect = "token" /\ new.inputName = t
      /\ new.outputName = st.outputName /\ new.isAppend = st.isAppend
  BY <1>1, Zenon DEF States
<1> QED BY <1>2, <1>3, <1>4

LEMMA TakeOutput ==
  ASSUME NEW st \in States, NEW t \in Tokens, st.expect = "outputName", NEW new, new = Turn(st, t)
  PROVE  /\ new \in States /\ SameFront(st, new) /\ SameTail(st, new)
         /\ new.expect = "token" /\ new.inputName = st.inputName
         /\ new.outputName = t /\ new.isAppend = st.isAppend
<1>1. new = [st EXCEPT !.outputName = t, !.expect = "token"]
  BY DEF Turn
<1>2. new \in States
  BY <1>1, Zenon DEF States
<1>3. SameFront(st, new) /\ SameTail(st, new)
  BY <1>1, Zenon DEF States, SameFront, SameTail
<1>4. /\ new.expect = "token" /\ new.inputName = st.inputName
      /\ new.outputName = t /\ new.isAppend = st.isAppend
  BY <1>1, Zenon DEF States
<1> QED BY <1>2, <1>3, <1>4

LEMMA TakeAppend ==
  ASSUME NEW st \in States, NEW t \in Tokens, st.expect = "appendName", NEW new, new = Turn(st, t)
  PROVE  /\ new \in States /\ SameFront(st, new) /\ SameTail(st, new)
         /\ new.expect = "token" /\ new.inputName = st.inputName
         /\ new.outputName = t /\ new.isAppend
<1>1. new = [st EXCEPT !.outputName = t, !.isAppend = TRUE, !.expect = "token"]
  BY DEF Turn
<1>2. new \in States
  BY <1>1, Zenon DEF States
<1>3. SameFront(st, new) /\ SameTail(st, new)
  BY <1>1, Zenon DEF States, SameFront, SameTail
<1>4. /\ new.expect = "token" /\ new.inputName = st.inputName
      /\ new.outputName = t /\ new.isAppend
  BY <1>1, Zenon DEF States
<1> QED BY <1>2, <1>3, <1>4

LEMMA SendToBackground ==
  ASSUME NEW st \in States, st.expect = "token", NEW new, new = Turn(st, "&")
  PROVE  /\ new \in States /\ SameFront(st, new) /\ SameNames(st, new)
         /\ new.expect = "nothing" /\ new.isBg /\ new.isPipe = st.isPipe
         /\ new.error = st.error /\ new.command2 = st.command2
<1>1. new = [st EXCEPT !.isBg = TRUE, !.expect = "nothing"]
  BY DEF Turn
<1>2. new \in States
  BY <1>1, Zenon DEF States
<1>3. SameFront(st, new) /\ SameNames(st, new)
  BY <1>1, Zenon DEF States, SameFront, SameNames
<1>4. /\ new.expect = "nothing" /\ new.isBg /\ new.isPipe = st.isPipe
      /\ new.error = st.error /\ new.command2 = st.command2
  BY <1>1, Zenon DEF States
<1> QED BY <1>2, <1>3, <1>4

LEMMA StartPipe ==
  ASSUME NEW st \in States, st.expect = "token", NEW new, new = Turn(st, "|")
  PROVE  /\ new \in States /\ SameFront(st, new) /\ SameNames(st, new)
         /\ new.expect = "command2" /\ new.isBg = st.isBg /\ new.isPipe
         /\ new.error = st.error /\ new.command2 = st.command2
<1>1. new = [st EXCEPT !.isPipe = TRUE, !.expect = "command2"]
  BY DEF Turn
<1>2. new \in States
  BY <1>1, Zenon DEF States
<1>3. SameFront(st, new) /\ SameNames(st, new)
  BY <1>1, Zenon DEF States, SameFront, SameNames
<1>4. /\ new.expect = "command2" /\ new.isBg = st.isBg /\ new.isPipe
      /\ new.error = st.error /\ new.command2 = st.command2
  BY <1>1, Zenon DEF States
<1> QED BY <1>2, <1>3, <1>4

LEMMA RedirectInput ==
  ASSUME NEW st \in States, st.expect = "token", NEW new, new = Turn(st, "<")
  PROVE  /\ st.hasInput => new = Refuse(st)
         /\ ~st.hasInput =>
              /\ new \in States /\ SameNames(st, new) /\ SameTail(st, new)
              /\ new.expect = "inputName" /\ new.command1 = st.command1
              /\ new.hasInput /\ new.hasOutput = st.hasOutput
<1>1. new = IF st.hasInput THEN Refuse(st)
            ELSE [st EXCEPT !.hasInput = TRUE, !.expect = "inputName"]
  BY DEF Turn, Redirect, Redirections
<1>2. ASSUME ~st.hasInput
      PROVE  /\ new \in States /\ SameNames(st, new) /\ SameTail(st, new)
             /\ new.expect = "inputName" /\ new.command1 = st.command1
             /\ new.hasInput /\ new.hasOutput = st.hasOutput
  <2>1. new = [st EXCEPT !.hasInput = TRUE, !.expect = "inputName"]
    BY <1>1, <1>2
  <2>2. new \in States
    BY <2>1, Zenon DEF States, NameKinds
  <2>3. SameNames(st, new) /\ SameTail(st, new)
    BY <2>1, Zenon DEF States, SameNames, SameTail
  <2>4. /\ new.expect = "inputName" /\ new.command1 = st.command1
        /\ new.hasInput /\ new.hasOutput = st.hasOutput
    BY <2>1, Zenon DEF States
  <2> QED BY <2>2, <2>3, <2>4
<1> QED BY <1>1, <1>2

LEMMA RedirectOutput ==
  ASSUME NEW st \in States, NEW t \in Outputs, st.expect = "token", NEW new, new = Turn(st, t)
  PROVE  /\ st.hasOutput => new = Refuse(st)
         /\ ~st.hasOutput =>
              /\ new \in States /\ SameNames(st, new) /\ SameTail(st, new)
              /\ new.expect = IF t = ">>" THEN "appendName" ELSE "outputName"
              /\ new.command1 = st.command1 /\ new.hasInput = st.hasInput /\ new.hasOutput
<1> DEFINE kind == IF t = ">>" THEN "appendName" ELSE "outputName"
<1>1. new = IF st.hasOutput THEN Refuse(st) ELSE [st EXCEPT !.hasOutput = TRUE, !.expect = kind]
  BY DEF Turn, Redirect, Redirections, Outputs
<1>2. kind \in NameKinds
  BY DEF NameKinds
<1> HIDE DEF kind
<1>3. ASSUME ~st.hasOutput
      PROVE  /\ new \in States /\ SameNames(st, new) /\ SameTail(st, new)
             /\ new.expect = kind
             /\ new.command1 = st.command1 /\ new.hasInput = st.hasInput /\ new.hasOutput
  <2>1. new = [st EXCEPT !.hasOutput = TRUE, !.expect = kind]
    BY <1>1, <1>3
  <2>2. new \in States
    BY <1>2, <2>1, Zenon DEF States
  <2>3. SameNames(st, new) /\ SameTail(st, new)
    BY <2>1, Zenon DEF States, SameNames, SameTail
  <2>4. new.expect = kind /\ new.command1 = st.command1 /\ new.hasInput = st.hasInput /\ new.hasOutput
    BY <2>1, Zenon DEF States
  <2> QED BY <2>2, <2>3, <2>4
<1> QED BY <1>1, <1>3 DEF kind

LEMMA TakeWord ==
  ASSUME NEW st \in States, NEW t \in Tokens, t \notin Operators, st.expect = "token",
         NEW new, new = Turn(st, t)
  PROVE  /\ st.hasInput \/ st.hasOutput => new = Refuse(st)
         /\ ~st.hasInput /\ ~st.hasOutput =>
              /\ new \in States /\ SameNames(st, new) /\ SameTail(st, new)
              /\ new.expect = st.expect /\ new.command1 = Append(st.command1, t)
              /\ new.hasInput = st.hasInput /\ new.hasOutput = st.hasOutput
<1>1. new = IF st.hasInput \/ st.hasOutput THEN Refuse(st)
            ELSE [st EXCEPT !.command1 = Append(@, t)]
  BY DEF Turn, Argument, Redirections, Operators
<1>2. Append(st.command1, t) \in Seq(Tokens)
  BY DEF States
<1>3. ASSUME ~st.hasInput, ~st.hasOutput
      PROVE  /\ new \in States /\ SameNames(st, new) /\ SameTail(st, new)
             /\ new.expect = st.expect /\ new.command1 = Append(st.command1, t)
             /\ new.hasInput = st.hasInput /\ new.hasOutput = st.hasOutput
  <2>1. new = [st EXCEPT !.command1 = Append(@, t)]
    BY <1>1, <1>3
  <2>2. new \in States
    BY <1>2, <2>1, Zenon DEF States
  <2>3. SameNames(st, new) /\ SameTail(st, new)
    BY <2>1, Zenon DEF States, SameNames, SameTail
  <2>4. /\ new.expect = st.expect /\ new.command1 = Append(st.command1, t)
        /\ new.hasInput = st.hasInput /\ new.hasOutput = st.hasOutput
    BY <2>1, Zenon DEF States
  <2> QED BY <2>2, <2>3, <2>4
<1> QED BY <1>1, <1>3

-----------------------------------------------------------------------------
(***************************************************************************)
(* The loop keeps the shape.                                               *)
(***************************************************************************)
LEMMA Measures ==
  ASSUME NEW st \in States
  PROVE  /\ Words(st) \in Nat /\ End(st) \in Nat
         /\ ~st.hasInput /\ ~st.hasOutput => End(st) = Words(st)
         /\ (st.hasInput /\ ~st.hasOutput) \/ (st.hasOutput /\ ~st.hasInput) => End(st) = Words(st) + 2
         /\ st.hasInput /\ st.hasOutput => End(st) = Words(st) + 4
         /\ st.command1 \in Seq(Tokens) /\ st.command2 \in Seq(Tokens)
         /\ st.expect \in {"token", "command2", "nothing"} \cup NameKinds
<1>1. /\ st.command1 \in Seq(Tokens) /\ st.command2 \in Seq(Tokens)
      /\ st.expect \in {"token", "command2", "nothing"} \cup NameKinds
  BY Zenon DEF States
<1>2. Len(st.command1) \in Nat
  BY <1>1, LenProperties
<1>3. Words(st) \in Nat
  BY <1>2 DEF Words
<1>4. /\ End(st) \in Nat
      /\ ~st.hasInput /\ ~st.hasOutput => End(st) = Words(st)
      /\ (st.hasInput /\ ~st.hasOutput) \/ (st.hasOutput /\ ~st.hasInput) => End(st) = Words(st) + 2
      /\ st.hasInput /\ st.hasOutput => End(st) = Words(st) + 4
  BY <1>3 DEF End
<1> QED BY <1>1, <1>3, <1>4

LEMMA SameFrontShape ==
  ASSUME NEW w, NEW k \in Nat, NEW st \in States, NEW new \in States, SameFront(st, new)
  PROVE  /\ Words(new) = Words(st) /\ End(new) = End(st)
         /\ InputAt(w, new) = InputAt(w, st) /\ OutputAt(w, new) = OutputAt(w, st)
         /\ CommandOK(w, k, st) => CommandOK(w, k + 1, new)
         /\ FilesOK(w, st) => FilesOK(w, new)
<1>1. Words(new) = Words(st) /\ End(new) = End(st) /\ Words(st) \in Nat
  BY Measures DEF SameFront, Words, End
<1>2. InputAt(w, new) = InputAt(w, st) /\ OutputAt(w, new) = OutputAt(w, st)
  BY <1>1 DEF InputAt, OutputAt
<1>3. CommandOK(w, k, st) => CommandOK(w, k + 1, new)
  BY <1>1 DEF CommandOK, SameFront
<1>4. FilesOK(w, st) => FilesOK(w, new)
  BY <1>1 DEF FilesOK, SameFront
<1> QED BY <1>1, <1>2, <1>3, <1>4

LEMMA ShapeRefused ==
  ASSUME NEW w, NEW k \in Nat, NEW st, ShapeOK(w, k, st), st.expect = "token",
         Misplaced(w[k + 1], st)
  PROVE  ShapeOK(w, k + 1, Refuse(st))
<1> DEFINE new == Refuse(st)
<1>1. /\ st \in States /\ CommandOK(w, k, st) /\ FilesOK(w, st) /\ NamesOK(w, st)
      /\ k = End(st) /\ TailOK(w, k, st) /\ FlagsOK(st)
  BY DEF ShapeOK
<1>2. /\ new \in States /\ SameFront(st, new) /\ SameNames(st, new)
      /\ new.expect = "nothing" /\ new.error
      /\ new.isBg = st.isBg /\ new.isPipe = st.isPipe
      /\ new.command2 = st.command2
  BY <1>1, Refusing
<1> HIDE DEF new
<1>3. /\ Words(new) = Words(st) /\ End(new) = End(st)
      /\ InputAt(w, new) = InputAt(w, st) /\ OutputAt(w, new) = OutputAt(w, st)
      /\ CommandOK(w, k + 1, new) /\ FilesOK(w, new)
  BY <1>1, <1>2, SameFrontShape
<1>4. NamesOK(w, new)
  BY <1>1, <1>2, <1>3 DEF NamesOK, SameNames, SameFront
<1>5. Misplaced(w[k + 1], new)
  BY <1>2 DEF Misplaced, SameFront
<1>6. TailOK(w, k + 1, new)
  BY <1>1, <1>2, <1>3, <1>5 DEF TailOK
<1>7. FlagsOK(new)
  BY <1>1, <1>2 DEF FlagsOK
<1>8. ShapeOK(w, k + 1, new)
  BY <1>2, <1>3, <1>4, <1>6, <1>7 DEF ShapeOK, NameKinds
<1> QED BY <1>8 DEF new

LEMMA ShapeGoesOn ==
  ASSUME NEW w \in Seq(Tokens), NEW k \in Nat, k < Len(w), NEW st, ShapeOK(w, k, st)
  PROVE  ShapeOK(w, k + 1, Turn(st, w[k + 1]))
<1> DEFINE t == w[k + 1]
           new == Turn(st, t)
<1>1. t \in Tokens
  BY ElementOfSeq, LenProperties
<1>2. /\ st \in States /\ CommandOK(w, k, st) /\ FilesOK(w, st) /\ NamesOK(w, st)
      /\ st.expect = "token" => k = End(st)
      /\ st.expect \in NameKinds => PendingOK(w, k, st)
      /\ TailOK(w, k, st) /\ FlagsOK(st)
  BY DEF ShapeOK
<1>3. /\ Words(st) \in Nat /\ End(st) \in Nat
      /\ ~st.hasInput /\ ~st.hasOutput => End(st) = Words(st)
      /\ (st.hasInput /\ ~st.hasOutput) \/ (st.hasOutput /\ ~st.hasInput) => End(st) = Words(st) + 2
      /\ st.hasInput /\ st.hasOutput => End(st) = Words(st) + 4
      /\ st.command1 \in Seq(Tokens) /\ st.command2 \in Seq(Tokens)
      /\ st.expect \in {"token", "command2", "nothing"} \cup NameKinds
  BY <1>2, Measures
<1>4. new = Turn(st, t) /\ t = w[k + 1]
  OBVIOUS
<1> HIDE DEF t, new
<1> SUFFICES ShapeOK(w, k + 1, new)
  BY <1>4
<1>same. ASSUME new \in States, SameFront(st, new)
         PROVE  /\ Words(new) = Words(st) /\ End(new) = End(st)
                /\ InputAt(w, new) = InputAt(w, st) /\ OutputAt(w, new) = OutputAt(w, st)
                /\ CommandOK(w, k + 1, new) /\ FilesOK(w, new)
  BY <1>2, <1>same, SameFrontShape
<1>refused. ASSUME st.expect = "token", Misplaced(t, st), new = Refuse(st)
            PROVE  ShapeOK(w, k + 1, new)
  BY <1>4, <1>refused, ShapeRefused
<1>5. CASE st.expect = "nothing"
  <2>1. new = st
    BY <1>4, <1>5 DEF Turn
  <2>2. CommandOK(w, k + 1, st)
    BY <1>2, <1>3 DEF CommandOK
  <2>3. TailOK(w, k + 1, st)
    BY <1>2, <1>3, <1>5 DEF TailOK
  <2> QED BY <1>2, <1>5, <2>1, <2>2, <2>3 DEF ShapeOK, NameKinds
<1>6. CASE st.expect = "command2"
  <2>1. /\ new \in States /\ SameFront(st, new) /\ SameNames(st, new)
        /\ new.expect = st.expect /\ new.isBg = st.isBg /\ new.isPipe = st.isPipe
        /\ new.error = st.error /\ new.command2 = Append(st.command2, t)
    BY <1>1, <1>2, <1>4, <1>6, AddToSecond
  <2>2. /\ End(new) = End(st) /\ CommandOK(w, k + 1, new) /\ FilesOK(w, new)
        /\ InputAt(w, new) = InputAt(w, st) /\ OutputAt(w, new) = OutputAt(w, st)
    BY <1>same, <2>1
  <2>3. NamesOK(w, new)
    BY <1>2, <2>1, <2>2 DEF NamesOK, SameNames, SameFront
  <2>4. TailOK(w, k + 1, new)
    <3>1. /\ Len(new.command2) = Len(st.command2) + 1 /\ Len(st.command2) \in Nat
          /\ new.command2[Len(st.command2) + 1] = t
          /\ \A j \in 1 .. Len(st.command2) : new.command2[j] = st.command2[j]
      BY <1>1, <1>3, <2>1
    <3>2. /\ k > End(st) /\ w[End(st) + 1] = "|" /\ Len(st.command2) = k - (End(st) + 1)
          /\ \A j \in 1 .. Len(st.command2) : st.command2[j] = w[End(st) + 1 + j]
      BY <1>2, <1>6 DEF TailOK
    <3>3. Len(new.command2) = (k + 1) - (End(st) + 1) /\ k + 1 > End(st)
      BY <1>3, <3>1, <3>2
    <3>4. ASSUME NEW j \in 1 .. Len(new.command2)
          PROVE  new.command2[j] = w[End(st) + 1 + j]
      <4>1. CASE j = Len(st.command2) + 1
        <5>1. End(st) + 1 + j = k + 1
          BY <1>3, <3>1, <3>2, <4>1
        <5> QED BY <1>4, <3>1, <4>1, <5>1
      <4>2. CASE j # Len(st.command2) + 1
        <5>1. j \in 1 .. Len(st.command2)
          BY <3>1, <4>2
        <5> QED BY <3>1, <3>2, <5>1
      <4> QED BY <4>1, <4>2
    <3> QED BY <1>6, <2>1, <2>2, <3>2, <3>3, <3>4 DEF TailOK
  <2>5. FlagsOK(new)
    BY <1>2, <2>1 DEF FlagsOK
  <2> QED BY <1>6, <2>1, <2>2, <2>3, <2>4, <2>5 DEF ShapeOK, NameKinds
<1>7. CASE st.expect = "inputName"
  <2>1. /\ new \in States /\ SameFront(st, new) /\ SameTail(st, new)
        /\ new.expect = "token" /\ new.inputName = t
        /\ new.outputName = st.outputName /\ new.isAppend = st.isAppend
    BY <1>1, <1>2, <1>4, <1>7, TakeInput
  <2>2. /\ End(new) = End(st) /\ CommandOK(w, k + 1, new) /\ FilesOK(w, new)
        /\ InputAt(w, new) = InputAt(w, st) /\ OutputAt(w, new) = OutputAt(w, st)
    BY <1>same, <2>1
  <2>3. k + 1 = End(st) /\ w[k] = "<" /\ st.hasInput
    BY <1>2, <1>7 DEF PendingOK, NameKinds
  <2>4. InputAt(w, st) = k
    BY <1>2, <1>3, <2>3 DEF InputAt, FilesOK, End, Outputs
  <2>5. NamesOK(w, new)
    BY <1>2, <1>4, <1>7, <2>1, <2>2, <2>3, <2>4 DEF NamesOK, SameFront
  <2>6. TailOK(w, k + 1, new) /\ FlagsOK(new)
    BY <1>2, <1>7, <2>1, <2>2 DEF TailOK, FlagsOK, SameTail
  <2> QED BY <2>1, <2>2, <2>3, <2>5, <2>6 DEF ShapeOK, NameKinds
<1>8. CASE st.expect \in {"outputName", "appendName"}
  <2>1. /\ new \in States /\ SameFront(st, new) /\ SameTail(st, new)
        /\ new.expect = "token" /\ new.inputName = st.inputName
        /\ new.outputName = t
        /\ new.isAppend <=> (st.expect = "appendName" \/ st.isAppend)
    BY <1>1, <1>2, <1>4, <1>8, TakeOutput, TakeAppend
  <2>2. /\ End(new) = End(st) /\ CommandOK(w, k + 1, new) /\ FilesOK(w, new)
        /\ InputAt(w, new) = InputAt(w, st) /\ OutputAt(w, new) = OutputAt(w, st)
    BY <1>same, <2>1
  <2>3. /\ k + 1 = End(st) /\ st.hasOutput
        /\ w[k] = IF st.expect = "appendName" THEN ">>" ELSE ">"
    BY <1>2, <1>8 DEF PendingOK, NameKinds
  <2>4. OutputAt(w, st) = k
    BY <1>2, <1>3, <2>3 DEF OutputAt, FilesOK, End, Outputs
  <2>5. NamesOK(w, new)
    BY <1>2, <1>4, <1>8, <2>1, <2>2, <2>3, <2>4 DEF NamesOK, SameFront
  <2>6. TailOK(w, k + 1, new) /\ FlagsOK(new)
    BY <1>2, <1>8, <2>1, <2>2 DEF TailOK, FlagsOK, SameTail
  <2> QED BY <2>1, <2>2, <2>3, <2>5, <2>6 DEF ShapeOK, NameKinds
<1>9. CASE st.expect = "token" /\ t \in {"&", "|"}
  <2>1. /\ new \in States /\ SameFront(st, new) /\ SameNames(st, new)
        /\ new.expect = IF t = "&" THEN "nothing" ELSE "command2"
        /\ new.isBg <=> (t = "&" \/ st.isBg)
        /\ new.isPipe <=> (t = "|" \/ st.isPipe)
        /\ new.error = st.error /\ new.command2 = st.command2
    <3>1. CASE t = "&"
      BY <1>2, <1>4, <1>9, <3>1, SendToBackground
    <3>2. CASE t = "|"
      BY <1>2, <1>4, <1>9, <3>2, StartPipe
    <3> QED BY <1>9, <3>1, <3>2
  <2>2. /\ End(new) = End(st) /\ CommandOK(w, k + 1, new) /\ FilesOK(w, new)
        /\ InputAt(w, new) = InputAt(w, st) /\ OutputAt(w, new) = OutputAt(w, st)
    BY <1>same, <2>1
  <2>3. NamesOK(w, new)
    BY <1>2, <1>9, <2>1, <2>2 DEF NamesOK, SameNames, SameFront
  <2>4. TailOK(w, k + 1, new) /\ FlagsOK(new)
    BY <1>2, <1>3, <1>4, <1>9, <2>1, <2>2 DEF TailOK, FlagsOK
  <2> QED BY <1>9, <2>1, <2>2, <2>3, <2>4 DEF ShapeOK, NameKinds
<1>10. CASE st.expect = "token" /\ t = "<"
  <2>1. CASE st.hasInput
    BY <1>2, <1>4, <1>10, <1>refused, <2>1, RedirectInput DEF Misplaced
  <2>2. CASE ~st.hasInput
    <3>1. /\ new \in States /\ SameNames(st, new) /\ SameTail(st, new)
          /\ new.expect = "inputName" /\ new.command1 = st.command1
          /\ new.hasInput /\ new.hasOutput = st.hasOutput
      BY <1>2, <1>4, <1>10, <2>2, RedirectInput
    <3>2. Words(new) = Words(st) /\ End(new) = k + 2
      <4>1. Words(new) = Words(st)
        BY <3>1 DEF Words
      <4> QED BY <1>2, <1>3, <1>10, <2>2, <3>1, <4>1 DEF End
    <3>3. CommandOK(w, k + 1, new)
      BY <1>2, <1>3, <3>1, <3>2 DEF CommandOK
    <3>4. FilesOK(w, new)
      <4>1. IF st.hasOutput THEN w[Words(st) + 1] \in Outputs /\ w[Words(st) + 3] = "<"
            ELSE w[Words(st) + 1] = "<"
        <5>1. CASE st.hasOutput
          <6>1. k + 1 = Words(st) + 3 /\ w[Words(st) + 1] \in Outputs
            BY <1>2, <1>3, <1>10, <2>2, <5>1 DEF FilesOK
          <6> QED BY <1>4, <1>10, <5>1, <6>1
        <5>2. CASE ~st.hasOutput
          <6>1. k + 1 = Words(st) + 1
            BY <1>2, <1>3, <1>10, <2>2, <5>2
          <6> QED BY <1>4, <1>10, <5>2, <6>1
        <5> QED BY <5>1, <5>2
      <4> QED BY <3>1, <3>2, <4>1 DEF FilesOK
    <3>5. NamesOK(w, new)
      BY <1>2, <1>10, <2>2, <3>1, <3>2 DEF NamesOK, SameNames, OutputAt
    <3>6. PendingOK(w, k + 1, new)
      BY <1>4, <1>10, <3>1, <3>2 DEF PendingOK
    <3>7. TailOK(w, k + 1, new) /\ FlagsOK(new)
      BY <1>2, <1>10, <3>1 DEF TailOK, FlagsOK, SameTail
    <3> QED BY <3>1, <3>3, <3>4, <3>5, <3>6, <3>7 DEF ShapeOK
  <2> QED BY <2>1, <2>2
<1>11. CASE st.expect = "token" /\ t \in Outputs
  <2>1. CASE st.hasOutput
    BY <1>2, <1>4, <1>11, <1>refused, <2>1, RedirectOutput DEF Misplaced
  <2>2. CASE ~st.hasOutput
    <3>1. /\ new \in States /\ SameNames(st, new) /\ SameTail(st, new)
          /\ new.expect = IF t = ">>" THEN "appendName" ELSE "outputName"
          /\ new.command1 = st.command1 /\ new.hasInput = st.hasInput /\ new.hasOutput
      BY <1>2, <1>4, <1>11, <2>2, RedirectOutput
    <3>2. Words(new) = Words(st) /\ End(new) = k + 2
      BY <1>2, <1>3, <1>11, <2>2, <3>1 DEF Words, End
    <3>3. CommandOK(w, k + 1, new)
      BY <1>2, <1>3, <3>1, <3>2 DEF CommandOK
    <3>4. FilesOK(w, new)
      <4>1. IF st.hasInput THEN w[Words(st) + 1] = "<" /\ w[Words(st) + 3] \in Outputs
            ELSE w[Words(st) + 1] \in Outputs
        BY <1>2, <1>3, <1>4, <1>11, <2>2 DEF FilesOK
      <4> QED BY <3>1, <3>2, <4>1 DEF FilesOK
    <3>5. NamesOK(w, new)
      BY <1>2, <1>11, <2>2, <3>1, <3>2 DEF NamesOK, SameNames, InputAt
    <3>6. PendingOK(w, k + 1, new)
      BY <1>4, <1>11, <3>1, <3>2 DEF PendingOK, Outputs
    <3>7. TailOK(w, k + 1, new) /\ FlagsOK(new)
      BY <1>2, <1>11, <3>1 DEF TailOK, FlagsOK, SameTail
    <3> QED BY <3>1, <3>3, <3>4, <3>5, <3>6, <3>7 DEF ShapeOK
  <2> QED BY <2>1, <2>2
<1>12. CASE st.expect = "token" /\ t \notin Operators
  <2>1. CASE st.hasInput \/ st.hasOutput
    BY <1>1, <1>2, <1>4, <1>12, <1>refused, <2>1, TakeWord DEF Misplaced
  <2>2. CASE ~st.hasInput /\ ~st.hasOutput
    <3>1. /\ new \in States /\ SameNames(st, new) /\ SameTail(st, new)
          /\ new.expect = st.expect /\ new.command1 = Append(st.command1, t)
          /\ new.hasInput = st.hasInput /\ new.hasOutput = st.hasOutput
      BY <1>1, <1>2, <1>4, <1>12, <2>2, TakeWord
    <3>2. /\ Words(new) = Words(st) + 1 /\ Words(st) = k /\ End(new) = k + 1
          /\ new.command1[Words(st) + 1] = t
          /\ \A j \in 1 .. Words(st) : new.command1[j] = st.command1[j]
      BY <1>1, <1>2, <1>3, <1>12, <2>2, <3>1 DEF Words, End
    <3>3. CommandOK(w, k + 1, new)
      BY <1>2, <1>4, <1>12, <3>2 DEF CommandOK
    <3>4. FilesOK(w, new) /\ NamesOK(w, new)
      BY <1>2, <2>2, <3>1 DEF FilesOK, NamesOK, SameNames
    <3>5. TailOK(w, k + 1, new) /\ FlagsOK(new)
      BY <1>2, <1>12, <3>1 DEF TailOK, FlagsOK, SameTail
    <3> QED BY <1>12, <3>1, <3>2, <3>3, <3>4, <3>5 DEF ShapeOK, NameKinds
  <2> QED BY <2>1, <2>2
<1> QED
  <2>1. st.expect \in {"token", "command2", "nothing", "inputName", "outputName", "appendName"}
    BY <1>3 DEF NameKinds
  <2>2. t \in {"&", "|", "<"} \/ t \in Outputs \/ t \notin Operators
    BY DEF Outputs, Operators, Redirections
  <2> QED BY <1>5, <1>6, <1>7, <1>8, <1>9, <1>10, <1>11, <1>12, <2>1, <2>2

LEMMA ShapeBegins ==
  ASSUME NEW w
  PROVE  ShapeOK(w, 0, Start)
<1>1. /\ Start.expect = "token" /\ ~Start.error /\ ~Start.isBg /\ ~Start.isPipe
      /\ ~Start.isAppend /\ ~Start.hasInput /\ ~Start.hasOutput
      /\ Start.inputName = NoName /\ Start.outputName = NoName
      /\ Start.command1 = <<>> /\ Start.command2 = <<>>
  BY DEF Start
<1>2. Start \in States
  <2>1. << >> \in Seq(Tokens)
    OBVIOUS
  <2>2. "token" \in {"token", "command2", "nothing"} \cup NameKinds
    OBVIOUS
  <2> QED BY <2>1, <2>2, Zenon DEF Start, States
<1>3. Words(Start) = 0 /\ End(Start) = 0
  <2>1. Words(Start) = 0
    BY <1>1 DEF Words
  <2> QED BY <1>1, <2>1 DEF End
<1>4. CommandOK(w, 0, Start) /\ FilesOK(w, Start) /\ NamesOK(w, Start)
  BY <1>1, <1>3 DEF CommandOK, FilesOK, NamesOK
<1>5. TailOK(w, 0, Start) /\ FlagsOK(Start)
  BY <1>1 DEF TailOK, FlagsOK
<1> QED BY <1>1, <1>2, <1>3, <1>4, <1>5 DEF ShapeOK, NameKinds

\* When the loop is over, its variables say what the line is.
LEMMA LineHasShape ==
  ASSUME NEW w \in Seq(Tokens)
  PROVE  ShapeOK(w, Len(w), FoldLeft(Turn, Start, w))
<1> DEFINE done == {k \in 0 .. Len(w) : \E st : LoopsTo(w, k, st) /\ ShapeOK(w, k, st)}
<1>1. Len(w) \in Nat
  BY LenProperties
<1>2. 0 \in done
  BY <1>1, LoopBegins, ShapeBegins
<1>3. ASSUME NEW k \in 0 .. Len(w) - 1, k \in done
      PROVE  k + 1 \in done
  <2>1. PICK st : LoopsTo(w, k, st) /\ ShapeOK(w, k, st)
    BY <1>3
  <2>2. k \in Nat /\ k < Len(w) /\ k + 1 \in 0 .. Len(w)
    BY <1>1
  <2>3. LoopsTo(w, k + 1, Turn(st, w[k + 1])) /\ ShapeOK(w, k + 1, Turn(st, w[k + 1]))
    BY <2>1, <2>2, LoopGoesOn, ShapeGoesOn
  <2> QED BY <2>2, <2>3
<1> HIDE DEF done
<1>4. Len(w) \in done
  BY <1>1, <1>2, <1>3, SetInduction
<1>5. PICK st : LoopsTo(w, Len(w), st) /\ ShapeOK(w, Len(w), st)
  BY <1>4 DEF done
<1>6. FoldLeft(Turn, Start, w) = st
  BY <1>5, LoopIsFold
<1> QED BY <1>5, <1>6

-----------------------------------------------------------------------------
(***************************************************************************)
(* The form of a line, position by position.                               *)
(***************************************************************************)
IsSplit(w, a, b) ==
  /\ a \in 1 .. Len(w) /\ b \in a .. Len(w)
  /\ \A j \in 1 .. a : w[j] \notin Operators
  /\ b - a \in {0, 2, 4}
  /\ b - a > 0 => w[a + 1] \in Redirections
  /\ b - a = 4 => w[a + 3] \in Redirections /\ (w[a + 1] = "<") # (w[a + 3] = "<")
  /\ b < Len(w) => w[b + 1] \in {"&", "|"}

\* The tokens from one position to another.
LEMMA Slice ==
  ASSUME NEW w \in Seq(Tokens), NEW a \in 0 .. Len(w), NEW b \in a .. Len(w)
  PROVE  /\ SubSeq(w, a + 1, b) \in Seq(Tokens)
         /\ Len(SubSeq(w, a + 1, b)) = b - a
         /\ DOMAIN SubSeq(w, a + 1, b) = 1 .. (b - a)
         /\ \A j \in 1 .. (b - a) : SubSeq(w, a + 1, b)[j] = w[a + j]
<1> DEFINE part == SubSeq(w, a + 1, b)
<1>1. Len(w) \in Nat
  BY LenProperties
<1>2. a + 1 \in 1 .. Len(w) + 1 /\ b \in a + 1 - 1 .. Len(w)
  BY <1>1
<1>3. \A j \in a + 1 .. b : w[j] \in Tokens
  BY <1>1, ElementOfSeq
<1>4. part \in Seq(Tokens) /\ Len(part) = IF a + 1 <= b THEN b - (a + 1) + 1 ELSE 0
  BY <1>1, <1>3
<1>5. Len(part) = b - a /\ b - a \in Nat
  BY <1>1, <1>4
<1>6. DOMAIN part = 1 .. (b - a)
  BY <1>4, <1>5, LenProperties
<1>7. ASSUME NEW j \in 1 .. (b - a)
      PROVE  part[j] = w[a + j]
  BY <1>1
<1> QED BY <1>4, <1>5, <1>6, <1>7

LEMMA SplitsByPosition ==
  ASSUME NEW w \in Seq(Tokens), NEW a, NEW b
  PROVE  <<a, b>> \in Splits(w) <=> IsSplit(w, a, b)
<1>1. Len(w) \in Nat
  BY LenProperties
<1>2. <<a, b>> \in Splits(w) \/ IsSplit(w, a, b) => a \in 0 .. Len(w) /\ b \in a .. Len(w)
  BY <1>1 DEF Splits, IsSplit
<1> SUFFICES ASSUME a \in 0 .. Len(w), b \in a .. Len(w)
             PROVE  <<a, b>> \in Splits(w) <=> IsSplit(w, a, b)
  BY <1>2
<1> DEFINE part == SubSeq(w, a + 1, b)
<1>3. <<a, b>> \in Splits(w) <=>
        IsCommand(Prefix(w, a)) /\ IsRedirections(part) /\ IsTail(Behind(w, b))
  BY <1>1 DEF Splits
<1>4. IsCommand(Prefix(w, a)) <=> a # 0 /\ \A j \in 1 .. a : w[j] \notin Operators
  <2>1. 0 \in 0 .. Len(w) /\ a \in 0 .. Len(w) /\ 0 + 1 = 1 /\ a - 0 = a
    BY <1>1
  <2>2. \A j \in 1 .. a : 0 + j = j
    OBVIOUS
  <2>3. /\ Len(Prefix(w, a)) = a /\ DOMAIN Prefix(w, a) = 1 .. a
        /\ \A j \in 1 .. a : Prefix(w, a)[j] = w[j]
        /\ Prefix(w, a) \in Seq(Tokens)
    BY <2>1, <2>2, Slice DEF Prefix
  <2>4. Prefix(w, a) # <<>> <=> a # 0
    BY <2>3, EmptySeq
  <2> QED BY <2>3, <2>4 DEF IsCommand
<1>5. IsRedirections(part) <=>
        /\ b - a \in {0, 2, 4}
        /\ b - a > 0 => w[a + 1] \in Redirections
        /\ b - a = 4 => w[a + 3] \in Redirections /\ (w[a + 1] = "<") # (w[a + 3] = "<")
  <2> DEFINE n == b - a
  <2>1. /\ Len(part) = n /\ DOMAIN part = 1 .. n /\ n \in Nat
        /\ \A j \in 1 .. n : part[j] = w[a + j]
    BY <1>1, Slice
  <2> HIDE DEF part, n
  <2>2. IsRedirections(part) <=>
          /\ n \in {0, 2, 4}
          /\ \A j \in 1 .. n : j % 2 = 1 => part[j] \in Redirections
          /\ n = 4 => (part[1] = "<") # (part[3] = "<")
    BY <2>1 DEF IsRedirections
  <2>3. CASE n = 0
    BY <2>1, <2>2, <2>3 DEF n
  <2>4. CASE n = 2
    <3>1. \A j \in 1 .. n : j % 2 = 1 <=> j = 1
      BY <2>4
    <3> QED BY <2>1, <2>2, <2>4, <3>1 DEF n
  <2>5. CASE n = 4
    <3>1. \A j \in 1 .. n : j % 2 = 1 <=> j = 1 \/ j = 3
      BY <2>5
    <3>2. part[1] = w[a + 1] /\ part[3] = w[a + 3]
      BY <2>1, <2>5
    <3> QED BY <2>1, <2>2, <2>5, <3>1, <3>2 DEF n
  <2>6. CASE n \notin {0, 2, 4}
    BY <2>2, <2>6 DEF n
  <2> QED BY <2>3, <2>4, <2>5, <2>6
<1>6. IsTail(Behind(w, b)) <=> (b < Len(w) => w[b + 1] \in {"&", "|"})
  <2>1. b \in 0 .. Len(w) /\ Len(w) \in b .. Len(w)
    BY <1>1
  <2>2. /\ Len(Behind(w, b)) = Len(w) - b
        /\ \A j \in 1 .. Len(w) - b : Behind(w, b)[j] = w[b + j]
        /\ Behind(w, b) \in Seq(Tokens)
    BY <2>1, Slice DEF Behind
  <2>3. Behind(w, b) = <<>> <=> Len(w) = b
    BY <1>1, <2>1, <2>2, EmptySeq
  <2>4. b < Len(w) => Behind(w, b)[1] = w[b + 1]
    BY <1>1, <2>1, <2>2
  <2> QED BY <1>1, <2>1, <2>3, <2>4 DEF IsTail
<1> HIDE DEF part
<1>7. a # 0 <=> a \in 1 .. Len(w)
  BY <1>1
<1> QED BY <1>3, <1>4, <1>5, <1>6, <1>7 DEF IsSplit

\* A form can only be the one the loop has found, and the loop has not refused.
LEMMA SplitIsFound ==
  ASSUME NEW w \in Seq(Tokens), NEW st, ShapeOK(w, Len(w), st), NEW a, NEW b, IsSplit(w, a, b)
  PROVE  a = Words(st) /\ b = End(st) /\ st.expect \notin NameKinds /\ ~st.error
<1> DEFINE n == Len(w)
           m == Words(st)
           e == End(st)
<1>1. n \in Nat
  BY LenProperties
<1>2. /\ st \in States /\ CommandOK(w, n, st) /\ FilesOK(w, st)
      /\ st.expect = "token" => n = e
      /\ st.expect \in NameKinds => PendingOK(w, n, st)
      /\ TailOK(w, n, st) /\ FlagsOK(st)
  BY DEF ShapeOK
<1>3. /\ m \in Nat /\ e \in Nat
      /\ ~st.hasInput /\ ~st.hasOutput => e = m
      /\ (st.hasInput /\ ~st.hasOutput) \/ (st.hasOutput /\ ~st.hasInput) => e = m + 2
      /\ st.hasInput /\ st.hasOutput => e = m + 4
      /\ st.expect \in {"token", "command2", "nothing"} \cup NameKinds
  BY <1>2, Measures
<1>4. m <= n /\ \A j \in 1 .. m : w[j] \notin Operators
  BY <1>2 DEF CommandOK
<1>5. /\ a \in 1 .. n /\ b \in a .. n /\ \A j \in 1 .. a : w[j] \notin Operators
      /\ b = a \/ b = a + 2 \/ b = a + 4
      /\ b # a => w[a + 1] \in Redirections
      /\ b = a + 4 => w[a + 3] \in Redirections /\ (w[a + 1] = "<") # (w[a + 3] = "<")
      /\ b < n => w[b + 1] \in {"&", "|"}
  BY <1>1 DEF IsSplit
<1>6. /\ st.expect \in NameKinds => n + 1 = e
      /\ st.expect \in {"command2", "nothing"} => n > e
  BY <1>2 DEF PendingOK, TailOK
<1>7. /\ st.expect = "command2" => w[e + 1] = "|"
      /\ st.expect = "nothing" => Misplaced(w[e + 1], st) \/ w[e + 1] = "&"
      /\ st.error => st.expect = "nothing" /\ Misplaced(w[e + 1], st)
  BY <1>2 DEF TailOK, FlagsOK
<1>8. /\ "&" \in Operators /\ "|" \in Operators /\ Redirections \subseteq Operators
      /\ Outputs \subseteq Redirections /\ "<" \in Redirections /\ "<" \notin Outputs
      /\ "&" \notin Redirections /\ "|" \notin Redirections
  BY DEF Operators, Redirections, Outputs
<1>9. st.hasInput \/ st.hasOutput => w[m + 1] \in Redirections /\ m < n
  BY <1>1, <1>2, <1>3, <1>6, <1>8 DEF FilesOK
<1>10. ~st.hasInput /\ ~st.hasOutput /\ m < n => w[m + 1] \in {"&", "|"}
  <2> SUFFICES ASSUME ~st.hasInput, ~st.hasOutput, m < n
               PROVE  w[m + 1] \in {"&", "|"}
    OBVIOUS
  <2>1. e = m /\ ~Misplaced(w[e + 1], st)
    BY <1>3 DEF Misplaced
  <2>2. st.expect \notin NameKinds
    BY <1>2 DEF PendingOK, NameKinds
  <2> QED BY <1>2, <1>3, <1>7, <2>1, <2>2
<1>11. m < n => w[m + 1] \in Operators
  BY <1>8, <1>9, <1>10
<1> HIDE DEF n, m, e
<1>12. a = m
  <2>1. CASE a > m
    <3>1. m + 1 \in 1 .. a /\ m < n
      BY <1>1, <1>3, <1>5, <2>1
    <3> QED BY <1>5, <1>11, <3>1
  <2>2. CASE a < m
    <3>1. a + 1 \in 1 .. m /\ a < n
      BY <1>1, <1>3, <1>4, <1>5, <2>2
    <3>2. w[a + 1] \notin Operators
      BY <1>4, <3>1
    <3> QED BY <1>5, <1>8, <3>1, <3>2
  <2> QED BY <1>3, <1>5, <2>1, <2>2
<1>13. b = e
  <2>1. CASE ~st.hasInput /\ ~st.hasOutput
    <3>1. b # a => m < n
      BY <1>1, <1>3, <1>5, <1>12
    <3>2. b = a
      BY <1>5, <1>8, <1>10, <1>12, <2>1, <3>1
    <3> QED BY <1>3, <1>12, <2>1, <3>2
  <2>2. CASE (st.hasInput /\ ~st.hasOutput) \/ (st.hasOutput /\ ~st.hasInput)
    <3>1. b # a
      BY <1>5, <1>8, <1>9, <1>12, <2>2
    <3>2. b # a + 4
      <4> SUFFICES ASSUME b = a + 4 PROVE FALSE
        OBVIOUS
      <4>1. e = a + 2 /\ n > e /\ e + 1 = a + 3
        BY <1>1, <1>3, <1>5, <1>12, <2>2
      <4>2. w[e + 1] \in Redirections /\ (w[a + 1] = "<") # (w[e + 1] = "<")
        BY <1>5, <4>1
      <4>3. Misplaced(w[e + 1], st)
        BY <1>1, <1>2, <1>3, <1>6, <1>7, <1>8, <4>1, <4>2
      <4>4. IF st.hasInput THEN w[a + 1] = "<" ELSE w[a + 1] \in Outputs
        BY <1>2, <1>12, <2>2 DEF FilesOK, m
      <4> QED BY <1>8, <2>2, <4>2, <4>3, <4>4 DEF Misplaced
    <3> QED BY <1>3, <1>5, <1>12, <2>2, <3>1, <3>2
  <2>3. CASE st.hasInput /\ st.hasOutput
    <3>1. w[a + 3] \in Redirections /\ a + 3 <= n
      BY <1>1, <1>2, <1>3, <1>6, <1>8, <1>12, <2>3 DEF FilesOK, m
    <3>2. b # a
      BY <1>5, <1>8, <1>9, <1>12, <2>3
    <3>3. b # a + 2
      <4> SUFFICES ASSUME b = a + 2 PROVE FALSE
        OBVIOUS
      <4>1. b < n /\ b + 1 = a + 3
        BY <1>1, <1>5, <3>1
      <4> QED BY <1>5, <1>8, <3>1, <4>1
    <3> QED BY <1>3, <1>5, <1>12, <2>3, <3>2, <3>3
  <2> QED BY <2>1, <2>2, <2>3
<1>14. st.expect \notin NameKinds
  BY <1>1, <1>3, <1>5, <1>6, <1>13
<1>15. ~st.error
  <2> SUFFICES ASSUME st.error PROVE FALSE
    OBVIOUS
  <2>1. n > e /\ Misplaced(w[e + 1], st)
    BY <1>6, <1>7
  <2>2. w[e + 1] \in {"&", "|"}
    BY <1>5, <1>13, <2>1
  <2> QED BY <1>8, <2>1, <2>2 DEF Misplaced
<1> QED BY <1>12, <1>13, <1>14, <1>15 DEF m, e

\* The loop has found the form of a line it did not refuse, if there is a command.
LEMMA FoundIsSplit ==
  ASSUME NEW w \in Seq(Tokens), NEW st, ShapeOK(w, Len(w), st),
         Words(st) # 0, st.expect \notin NameKinds, ~st.error
  PROVE  IsSplit(w, Words(st), End(st))
<1> DEFINE n == Len(w)
           m == Words(st)
           e == End(st)
<1>1. n \in Nat
  BY LenProperties
<1>2. /\ st \in States /\ CommandOK(w, n, st) /\ FilesOK(w, st)
      /\ st.expect = "token" => n = e
      /\ TailOK(w, n, st)
  BY DEF ShapeOK
<1>3. /\ m \in Nat /\ e \in Nat
      /\ ~st.hasInput /\ ~st.hasOutput => e = m
      /\ (st.hasInput /\ ~st.hasOutput) \/ (st.hasOutput /\ ~st.hasInput) => e = m + 2
      /\ st.hasInput /\ st.hasOutput => e = m + 4
      /\ st.expect \in {"token", "command2", "nothing"} \cup NameKinds
  BY <1>2, Measures
<1>4. m <= n /\ \A j \in 1 .. m : w[j] \notin Operators
  BY <1>2 DEF CommandOK
<1>5. e <= n /\ (e < n => w[e + 1] \in {"&", "|"})
  BY <1>1, <1>2, <1>3 DEF TailOK
<1>6. /\ Outputs \subseteq Redirections /\ "<" \in Redirections /\ "<" \notin Outputs
  BY DEF Redirections, Outputs
<1>7. /\ e # m => w[m + 1] \in Redirections
      /\ e = m + 4 => w[m + 3] \in Redirections /\ (w[m + 1] = "<") # (w[m + 3] = "<")
  BY <1>2, <1>3, <1>6 DEF FilesOK
<1> HIDE DEF n, m, e
<1>8. m \in 1 .. n /\ e \in m .. n /\ e - m \in {0, 2, 4}
  BY <1>1, <1>3, <1>4, <1>5 DEF m
<1>9. /\ e - m > 0 => w[m + 1] \in Redirections
      /\ e - m = 4 => w[m + 3] \in Redirections /\ (w[m + 1] = "<") # (w[m + 3] = "<")
  BY <1>1, <1>7, <1>8
<1> QED BY <1>4, <1>5, <1>8, <1>9 DEF IsSplit, n, m, e

\* A redirection's name, where it is and where there is none.
OnlyAt(part, ops, j) ==
  /\ j \in DOMAIN part /\ j % 2 = 1 /\ part[j] \in ops
  /\ \A k \in DOMAIN part : k % 2 = 1 /\ part[k] \in ops => k = j

LEMMA NameFound ==
  ASSUME NEW part \in Seq(Tokens), NEW ops, NEW j, OnlyAt(part, ops, j)
  PROVE  Name(part, ops) = part[j + 1]
<1>1. (CHOOSE k \in DOMAIN part : k % 2 = 1 /\ part[k] \in ops) = j
  BY DEF OnlyAt
<1>2. j \in Nat
  BY LenProperties DEF OnlyAt
<1>3. 1 + j = j + 1
  BY <1>2
<1>4. \E k \in DOMAIN part : k % 2 = 1 /\ part[k] \in ops
  BY DEF OnlyAt
<1> QED BY <1>1, <1>3, <1>4, Zenon DEF Name

LEMMA NameMissing ==
  ASSUME NEW part, NEW ops, \A k \in DOMAIN part : k % 2 = 1 => part[k] \notin ops
  PROVE  Name(part, ops) = NoName
BY DEF Name

\* The names are those behind the redirections of the form.
LEMMA NamesAreFound ==
  ASSUME NEW w \in Seq(Tokens), NEW st, ShapeOK(w, Len(w), st),
         IsSplit(w, Words(st), End(st)), st.expect \notin NameKinds,
         NEW part, part = SubSeq(w, Words(st) + 1, End(st))
  PROVE  /\ st.inputName = Name(part, {"<"})
         /\ st.outputName = Name(part, {">", ">>"})
         /\ st.isAppend <=> Name(part, {">>"}) # NoName
<1> DEFINE m == Words(st)
           e == End(st)
           d == e - m
<1>1. /\ st \in States /\ FilesOK(w, st)
      /\ st.inputName = IF st.hasInput THEN w[InputAt(w, st) + 1] ELSE NoName
      /\ st.outputName = IF st.hasOutput THEN w[OutputAt(w, st) + 1] ELSE NoName
      /\ st.isAppend <=> st.hasOutput /\ w[OutputAt(w, st)] = ">>"
  BY DEF ShapeOK, NamesOK, NameKinds
<1>2. /\ m \in Nat /\ e \in Nat
      /\ ~st.hasInput /\ ~st.hasOutput => d = 0
      /\ (st.hasInput /\ ~st.hasOutput) \/ (st.hasOutput /\ ~st.hasInput) => d = 2
      /\ st.hasInput /\ st.hasOutput => d = 4
  BY <1>1, Measures
<1>3. /\ part \in Seq(Tokens) /\ DOMAIN part = 1 .. d
      /\ \A j \in 1 .. d : part[j] = w[m + j]
  <2>1. m \in 0 .. Len(w) /\ e \in m .. Len(w)
    BY <1>2, LenProperties DEF IsSplit
  <2> QED BY <2>1, Slice
<1>4. \A j \in 1 .. d : part[j] \in Tokens
  BY <1>3, ElementOfSeq, LenProperties
<1>5. InputAt(w, st) = m + (IF w[m + 1] = "<" THEN 1 ELSE 3)
  BY DEF InputAt
<1>6. OutputAt(w, st) = m + (IF w[m + 1] = "<" THEN 3 ELSE 1)
  BY DEF OutputAt
<1>7. "<" \notin Outputs /\ Outputs = {">", ">>"}
  BY DEF Outputs
<1>8. /\ st.hasInput /\ ~st.hasOutput => w[m + 1] = "<"
      /\ st.hasOutput /\ ~st.hasInput => w[m + 1] \in Outputs
      /\ st.hasInput /\ st.hasOutput =>
           \/ w[m + 1] = "<" /\ w[m + 3] \in Outputs
           \/ w[m + 1] \in Outputs /\ w[m + 3] = "<"
  BY <1>1 DEF FilesOK
<1> HIDE DEF m, e, d
\* At most one redirection of each direction, at the positions 1 and 3.
<1>9. ASSUME NEW in \in {0, 1, 3}, NEW out \in {0, 1, 3}, in # out \/ in = 0,
             in # 0 => /\ in \in 1 .. d /\ in + 1 \in 1 .. d /\ part[in] = "<"
                       /\ st.hasInput /\ InputAt(w, st) = m + in,
             in = 0 => ~st.hasInput,
             out # 0 => /\ out \in 1 .. d /\ out + 1 \in 1 .. d /\ part[out] \in Outputs
                        /\ st.hasOutput /\ OutputAt(w, st) = m + out,
             out = 0 => ~st.hasOutput,
             \A k \in 1 .. d : k % 2 = 1 => k = in \/ k = out
      PROVE  /\ st.inputName = Name(part, {"<"})
             /\ st.outputName = Name(part, {">", ">>"})
             /\ st.isAppend <=> Name(part, {">>"}) # NoName
  <2>1. /\ in # 0 => in \in DOMAIN part /\ in % 2 = 1 /\ part[in] = "<"
        /\ out # 0 => out \in DOMAIN part /\ out % 2 = 1 /\ part[out] \in Outputs
    <3>1. 1 % 2 = 1 /\ 3 % 2 = 1
      OBVIOUS
    <3>2. (in = 0 \/ in % 2 = 1) /\ (out = 0 \/ out % 2 = 1)
      BY <1>9, <3>1
    <3> QED BY <1>3, <1>9, <3>2
  <2>2. ASSUME NEW k \in DOMAIN part, k % 2 = 1
        PROVE  IF part[k] = "<" THEN k = in ELSE k = out /\ part[k] \in Outputs
    <3>1. k \in 1 .. d
      BY ONLY <1>3, <2>2, Zenon
    <3>2. k # 0
      BY <3>1
    <3>3. k = in \/ k = out
      BY <1>9, <2>2, <3>1
    <3>4. CASE k = in
      <4>1. part[k] = "<"
        BY ONLY <2>1, <3>2, <3>4, Zenon
      <4> QED BY ONLY <3>4, <4>1
    <3>5. CASE k = out
      <4>1. part[k] \in Outputs
        BY ONLY <2>1, <3>2, <3>5, Zenon
      <4>2. part[k] # "<"
        BY ONLY <1>7, <4>1
      <4> QED BY ONLY <3>5, <4>1, <4>2
    <3> QED BY <3>3, <3>4, <3>5
  <2>3. st.inputName = IF in # 0 THEN part[in + 1] ELSE NoName
    <3>1. st.hasInput <=> in # 0
      BY <1>9
    <3>2. ASSUME in # 0 PROVE part[in + 1] = w[InputAt(w, st) + 1]
      <4>1. in + 1 \in 1 .. d /\ InputAt(w, st) = m + in
        BY <1>9, <3>2
      <4>2. m + (in + 1) = InputAt(w, st) + 1
        BY <1>2, <4>1
      <4> QED BY <1>3, <4>1, <4>2
    <3>3. st.inputName = IF st.hasInput THEN w[InputAt(w, st) + 1] ELSE NoName
      BY <1>1
    <3> QED BY ONLY <3>1, <3>2, <3>3, Zenon
  <2>4. /\ st.outputName = IF out # 0 THEN part[out + 1] ELSE NoName
        /\ st.isAppend <=> out # 0 /\ part[out] = ">>"
        /\ out # 0 => part[out + 1] \in Tokens
    <3>1. st.hasOutput <=> out # 0
      BY <1>9
    <3>2. ASSUME out # 0
          PROVE  /\ part[out + 1] = w[OutputAt(w, st) + 1] /\ part[out] = w[OutputAt(w, st)]
                 /\ part[out + 1] \in Tokens
      <4>1. out \in 1 .. d /\ out + 1 \in 1 .. d /\ OutputAt(w, st) = m + out
        BY <1>9, <3>2
      <4>2. m + (out + 1) = OutputAt(w, st) + 1
        BY <1>2, <4>1
      <4> QED BY <1>3, <1>4, <4>1, <4>2
    <3>3. /\ st.outputName = IF st.hasOutput THEN w[OutputAt(w, st) + 1] ELSE NoName
          /\ st.isAppend <=> st.hasOutput /\ w[OutputAt(w, st)] = ">>"
      BY <1>1
    <3> QED BY ONLY <3>1, <3>2, <3>3, Zenon
  <2>5. st.inputName = Name(part, {"<"})
    <3> DEFINE ops == {"<"}
    <3>1. \A k \in DOMAIN part : k % 2 = 1 /\ part[k] \in ops => k = in
      BY <2>2
    <3>2. in # 0 => OnlyAt(part, ops, in)
      BY <2>1, <3>1 DEF OnlyAt
    <3>3. in = 0 => \A k \in DOMAIN part : k % 2 = 1 => part[k] \notin ops
      BY <1>3, <3>1
    <3> HIDE DEF ops
    <3>4. ASSUME in = 0 PROVE st.inputName = Name(part, ops)
      <4>1. Name(part, ops) = NoName
        BY <3>3, <3>4, NameMissing
      <4> QED BY ONLY <2>3, <3>4, <4>1, Zenon
    <3>5. ASSUME in # 0 PROVE st.inputName = Name(part, ops)
      <4>1. Name(part, ops) = part[in + 1]
        BY <1>3, <3>2, <3>5, NameFound
      <4> QED BY ONLY <2>3, <3>5, <4>1, Zenon
    <3>6. st.inputName = Name(part, ops)
      BY ONLY <3>4, <3>5
    <3> QED BY ONLY <3>6, Zenon DEF ops
  <2>6. st.outputName = Name(part, {">", ">>"})
    <3> DEFINE ops == {">", ">>"}
    <3>1. \A k \in DOMAIN part : k % 2 = 1 /\ part[k] \in ops => k = out
      BY <2>2
    <3>2. out # 0 => OnlyAt(part, ops, out)
      BY <1>7, <2>1, <3>1 DEF OnlyAt
    <3>3. out = 0 => \A k \in DOMAIN part : k % 2 = 1 => part[k] \notin ops
      BY <1>3, <3>1
    <3> HIDE DEF ops
    <3>4. ASSUME out = 0 PROVE st.outputName = Name(part, ops)
      <4>1. Name(part, ops) = NoName
        BY <3>3, <3>4, NameMissing
      <4> QED BY ONLY <2>4, <3>4, <4>1, Zenon
    <3>5. ASSUME out # 0 PROVE st.outputName = Name(part, ops)
      <4>1. Name(part, ops) = part[out + 1]
        BY <1>3, <3>2, <3>5, NameFound
      <4> QED BY ONLY <2>4, <3>5, <4>1, Zenon
    <3>6. st.outputName = Name(part, ops)
      BY ONLY <3>4, <3>5
    <3> QED BY ONLY <3>6, Zenon DEF ops
  <2>7. st.isAppend <=> Name(part, {">>"}) # NoName
    <3> DEFINE ops == {">>"}
    <3>1. \A k \in DOMAIN part : k % 2 = 1 /\ part[k] \in ops => k = out
      BY <2>2
    <3>2. out # 0 /\ part[out] = ">>" => OnlyAt(part, ops, out)
      BY <2>1, <3>1 DEF OnlyAt
    <3>3. out = 0 \/ part[out] # ">>" => \A k \in DOMAIN part : k % 2 = 1 => part[k] \notin ops
      BY <1>3, <3>1
    <3> HIDE DEF ops
    <3>4. ASSUME out = 0 \/ part[out] # ">>" PROVE (st.isAppend <=> Name(part, ops) # NoName)
      <4>1. Name(part, ops) = NoName
        BY <3>3, <3>4, NameMissing
      <4> QED BY ONLY <2>4, <3>4, <4>1, Zenon
    <3>5. ASSUME out # 0 /\ part[out] = ">>" PROVE (st.isAppend <=> Name(part, ops) # NoName)
      <4>1. Name(part, ops) = part[out + 1]
        BY <1>3, <3>2, <3>5, NameFound
      <4>2. part[out + 1] # NoName
        BY <2>4, <3>5, ParserConstants
      <4> QED BY ONLY <2>4, <3>5, <4>1, <4>2, Zenon
    <3>6. st.isAppend <=> Name(part, ops) # NoName
      BY ONLY <3>4, <3>5
    <3> QED BY ONLY <3>6, Zenon DEF ops
  <2> QED BY <2>5, <2>6, <2>7
<1>10. CASE ~st.hasInput /\ ~st.hasOutput
  <2>1. d = 0 /\ \A k \in 1 .. d : FALSE
    BY <1>2, <1>10
  <2>2. 0 \in {0, 1, 3}
    OBVIOUS
  <2> QED BY <1>9, <1>10, <2>1, <2>2
<1>11. CASE st.hasInput /\ ~st.hasOutput
  <2>1. d = 2 /\ 1 \in 1 .. d /\ 1 + 1 \in 1 .. d
    BY <1>2, <1>11
  <2>2. \A k \in 1 .. d : k % 2 = 1 => k = 1
    BY <2>1
  <2>3. part[1] = "<" /\ InputAt(w, st) = m + 1
    BY <1>3, <1>5, <1>8, <1>11, <2>1
  <2>4. 0 \in {0, 1, 3} /\ 1 \in {0, 1, 3} /\ 1 # 0
    OBVIOUS
  <2> QED BY <1>9, <1>11, <2>1, <2>2, <2>3, <2>4
<1>12. CASE st.hasOutput /\ ~st.hasInput
  <2>1. d = 2 /\ 1 \in 1 .. d /\ 1 + 1 \in 1 .. d
    BY <1>2, <1>12
  <2>2. \A k \in 1 .. d : k % 2 = 1 => k = 1
    BY <2>1
  <2>3. part[1] \in Outputs /\ OutputAt(w, st) = m + 1
    BY <1>3, <1>6, <1>7, <1>8, <1>12, <2>1
  <2>4. 0 \in {0, 1, 3} /\ 1 \in {0, 1, 3} /\ 1 # 0
    OBVIOUS
  <2> QED BY <1>9, <1>12, <2>1, <2>2, <2>3, <2>4
<1>13. CASE st.hasInput /\ st.hasOutput
  <2>1. d = 4 /\ 1 \in 1 .. d /\ 1 + 1 \in 1 .. d /\ 3 \in 1 .. d /\ 3 + 1 \in 1 .. d
    BY <1>2, <1>13
  <2>2. \A k \in 1 .. d : k % 2 = 1 => k = 1 \/ k = 3
    BY <2>1
  <2>3. part[1] = w[m + 1] /\ part[3] = w[m + 3]
    BY <1>3, <2>1
  <2>4. 1 \in {0, 1, 3} /\ 3 \in {0, 1, 3} /\ 1 # 0 /\ 3 # 0 /\ 1 # 3
    OBVIOUS
  <2>5. CASE w[m + 1] = "<" /\ w[m + 3] \in Outputs
    <3>1. part[1] = "<" /\ part[3] \in Outputs /\ InputAt(w, st) = m + 1 /\ OutputAt(w, st) = m + 3
      BY <1>5, <1>6, <2>3, <2>5
    <3> QED BY <1>9, <1>13, <2>1, <2>2, <2>4, <3>1
  <2>6. CASE w[m + 1] \in Outputs /\ w[m + 3] = "<"
    <3>1. part[3] = "<" /\ part[1] \in Outputs /\ InputAt(w, st) = m + 3 /\ OutputAt(w, st) = m + 1
      BY <1>5, <1>6, <1>7, <2>3, <2>6
    <3> QED BY <1>9, <1>13, <2>1, <2>2, <2>4, <3>1
  <2> QED BY <1>8, <1>13, <2>5, <2>6
<1> QED BY <1>10, <1>11, <1>12, <1>13

\* The command is the words of the form, and the second command is the tail of
\* a pipe.
LEMMA CommandsAreFound ==
  ASSUME NEW w \in Seq(Tokens), NEW st, ShapeOK(w, Len(w), st),
         IsSplit(w, Words(st), End(st)), st.expect \notin NameKinds, ~st.error,
         NEW tail, tail = Behind(w, End(st))
  PROVE  /\ st.command1 = Prefix(w, Words(st))
         /\ st.isBg <=> (tail # <<>> /\ tail[1] = "&")
         /\ st.isPipe <=> (tail # <<>> /\ tail[1] = "|")
         /\ st.command2 = IF st.isPipe THEN Tail(tail) ELSE <<>>
<1> DEFINE n == Len(w)
           m == Words(st)
           e == End(st)
<1>1. /\ st \in States /\ CommandOK(w, n, st)
      /\ st.expect = "token" => n = e
      /\ TailOK(w, n, st) /\ FlagsOK(st)
  BY DEF ShapeOK
<1>2. /\ n \in Nat /\ m \in Nat /\ e \in Nat /\ m <= n /\ e <= n
      /\ st.command1 \in Seq(Tokens) /\ st.command2 \in Seq(Tokens)
      /\ st.expect \in {"token", "command2", "nothing"}
  BY <1>1, Measures, LenProperties DEF IsSplit
<1>3. Len(st.command1) = m
  BY DEF Words
<1>4. /\ tail \in Seq(Tokens) /\ Len(tail) = n - e
      /\ \A j \in 1 .. n - e : tail[j] = w[e + j]
  <2>1. e \in 0 .. n /\ n \in e .. n
    BY <1>2
  <2> QED BY <2>1, Slice DEF Behind
<1>5. /\ tail # <<>> <=> n > e
      /\ n > e => tail[1] = w[e + 1]
  BY <1>2, <1>4, EmptySeq
<1>6. st.command1 = Prefix(w, m)
  <2>1. /\ Prefix(w, m) \in Seq(Tokens) /\ Len(Prefix(w, m)) = m
        /\ \A j \in 1 .. m : Prefix(w, m)[j] = w[j]
    <3>1. 0 \in 0 .. Len(w) /\ m \in 0 .. Len(w) /\ 0 + 1 = 1 /\ m - 0 = m
      BY <1>2
    <3>2. \A j \in 1 .. m : 0 + j = j
      OBVIOUS
    <3> QED BY <3>1, <3>2, Slice DEF Prefix
  <2>2. \A j \in 1 .. m : st.command1[j] = w[j]
    BY <1>1 DEF CommandOK
  <2> HIDE DEF m
  <2> QED BY <1>2, <1>3, <2>1, <2>2, SeqEqual
<1>7. /\ st.isBg <=> (tail # <<>> /\ tail[1] = "&")
      /\ st.isPipe <=> (tail # <<>> /\ tail[1] = "|")
  BY <1>1, <1>2, <1>5 DEF TailOK, FlagsOK
<1>8. CASE st.isPipe
  <2>1. /\ n > e /\ Len(st.command2) = n - (e + 1)
        /\ \A j \in 1 .. Len(st.command2) : st.command2[j] = w[e + 1 + j]
    BY <1>1, <1>8 DEF TailOK, FlagsOK
  <2> HIDE DEF n, e
  <2>2. /\ Tail(tail) \in Seq(Tokens) /\ Len(Tail(tail)) = Len(tail) - 1
        /\ \A j \in 1 .. Len(tail) - 1 : Tail(tail)[j] = tail[j + 1]
    BY <1>4, <1>5, <2>1, HeadTailProperties
  <2>3. Len(Tail(tail)) = Len(st.command2)
    BY <1>2, <1>4, <2>1, <2>2
  <2>4. ASSUME NEW j \in 1 .. Len(st.command2)
        PROVE  st.command2[j] = Tail(tail)[j]
    <3>1. /\ j \in 1 .. Len(tail) - 1 /\ j + 1 \in 1 .. n - e /\ e + 1 + j = e + (j + 1)
      BY <1>2, <1>4, <2>1
    <3> QED BY <1>4, <2>1, <2>2, <3>1
  <2>5. st.command2 = Tail(tail)
    BY <1>2, <2>2, <2>3, <2>4, SeqEqual
  <2> QED BY <1>6, <1>7, <1>8, <2>5
<1>9. CASE ~st.isPipe
  <2>1. st.command2 = <<>>
    BY <1>1, <1>9 DEF TailOK, FlagsOK
  <2> QED BY <1>6, <1>7, <1>9, <2>1
<1> QED BY <1>8, <1>9

\* The parser is right about every line there is.
LEMMA LineIsUnderstood ==
  ASSUME NEW w \in Seq(Tokens)
  PROVE  ParsesAsWritten(w)
<1> DEFINE st == FoldLeft(Turn, Start, w)
<1>1. ShapeOK(w, Len(w), st)
  BY LineHasShape
<1>2. Process(w) = IF st.expect \in NameKinds \/ st.command1 = <<>> THEN Refuse(st) ELSE st
  BY DEF Process, NameKinds
<1> HIDE DEF st
<1>3. st \in States /\ st.command1 \in Seq(Tokens)
  BY <1>1, Measures DEF ShapeOK
<1>4. st.command1 = <<>> <=> Words(st) = 0
  BY <1>3, EmptySeq DEF Words
<1>5. CASE Splits(w) = {}
  <2>1. ~IsSplit(w, Words(st), End(st))
    BY <1>5, SplitsByPosition
  <2>2. Words(st) = 0 \/ st.expect \in NameKinds \/ st.error
    BY <1>1, <2>1, FoundIsSplit
  <2>3. Process(w).error
    BY <1>2, <1>3, <1>4, <2>2, Refusing
  <2> QED BY <1>5, <2>3 DEF ParsesAsWritten
<1>6. CASE Splits(w) # {}
  <2>1. ASSUME NEW s \in Splits(w)
        PROVE  LET found == Process(w)
                   part == SubSeq(w, s[1] + 1, s[2])
                   tail == Behind(w, s[2])
               IN  /\ ~found.error
                   /\ found.command1 = Prefix(w, s[1])
                   /\ found.inputName = Name(part, {"<"})
                   /\ found.outputName = Name(part, {">", ">>"})
                   /\ found.isAppend <=> Name(part, {">>"}) # NoName
                   /\ found.isBg <=> (tail # <<>> /\ tail[1] = "&")
                   /\ found.isPipe <=> (tail # <<>> /\ tail[1] = "|")
                   /\ found.command2 = IF found.isPipe THEN Tail(tail) ELSE <<>>
    <3>1. PICK a, b : s = <<a, b>>
      BY DEF Splits
    <3>2. IsSplit(w, a, b)
      BY <3>1, SplitsByPosition
    <3>3. /\ a = Words(st) /\ b = End(st) /\ st.expect \notin NameKinds /\ ~st.error
      BY <1>1, <3>2, SplitIsFound
    <3>4. s[1] = Words(st) /\ s[2] = End(st) /\ IsSplit(w, Words(st), End(st))
      BY <3>1, <3>2, <3>3
    <3>5. Words(st) # 0
      BY <3>4 DEF IsSplit
    <3>6. Process(w) = st
      BY <1>2, <1>4, <3>3, <3>5
    <3> DEFINE part == SubSeq(w, Words(st) + 1, End(st))
               tail == Behind(w, End(st))
    <3>7. /\ st.inputName = Name(part, {"<"})
          /\ st.outputName = Name(part, {">", ">>"})
          /\ st.isAppend <=> Name(part, {">>"}) # NoName
      BY <1>1, <3>3, <3>4, NamesAreFound
    <3>8. /\ st.command1 = Prefix(w, Words(st))
          /\ st.isBg <=> (tail # <<>> /\ tail[1] = "&")
          /\ st.isPipe <=> (tail # <<>> /\ tail[1] = "|")
          /\ st.command2 = IF st.isPipe THEN Tail(tail) ELSE <<>>
      BY <1>1, <3>3, <3>4, CommandsAreFound
    <3> QED BY <3>3, <3>4, <3>6, <3>7, <3>8, Zenon
  <2> QED BY <1>6, <2>1, Zenon DEF ParsesAsWritten
<1> QED BY <1>5, <1>6

-----------------------------------------------------------------------------
\* The line typed is a sequence of tokens.
LineOK == line \in Seq(Tokens)

\* The shell accepts the lines that have the form of a command, understands each
\* of them in the only way there is, and refuses every other line (process,
\* lines 209-328), whatever the line and however long.
THEOREM LinesAreUnderstood == Spec => []LinesParse
<1>1. Init => LineOK
  BY DEF Init, LineOK
<1>2. LineOK /\ [Next]_vars => LineOK'
  <2> SUFFICES ASSUME LineOK, [Next]_vars
               PROVE  LineOK'
    OBVIOUS
  <2>1. CASE Type
    <3>1. PICK token \in Tokens : line' = Append(line, token)
      BY <2>1, Zenon DEF Type
    <3> QED BY <3>1 DEF LineOK
  <2>2. CASE ~Type
    <3>1. line' = line
      BY <2>2, Zenon DEF Next, Pick, vars
    <3> QED BY <3>1 DEF LineOK
  <2> QED BY <2>1, <2>2
<1>3. LineOK => LinesParse
  BY LineIsUnderstood DEF LinesParse, LineOK
<1> QED BY <1>1, <1>2, <1>3, PTL DEF Spec

-----------------------------------------------------------------------------
(***************************************************************************)
(* The copier's invariant.                                                 *)
(***************************************************************************)
\* While an argument is copied.
Copying == {"openSource", "openTarget", "copy", "close"}
Labels == {"start", "next"} \cup Copying \cup tucp!Ended

Types ==
  /\ pc \in Labels
  /\ args \in Seq(tucp!Words)
  /\ files \in [tucp!Paths -> Seq(tucp!Blocks)]
  /\ before \in [tucp!Paths -> Seq(tucp!Blocks)]
  /\ i \in Nat \ {0}
  /\ source \in Seq(tucp!Blocks)
  /\ target \in tucp!Paths \cup {tucp!NoTarget}

\* Which arguments there are, and where tucp is in them.
ArgumentsOK ==
  /\ pc \in Copying \cup {"next"} =>
       i \in tucp!Sources /\ (tucp!IsDir(tucp!last) \/ (Len(args) = 2 /\ ~tucp!IsDir(args[1])))
  /\ pc = "next" => tucp!IsDir(tucp!last)
  /\ pc = "start" => i = 1 /\ files = before
  /\ pc = "done" => Len(args) >= 2 /\ i >= Len(args)

TargetOK ==
  pc \in Copying => target = tucp!NoTarget \/ target = tucp!Meant(i) \/ target \in tucp!Astray

Untouched ==
  pc # "idle" => \A f \in tucp!Paths : files[f] # before[f] => Len(args) >= 2 /\ f \in tucp!Targets \cup tucp!Astray

From(j) == FileOf[args[j]]

\* What opening the j-th argument gives to read, before its destination is opened.
Read(j) == IF tucp!IsDir(args[j]) THEN <<>> ELSE before[From(j)]

Straight == Len(args) >= 2 /\ ~tucp!Misled

\* Only destinations that have been opened are changed.
Opened(k) == k < i \/ (k = i /\ pc \in {"copy", "close"})
OpenedOnly ==
  \A f \in tucp!Paths : files[f] # before[f] => \E k \in tucp!Sources : Opened(k) /\ tucp!Meant(k) = f

\* A copy is whole, until another source of that name comes.
Begun(k) == k < i \/ (k = i /\ pc \in Copying)

CopiesWhole ==
  \A j \in tucp!Sources :
    /\ j < i /\ tucp!Kept(j)
    /\ \A k \in tucp!Sources : k > j /\ Begun(k) => tucp!Meant(k) # tucp!Meant(j)
    => tucp!Meant(j) # tucp!NoTarget /\ files[tucp!Meant(j)] = tucp!Had(j)

\* What is copied and what is left to copy is the source.
CopyUnderWay ==
  tucp!Kept(i) =>
    /\ pc = "openTarget" => source = Read(i)
    /\ pc = "copy" /\ target # tucp!NoTarget => files[target] \o source = tucp!Had(i)
    /\ pc = "close" => target # tucp!NoTarget /\ target = tucp!Meant(i) /\ files[target] = tucp!Had(i)

CopyInv ==
  Straight => /\ pc \in Copying \cup {"start", "next", "done"} => OpenedOnly /\ CopiesWhole
              /\ pc \in Copying => CopyUnderWay

TucpInv == Types /\ ArgumentsOK /\ TargetOK /\ Untouched /\ CopyInv

-----------------------------------------------------------------------------
(***************************************************************************)
(* Where arguments are copied to.                                          *)
(***************************************************************************)
LEMMA ArgumentWords ==
  ASSUME tucp!ConstantsOK, Types, Len(args) >= 2
  PROVE  /\ tucp!last \in tucp!Words /\ args[1] \in tucp!Words /\ args[2] \in tucp!Words
         /\ \A j \in tucp!Sources : args[j] \in tucp!Words
         /\ Len(args) \in Nat /\ 1 \in tucp!Sources
<1>1. Len(args) \in Nat /\ \A j \in 1 .. Len(args) : args[j] \in tucp!Words
  BY ElementOfSeq, LenProperties DEF Types
<1> QED BY <1>1 DEF tucp!last, tucp!Sources

LEMMA PathInDirectory ==
  ASSUME tucp!ConstantsOK, NEW dir \in CopyDirectories \cup {tucp!Here, tucp!Nowhere}, NEW word
  PROVE  tucp!PathIn(dir, word) \in tucp!Paths \cup {tucp!NoTarget} /\ tucp!PathIn(tucp!Nowhere, word) = tucp!NoTarget
<1>1. <<tucp!Nowhere, word>> \notin DOMAIN PathFrom
  <2> DEFINE at == <<tucp!Nowhere, word>>
  <2>1. at[1] = tucp!Nowhere
    OBVIOUS
  <2> HIDE DEF at
  <2>2. at \notin DOMAIN PathFrom
    BY <2>1 DEF tucp!ConstantsOK
  <2> QED BY <2>2 DEF at
<1>2. \A at \in DOMAIN PathFrom : PathFrom[at] \in tucp!Paths
  BY DEF tucp!ConstantsOK
<1> QED BY <1>1, <1>2 DEF tucp!PathIn

\* A destination is the one meant, one astray, or none.
LEMMA TargetOfDestination ==
  ASSUME tucp!ConstantsOK, Types, Len(args) >= 2, tucp!IsDir(tucp!last), NEW j \in tucp!Sources,
         NEW dir \in tucp!DestinationsNow
  PROVE  LET path == tucp!PathIn(dir, args[j])
         IN  /\ path \in tucp!Paths \cup {tucp!NoTarget}
             /\ path = tucp!NoTarget \/ path = tucp!Meant(j) \/ path \in tucp!Astray
<1> DEFINE place == IF Len(args) = 2 THEN LengthOf[tucp!last] ELSE LengthOf[args[2]]
           short == ShortOf[tucp!last]
<1>1. dir \in tucp!Destinations(tucp!last, place)
  BY DEF tucp!DestinationsNow
<1>2. /\ short \in CopyDirectories \cup {tucp!Here, tucp!Nowhere}
      /\ DirectoryOf[tucp!last] \in CopyDirectories \cup {tucp!Here, tucp!Nowhere}
      /\ LengthOf[tucp!last] \in SlashesOf[tucp!last] => short = DirectoryOf[tucp!last]
  BY DEF tucp!ConstantsOK, tucp!IsDir
<1>3. LengthOf[tucp!last] \in Nat /\ Len(args) \in Nat
  BY ArgumentWords DEF tucp!ConstantsOK
<1>4. tucp!Meant(j) = tucp!PathIn(DirectoryOf[tucp!last], args[j])
  BY DEF tucp!Meant
<1>5. \/ dir = tucp!Nowhere \/ dir = DirectoryOf[tucp!last]
      \/ dir = short /\ (place \in SlashesOf[tucp!last] \/ place > LengthOf[tucp!last] + 1)
  BY <1>1 DEF tucp!Destinations, tucp!Shortened
<1>6. ASSUME dir = short, place \in SlashesOf[tucp!last] \/ place > LengthOf[tucp!last] + 1,
             short # DirectoryOf[tucp!last]
      PROVE  tucp!PathIn(dir, args[j]) \in tucp!Astray
  <2>1. place # LengthOf[tucp!last]
    BY <1>2, <1>3, <1>6
  <2>2. Len(args) > 2 /\ place = LengthOf[args[2]]
    <3>1. Len(args) # 2
      BY <2>1
    <3>2. \A n \in Nat : n >= 2 /\ n # 2 => n > 2
      OBVIOUS
    <3>3. Len(args) > 2
      BY <1>3, <3>1, <3>2, Zenon
    <3> QED BY <3>1, <3>3
  <2>3. tucp!Misled
    BY <1>6, <2>1, <2>2 DEF tucp!Misled
  <2> QED BY <1>6, <2>3 DEF tucp!Astray
<1>7. dir \in CopyDirectories \cup {tucp!Here, tucp!Nowhere}
  BY <1>2, <1>5
<1>8. tucp!PathIn(dir, args[j]) \in tucp!Paths \cup {tucp!NoTarget} /\ tucp!PathIn(tucp!Nowhere, args[j]) = tucp!NoTarget
  BY <1>7, PathInDirectory
<1> QED BY <1>4, <1>5, <1>6, <1>8

LEMMA MeantType ==
  ASSUME tucp!ConstantsOK, Types, Len(args) >= 2, NEW j \in tucp!Sources
  PROVE  tucp!Meant(j) \in tucp!Paths \cup {tucp!NoTarget}
<1>1. CASE tucp!IsDir(tucp!last)
  <2>1. DirectoryOf[tucp!last] \in CopyDirectories \cup {tucp!Here, tucp!Nowhere}
    BY <1>1 DEF tucp!ConstantsOK, tucp!IsDir
  <2> QED BY <1>1, <2>1, PathInDirectory DEF tucp!Meant
<1>2. CASE ~tucp!IsDir(tucp!last)
  BY <1>2, ArgumentWords DEF tucp!Meant, tucp!ConstantsOK, tucp!IsDir, tucp!Words
<1> QED BY <1>1, <1>2

LEMMA SourceType ==
  ASSUME tucp!ConstantsOK, Types, Len(args) >= 2, NEW j \in tucp!Sources, ~tucp!IsDir(args[j])
  PROVE  From(j) \in tucp!Paths
BY ArgumentWords DEF From, tucp!ConstantsOK, tucp!IsDir, tucp!Words

\* What depends on the arguments alone.
LEMMA SameArguments ==
  ASSUME args' = args
  PROVE  /\ Len(args)' = Len(args) /\ tucp!last' = tucp!last /\ tucp!Sources' = tucp!Sources /\ tucp!Targets' = tucp!Targets
         /\ tucp!Astray' = tucp!Astray /\ tucp!Misled' = tucp!Misled /\ Straight' = Straight
         /\ \A j : tucp!Meant(j)' = tucp!Meant(j) /\ From(j)' = From(j)
BY DEF tucp!last, tucp!Sources, tucp!Targets, tucp!Astray, tucp!Misled, Straight, tucp!Meant, From, tucp!IsDir

-----------------------------------------------------------------------------
(***************************************************************************)
(* Types and arguments.                                                    *)
(***************************************************************************)
LEMMA NoFileType == tucp!NoFile \in Seq(tucp!Blocks)
<1>1. "none" \in tucp!Blocks
  BY DEF tucp!Blocks
<1> QED BY <1>1 DEF tucp!NoFile

LEMMA SourcesTwo == ASSUME Types, NEW j \in tucp!Sources PROVE Len(args) >= 2
BY LenProperties DEF Types, tucp!Sources

LEMMA InitTucpInv ==
  ASSUME tucp!ConstantsOK, tucp!Init
  PROVE  TucpInv
<1>1. tucp!NoFile \in Seq(tucp!Blocks)
  BY NoFileType
<1>2. Types
  <2>1. args \in Seq(tucp!Words) /\ source \in Seq(tucp!Blocks)
    BY <1>1 DEF tucp!Init
  <2> QED BY <1>1, <2>1 DEF tucp!Init, Types, Labels, tucp!Ended
<1>3. ArgumentsOK /\ TargetOK /\ Untouched
  BY DEF tucp!Init, ArgumentsOK, TargetOK, Untouched, Copying
<1>4. CopyInv
  BY DEF tucp!Init, CopyInv, Copying
<1> QED BY <1>2, <1>3, <1>4 DEF TucpInv

LEMMA NextTypes ==
  ASSUME tucp!ConstantsOK, Types, ArgumentsOK, tucp!Next
  PROVE  Types'
<1> USE DEF Types
<1>1. CASE tucp!Invoke
  <2>1. tucp!NoFile \in Seq(tucp!Blocks)
    BY NoFileType
  <2> QED BY <1>1, <2>1 DEF tucp!Invoke, tucp!ConstantsOK, Labels
<1>2. CASE tucp!Fails \/ tucp!CopyToNothing \/ tucp!EndOfSource \/ tucp!Killed
  BY <1>2 DEF tucp!Fails, tucp!CopyToNothing, tucp!EndOfSource, tucp!Killed, Labels, Copying, tucp!Ended
<1>3. CASE tucp!ToFile
  <2>1. FileOf[tucp!last] \in tucp!Paths
    BY <1>3, ArgumentWords DEF tucp!ToFile, tucp!ConstantsOK, tucp!IsDir, tucp!Words
  <2> QED BY <1>3, <2>1 DEF tucp!ToFile, Labels, Copying
<1>4. CASE tucp!ToDirectory
  <2>1. i \in tucp!Sources
    BY <1>4 DEF tucp!ToDirectory, tucp!Sources
  <2>2. target' \in tucp!Paths \cup {tucp!NoTarget}
    BY <1>4, <2>1, TargetOfDestination DEF tucp!ToDirectory
  <2> QED BY <1>4, <2>2 DEF tucp!ToDirectory, Labels, Copying
<1>5. CASE tucp!OpenSource
  <2>1. Len(args) >= 2 /\ i \in tucp!Sources
    BY <1>5, SourcesTwo DEF tucp!OpenSource, ArgumentsOK, Copying
  <2>2. source' \in Seq(tucp!Blocks)
    <3>1. CASE tucp!IsDir(args[i])
      BY <1>5, <3>1 DEF tucp!OpenSource
    <3>2. CASE ~tucp!IsDir(args[i])
      BY <1>5, <2>1, <3>2, SourceType DEF tucp!OpenSource, From
    <3> QED BY <3>1, <3>2
  <2> QED BY <1>5, <2>2 DEF tucp!OpenSource, Labels, Copying
<1>6. CASE tucp!OpenTarget
  <2>1. <<>> \in Seq(tucp!Blocks)
    OBVIOUS
  <2>2. files' \in [tucp!Paths -> Seq(tucp!Blocks)] /\ source' \in Seq(tucp!Blocks)
    BY <1>6, <2>1 DEF tucp!OpenTarget
  <2> QED BY <1>6, <2>2 DEF tucp!OpenTarget, Labels, Copying
<1>7. CASE tucp!CopyBlock
  <2>1. Head(source) \in tucp!Blocks /\ Tail(source) \in Seq(tucp!Blocks) /\ target \in tucp!Paths
    BY <1>7 DEF tucp!CopyBlock
  <2>2. Append(files[target], Head(source)) \in Seq(tucp!Blocks)
    BY <2>1, AppendProperties
  <2>3. files' = [files EXCEPT ![target] = Append(files[target], Head(source))]
    BY <1>7 DEF tucp!CopyBlock
  <2>4. files' \in [tucp!Paths -> Seq(tucp!Blocks)]
    BY <2>2, <2>3
  <2> QED BY <1>7, <2>1, <2>4 DEF tucp!CopyBlock
<1>8. CASE tucp!Close
  <2>1. tucp!NoFile \in Seq(tucp!Blocks)
    BY NoFileType
  <2> QED BY <1>8, <2>1 DEF tucp!Close, Labels, tucp!Ended
<1> QED BY <1>1, <1>2, <1>3, <1>4, <1>5, <1>6, <1>7, <1>8 DEF tucp!Next

LEMMA NextArgumentsOK ==
  ASSUME tucp!ConstantsOK, Types, ArgumentsOK, tucp!Next
  PROVE  ArgumentsOK'
<1>1. CASE tucp!Invoke
  BY <1>1 DEF tucp!Invoke, ArgumentsOK, Copying, tucp!Ended
<1>2. CASE ~tucp!Invoke
  <2>1. args' = args
    BY <1>2 DEF tucp!Next, tucp!Fails, tucp!ToFile, tucp!ToDirectory, tucp!OpenSource, tucp!OpenTarget, tucp!CopyBlock, tucp!CopyToNothing,
                tucp!EndOfSource, tucp!Close, tucp!Killed
  <2>2. tucp!Sources' = tucp!Sources /\ tucp!last' = tucp!last /\ Len(args) \in Nat
    BY <2>1, SameArguments, LenProperties DEF Types
  <2>3. CASE tucp!Fails \/ tucp!Killed \/ tucp!CopyToNothing
    BY <2>3 DEF tucp!Fails, tucp!Killed, tucp!CopyToNothing, ArgumentsOK, Copying
  <2>4. CASE tucp!ToFile \/ tucp!ToDirectory
    <3>1. i \in tucp!Sources
      BY <2>2, <2>4 DEF tucp!ToFile, tucp!ToDirectory, ArgumentsOK, tucp!Sources
    <3> QED BY <2>1, <2>2, <2>4, <3>1 DEF tucp!ToFile, tucp!ToDirectory, ArgumentsOK, Copying, tucp!IsDir
  <2>5. CASE tucp!OpenSource \/ tucp!OpenTarget \/ tucp!CopyBlock \/ tucp!EndOfSource
    <3>1. pc \in Copying /\ pc' \in Copying /\ i' = i
      BY <2>5 DEF tucp!OpenSource, tucp!OpenTarget, tucp!CopyBlock, tucp!EndOfSource, Copying
    <3> QED BY <2>1, <2>2, <3>1 DEF ArgumentsOK, Copying, tucp!IsDir
  <2>6. CASE tucp!Close
    <3>1. i' = i + 1 /\ pc' = (IF i + 1 < Len(args) THEN "next" ELSE "done") /\ pc = "close"
      BY <2>6 DEF tucp!Close
    <3>2. i \in tucp!Sources /\ i \in Nat /\ (tucp!IsDir(tucp!last) \/ Len(args) = 2)
      BY <3>1 DEF ArgumentsOK, Copying, Types
    <3>3. CASE i + 1 < Len(args)
      <4>0. i \in 1 .. Len(args) - 1
        BY <3>2 DEF tucp!Sources
      <4>3. \A m, n \in Nat : m \in 1 .. n - 1 /\ m + 1 < n => n # 2 /\ m + 1 \in 1 .. n - 1
        OBVIOUS
      <4>1. Len(args) # 2 /\ i + 1 \in tucp!Sources
        BY <2>2, <3>2, <3>3, <4>0, <4>3, Zenon DEF tucp!Sources
      <4>2. tucp!IsDir(tucp!last)
        BY <3>2, <4>1
      <4> QED BY <2>1, <2>2, <3>1, <3>3, <4>1, <4>2 DEF ArgumentsOK, Copying, tucp!IsDir
    <3>4. CASE ~(i + 1 < Len(args))
      <4>1. Len(args) >= 2 /\ i + 1 >= Len(args)
        BY <2>2, <3>2, <3>4 DEF tucp!Sources
      <4> QED BY <2>1, <3>1, <3>4, <4>1 DEF ArgumentsOK, Copying
    <3> QED BY <3>3, <3>4
  <2> QED BY <1>2, <2>3, <2>4, <2>5, <2>6 DEF tucp!Next
<1> QED BY <1>1, <1>2

-----------------------------------------------------------------------------
(***************************************************************************)
(* What files are touched.                                                 *)
(***************************************************************************)
\* All steps but that of invoking tucp again.
LEMMA ArgumentsStay ==
  ASSUME tucp!Next, ~tucp!Invoke
  PROVE  args' = args /\ before' = before /\ invocations' = invocations
BY DEF tucp!Next, tucp!Fails, tucp!ToFile, tucp!ToDirectory, tucp!OpenSource, tucp!OpenTarget, tucp!CopyBlock, tucp!CopyToNothing,
       tucp!EndOfSource, tucp!Close, tucp!Killed

LEMMA NextTargetOK ==
  ASSUME tucp!ConstantsOK, Types, ArgumentsOK, TargetOK, tucp!Next
  PROVE  TargetOK'
<1>1. CASE tucp!Invoke
  BY <1>1 DEF tucp!Invoke, TargetOK, Copying
<1>2. CASE ~tucp!Invoke
  <2>1. /\ args' = args /\ tucp!Astray' = tucp!Astray /\ tucp!last' = tucp!last
        /\ \A j : tucp!Meant(j)' = tucp!Meant(j)
    BY <1>2, ArgumentsStay, SameArguments
  <2>2. CASE tucp!ToFile
    <3>1. i' = i /\ target' = tucp!Meant(i)
      BY <2>2 DEF tucp!ToFile, tucp!Meant
    <3>2. target' = tucp!Meant(i)'
      BY <2>1, <3>1 DEF tucp!Meant
    <3> QED BY <3>2 DEF TargetOK
  <2>3. CASE tucp!ToDirectory
    <3>1. i \in tucp!Sources /\ tucp!IsDir(tucp!last) /\ Len(args) >= 2 /\ i' = i
      BY <2>3 DEF tucp!ToDirectory, tucp!Sources, Types
    <3>2. PICK dir \in tucp!DestinationsNow : target' = tucp!PathIn(dir, args[i])
      BY <2>3 DEF tucp!ToDirectory
    <3>3. target' = tucp!NoTarget \/ target' = tucp!Meant(i) \/ target' \in tucp!Astray
      BY <3>1, <3>2, TargetOfDestination
    <3>4. tucp!Meant(i)' = tucp!Meant(i)
      BY <2>1, <3>1 DEF tucp!Meant
    <3> QED BY <2>1, <3>3, <3>4 DEF TargetOK
  <2>4. CASE tucp!Fails \/ tucp!Killed \/ tucp!CopyToNothing \/ tucp!Close
    BY <2>4 DEF tucp!Fails, tucp!Killed, tucp!CopyToNothing, tucp!Close, TargetOK, Copying, tucp!Ended
  <2>5. CASE tucp!OpenSource \/ tucp!OpenTarget \/ tucp!CopyBlock \/ tucp!EndOfSource
    <3>1. pc \in Copying /\ i' = i /\ target' = target
      BY <2>5 DEF tucp!OpenSource, tucp!OpenTarget, tucp!CopyBlock, tucp!EndOfSource, Copying
    <3>2. tucp!Meant(i)' = tucp!Meant(i)
      BY <2>1, <3>1 DEF tucp!Meant
    <3> QED BY <2>1, <3>1, <3>2 DEF TargetOK
  <2> QED BY <1>2, <2>2, <2>3, <2>4, <2>5 DEF tucp!Next
<1> QED BY <1>1, <1>2

\* A step that changes a file changes the target, and that one only.
LEMMA FilesChange ==
  ASSUME Types, ArgumentsOK, tucp!Next, ~tucp!Invoke, NEW f \in tucp!Paths, files'[f] # files[f]
  PROVE  (tucp!OpenTarget \/ tucp!CopyBlock) /\ f = target /\ target # tucp!NoTarget
<1>1. tucp!OpenTarget \/ tucp!CopyBlock
  BY DEF tucp!Next, tucp!Fails, tucp!ToFile, tucp!ToDirectory, tucp!OpenSource, tucp!CopyToNothing, tucp!EndOfSource, tucp!Close, tucp!Killed
<1>2. CASE tucp!OpenTarget
  BY <1>2 DEF tucp!OpenTarget, Types
<1>3. CASE tucp!CopyBlock
  BY <1>3 DEF tucp!CopyBlock, Types
<1> QED BY <1>1, <1>2, <1>3

LEMMA NextUntouched ==
  ASSUME tucp!ConstantsOK, Types, ArgumentsOK, TargetOK, Untouched, tucp!Next
  PROVE  Untouched'
<1>1. CASE tucp!Invoke
  BY <1>1 DEF tucp!Invoke, Untouched
<1>2. CASE ~tucp!Invoke
  <2>1. /\ Len(args)' = Len(args) /\ tucp!Targets' = tucp!Targets /\ tucp!Astray' = tucp!Astray
        /\ before' = before
    BY <1>2, ArgumentsStay, SameArguments
  <2>2. SUFFICES ASSUME pc' # "idle", NEW f \in tucp!Paths, files'[f] # before[f]
                 PROVE  Len(args) >= 2 /\ f \in tucp!Targets \cup tucp!Astray
    BY <2>1 DEF Untouched
  <2>3. CASE files'[f] = files[f]
    <3>1. pc # "idle"
      BY <1>2 DEF tucp!Next, tucp!Fails, tucp!ToFile, tucp!ToDirectory, tucp!OpenSource, tucp!OpenTarget, tucp!CopyBlock,
                  tucp!CopyToNothing, tucp!EndOfSource, tucp!Close, tucp!Killed, tucp!Ended
    <3> QED BY <2>2, <2>3, <3>1 DEF Untouched
  <2>4. CASE files'[f] # files[f]
    <3>1. (tucp!OpenTarget \/ tucp!CopyBlock) /\ f = target /\ target # tucp!NoTarget
      BY <1>2, <2>4, FilesChange
    <3>2. pc \in Copying
      BY <3>1 DEF tucp!OpenTarget, tucp!CopyBlock, Copying
    <3>3. i \in tucp!Sources /\ (target = tucp!Meant(i) \/ target \in tucp!Astray)
      BY <3>1, <3>2 DEF ArgumentsOK, TargetOK
    <3>4. Len(args) >= 2
      BY <3>3, SourcesTwo
    <3> QED BY <3>1, <3>3, <3>4 DEF tucp!Targets
  <2> QED BY <2>3, <2>4
<1> QED BY <1>1, <1>2

-----------------------------------------------------------------------------
(***************************************************************************)
(* What the copies hold.                                                   *)
(***************************************************************************)
\* What depends on the arguments and what was there before.
LEMMA SameBefore ==
  ASSUME args' = args, before' = before, NEW j
  PROVE  tucp!Kept(j)' = tucp!Kept(j) /\ tucp!Had(j)' = tucp!Had(j) /\ Read(j)' = Read(j)
<1>1. \A k : tucp!Meant(k)' = tucp!Meant(k) /\ tucp!IsDir(args[j])' = tucp!IsDir(args[j])
  BY SameArguments DEF tucp!IsDir
<1>2. tucp!Kept(j)' = tucp!Kept(j)
  BY <1>1 DEF tucp!Kept
<1>3. tucp!Had(j)' = tucp!Had(j) /\ Read(j)' = Read(j)
  BY <1>1 DEF tucp!Had, Read, From
<1> QED BY <1>2, <1>3

\* The invariant after a step that keeps the arguments.
LEMMA CopiesWholeNext ==
  ASSUME args' = args, before' = before,
         \A j \in tucp!Sources :
           /\ j < i' /\ tucp!Kept(j)
           /\ \A k \in tucp!Sources : k > j /\ (k < i' \/ (k = i' /\ pc' \in Copying)) => tucp!Meant(k) # tucp!Meant(j)
           => tucp!Meant(j) # tucp!NoTarget /\ files'[tucp!Meant(j)] = tucp!Had(j)
  PROVE  CopiesWhole'
<1>1. tucp!Sources' = tucp!Sources /\ \A j : tucp!Meant(j)' = tucp!Meant(j)
  BY SameArguments
<1>2. \A j : tucp!Kept(j)' = tucp!Kept(j) /\ tucp!Had(j)' = tucp!Had(j)
  BY SameBefore
<1>3. \A k : Begun(k)' = (k < i' \/ (k = i' /\ pc' \in Copying))
  BY DEF Begun, Copying
<1> QED BY <1>1, <1>2, <1>3 DEF CopiesWhole

LEMMA CopyUnderWayNext ==
  ASSUME args' = args, before' = before, i' = i,
         tucp!Kept(i) =>
           /\ pc' = "openTarget" => source' = Read(i)
           /\ pc' = "copy" /\ target' # tucp!NoTarget => files'[target'] \o source' = tucp!Had(i)
           /\ pc' = "close" => target' # tucp!NoTarget /\ target' = tucp!Meant(i) /\ files'[target'] = tucp!Had(i)
  PROVE  CopyUnderWay'
<1>1. tucp!Meant(i)' = tucp!Meant(i)
  BY DEF tucp!Meant, tucp!last, tucp!IsDir
<1>2. tucp!Kept(i)' = tucp!Kept(i) /\ tucp!Had(i)' = tucp!Had(i) /\ Read(i)' = Read(i)
  <2>1. \A j \in {i} : tucp!Kept(j)' = tucp!Kept(j) /\ tucp!Had(j)' = tucp!Had(j) /\ Read(j)' = Read(j)
    BY SameBefore
  <2>2. /\ tucp!Kept(i)' = (\E j \in {i} : tucp!Kept(j)')
        /\ tucp!Had(i)' = tucp!Had(i) /\ Read(i)' = Read(i)
    BY <1>1, SameArguments DEF tucp!Kept, tucp!Had, Read, From, tucp!IsDir
  <2> QED BY <2>1, <2>2
<1> QED BY <1>1, <1>2 DEF CopyUnderWay

\* Without a misleading slash nothing goes astray.
LEMMA StraightTarget ==
  ASSUME tucp!ConstantsOK, Types, ArgumentsOK, TargetOK, Straight, pc \in Copying
  PROVE  /\ i \in tucp!Sources /\ (target = tucp!NoTarget \/ target = tucp!Meant(i)) /\ Len(args) >= 2
         /\ ~tucp!IsDir(args[i]) => From(i) \in tucp!Paths
<1>1. i \in tucp!Sources /\ (target = tucp!NoTarget \/ target = tucp!Meant(i)) /\ Len(args) >= 2
  BY DEF ArgumentsOK, TargetOK, Straight, tucp!Astray
<1>2. ~tucp!IsDir(args[i]) => From(i) \in tucp!Paths
  BY <1>1, SourceType
<1> QED BY <1>1, <1>2

LEMMA AppendThenRest ==
  ASSUME NEW S, NEW x \in Seq(S), NEW s \in Seq(S), s # <<>>
  PROVE  Append(x, Head(s)) \o Tail(s) = x \o s
<1>1. Head(s) \in S /\ Tail(s) \in Seq(S) /\ <<Head(s)>> \in Seq(S)
  BY HeadTailProperties
<1>2. Append(x, Head(s)) = x \o <<Head(s)>>
  BY <1>1, AppendIsConcat
<1>3. <<Head(s)>> \o Tail(s) = s
  BY <1>1, HeadTailProperties, ConcatProperties, SeqEqual
<1> QED BY <1>1, <1>2, <1>3, ConcatAssociative

LEMMA NextCopiesWhole ==
  ASSUME tucp!ConstantsOK, TucpInv, tucp!Next, ~tucp!Invoke, Straight,
         pc' \in Copying \cup {"start", "next", "done"}
  PROVE  CopiesWhole'
<1>1. args' = args /\ before' = before
  BY ArgumentsStay
<1>2. pc \in Copying \cup {"start", "next"}
  BY DEF tucp!Next, tucp!Fails, tucp!ToFile, tucp!ToDirectory, tucp!OpenSource, tucp!OpenTarget, tucp!CopyBlock, tucp!CopyToNothing,
         tucp!EndOfSource, tucp!Close, tucp!Killed, Copying
<1>3. CopiesWhole
  BY <1>2 DEF TucpInv, CopyInv
<1>4. i \in Nat /\ Len(args) \in Nat
  BY LenProperties DEF TucpInv, Types
<1>5. SUFFICES ASSUME NEW j \in tucp!Sources, j < i', tucp!Kept(j),
                      \A k \in tucp!Sources : k > j /\ (k < i' \/ (k = i' /\ pc' \in Copying))
                                           => tucp!Meant(k) # tucp!Meant(j)
               PROVE  tucp!Meant(j) # tucp!NoTarget /\ files'[tucp!Meant(j)] = tucp!Had(j)
  BY <1>1, CopiesWholeNext
<1>6. tucp!Meant(j) \in tucp!Paths \cup {tucp!NoTarget}
  BY <1>5, MeantType DEF TucpInv, Straight
<1>7. CASE tucp!Close
  <2>1. i' = i + 1 /\ files' = files /\ pc = "close" /\ pc' \notin Copying
    BY <1>7 DEF tucp!Close, Copying
  <2>2. CASE j = i
    BY <2>1, <2>2, <1>5 DEF TucpInv, CopyInv, CopyUnderWay, Copying
  <2>3. CASE j # i
    <3>1. j < i /\ \A k \in tucp!Sources : Begun(k) => k < i'
      BY <1>4, <1>5, <2>1, <2>3 DEF Begun, tucp!Sources
    <3> QED BY <1>3, <1>5, <2>1, <3>1 DEF CopiesWhole
  <2> QED BY <2>2, <2>3
<1>8. CASE ~tucp!Close
  <2>1. i' = i /\ pc' \in Copying /\ (pc = "next" \/ pc = "start" \/ pc \in Copying)
    BY <1>8 DEF tucp!Next, tucp!Fails, tucp!ToFile, tucp!ToDirectory, tucp!OpenSource, tucp!OpenTarget, tucp!CopyBlock, tucp!CopyToNothing,
                tucp!EndOfSource, tucp!Killed, Copying
  <2>2. \A k \in tucp!Sources : Begun(k) => k < i' \/ (k = i' /\ pc' \in Copying)
    BY <2>1 DEF Begun
  <2>3. tucp!Meant(j) # tucp!NoTarget /\ files[tucp!Meant(j)] = tucp!Had(j)
    BY <1>3, <1>5, <2>1, <2>2 DEF CopiesWhole
  <2>4. CASE files'[tucp!Meant(j)] # files[tucp!Meant(j)]
    <3>1. (tucp!OpenTarget \/ tucp!CopyBlock) /\ tucp!Meant(j) = target /\ target # tucp!NoTarget
      BY <1>6, <2>3, <2>4, FilesChange DEF TucpInv
    <3>2. pc \in Copying
      BY <3>1 DEF tucp!OpenTarget, tucp!CopyBlock, Copying
    <3>3. i \in tucp!Sources /\ target = tucp!Meant(i)
      BY <3>1, <3>2, StraightTarget DEF TucpInv
    <3>4. i > j
      BY <1>4, <1>5, <2>1 DEF tucp!Sources
    <3> QED BY <1>5, <2>1, <3>1, <3>3, <3>4
  <2> QED BY <2>3, <2>4
<1> QED BY <1>7, <1>8

LEMMA NextCopyUnderWay ==
  ASSUME tucp!ConstantsOK, TucpInv, tucp!Next, ~tucp!Invoke, Straight, pc' \in Copying
  PROVE  CopyUnderWay'
<1> USE DEF TucpInv
<1>1. args' = args /\ before' = before
  BY ArgumentsStay
<1>2. i' = i
  BY DEF tucp!Next, tucp!Fails, tucp!ToFile, tucp!ToDirectory, tucp!OpenSource, tucp!OpenTarget, tucp!CopyBlock, tucp!CopyToNothing,
         tucp!EndOfSource, tucp!Close, tucp!Killed, Copying, tucp!Ended
<1>3. SUFFICES ASSUME tucp!Kept(i)
               PROVE  /\ pc' = "openTarget" => source' = Read(i)
                      /\ pc' = "copy" /\ target' # tucp!NoTarget => files'[target'] \o source' = tucp!Had(i)
                      /\ pc' = "close" => /\ target' # tucp!NoTarget /\ target' = tucp!Meant(i)
                                         /\ files'[target'] = tucp!Had(i)
  BY <1>1, <1>2, CopyUnderWayNext
<1>4. CASE tucp!ToFile \/ tucp!ToDirectory
  BY <1>4 DEF tucp!ToFile, tucp!ToDirectory
<1>5. CASE tucp!OpenSource
  <2>1. pc \in Copying /\ pc # "idle" /\ pc' = "openTarget"
    BY <1>5 DEF tucp!OpenSource, Copying
  <2>2. CASE tucp!IsDir(args[i])
    BY <1>5, <2>1, <2>2 DEF tucp!OpenSource, Read
  <2>3. CASE ~tucp!IsDir(args[i])
    <3>1. From(i) \in tucp!Paths /\ i \in tucp!Sources
      BY <2>1, <2>3, StraightTarget
    <3>2. OpenedOnly /\ i \in Nat /\ pc = "openSource"
      BY <1>5, <2>1 DEF CopyInv, Types, tucp!OpenSource
    <3>3. files[From(i)] = before[From(i)]
      <4> SUFFICES ASSUME files[From(i)] # before[From(i)] PROVE FALSE
        OBVIOUS
      <4>1. PICK k \in tucp!Sources : Opened(k) /\ tucp!Meant(k) = From(i)
        BY <3>1, <3>2 DEF OpenedOnly
      <4>2. k \in 1 .. i - 1
        BY <3>2, <4>1 DEF Opened, tucp!Sources
      <4> QED BY <1>3, <2>3, <4>1, <4>2 DEF tucp!Kept, From
    <3> QED BY <1>5, <2>1, <2>3, <3>3 DEF tucp!OpenSource, Read, From
  <2> QED BY <2>2, <2>3
<1>6. CASE tucp!OpenTarget
  <2>1. pc = "openTarget" /\ pc \in Copying
    BY <1>6 DEF tucp!OpenTarget, Copying
  <2>2. source = Read(i) /\ source # tucp!NoFile
    <3>1. source = Read(i)
      BY <1>3, <2>1 DEF CopyInv, CopyUnderWay
    <3>2. Read(i) # tucp!NoFile
      BY <1>3 DEF tucp!Kept, Read, From, tucp!NoFile
    <3> QED BY <3>1, <3>2
  <2>3. pc' = "copy" /\ target' = target
    BY <1>6, <2>2 DEF tucp!OpenTarget
  <2>4. SUFFICES ASSUME target # tucp!NoTarget PROVE files'[target] \o source' = tucp!Had(i)
    BY <2>3
  <2>5. files'[target] = <<>> /\ target = tucp!Meant(i)
    BY <1>6, <2>1, <2>4, StraightTarget DEF tucp!OpenTarget, Types
  <2>6. source' = tucp!Had(i)
    <3>1. CASE ~tucp!IsDir(args[i]) /\ FileOf[args[i]] = target
      BY <1>6, <2>2, <2>5, <3>1 DEF tucp!OpenTarget, tucp!Had
    <3>2. CASE ~(~tucp!IsDir(args[i]) /\ FileOf[args[i]] = target)
      BY <1>6, <2>2, <2>5, <3>2 DEF tucp!OpenTarget, tucp!Had, Read, From
    <3> QED BY <3>1, <3>2
  <2>7. source' \in Seq(tucp!Blocks)
    BY <1>6 DEF tucp!OpenTarget, Types
  <2>8. <<>> \o source' = source'
    BY <2>7, ConcatEmptySeq
  <2> QED BY <2>5, <2>6, <2>8
<1>7. CASE tucp!CopyBlock
  <2>1. pc = "copy" /\ pc \in Copying /\ target # tucp!NoTarget /\ target' = target /\ pc' = "copy"
    BY <1>7 DEF tucp!CopyBlock, Copying
  <2>2. files[target] \o source = tucp!Had(i)
    BY <1>3, <2>1 DEF CopyInv, CopyUnderWay
  <2>3. files'[target] = Append(files[target], Head(source)) /\ source' = Tail(source)
    BY <1>7 DEF tucp!CopyBlock, Types
  <2>4. Append(files[target], Head(source)) \o Tail(source) = files[target] \o source
    BY <1>7, AppendThenRest DEF tucp!CopyBlock, Types
  <2> QED BY <2>1, <2>2, <2>3, <2>4
<1>8. CASE tucp!EndOfSource
  <2>1. pc = "copy" /\ pc \in Copying /\ target # tucp!NoTarget /\ source = <<>> /\ pc' = "close"
        /\ files' = files /\ target' = target
    BY <1>8 DEF tucp!EndOfSource, Copying
  <2>2. target = tucp!Meant(i)
    BY <2>1, StraightTarget
  <2>3. files[target] \o <<>> = tucp!Had(i)
    BY <1>3, <2>1 DEF CopyInv, CopyUnderWay
  <2>4. files[target] \o <<>> = files[target]
    BY <2>1, ConcatEmptySeq DEF Types
  <2> QED BY <2>1, <2>2, <2>3, <2>4
<1>9. ~(tucp!Fails \/ tucp!CopyToNothing \/ tucp!Close \/ tucp!Killed)
  BY DEF tucp!Fails, tucp!CopyToNothing, tucp!Close, tucp!Killed, Copying
<1> QED BY <1>4, <1>5, <1>6, <1>7, <1>8, <1>9 DEF tucp!Next

LEMMA NextOpenedOnly ==
  ASSUME tucp!ConstantsOK, TucpInv, tucp!Next, ~tucp!Invoke, Straight,
         pc' \in Copying \cup {"start", "next", "done"}
  PROVE  OpenedOnly'
<1>1. args' = args /\ before' = before
  BY ArgumentsStay
<1>2. pc \in Copying \cup {"start", "next"}
  BY DEF tucp!Next, tucp!Fails, tucp!ToFile, tucp!ToDirectory, tucp!OpenSource, tucp!OpenTarget, tucp!CopyBlock, tucp!CopyToNothing,
         tucp!EndOfSource, tucp!Close, tucp!Killed, Copying
<1>3. OpenedOnly /\ i \in Nat
  BY <1>2 DEF TucpInv, CopyInv, Types
<1>4. tucp!Sources' = tucp!Sources /\ \A k : tucp!Meant(k)' = tucp!Meant(k)
  BY <1>1, SameArguments
<1>5. \A k \in tucp!Sources : Opened(k) => Opened(k)'
  <2>1. CASE tucp!Close
    BY <1>3, <2>1 DEF tucp!Close, Opened, tucp!Sources
  <2>2. CASE ~tucp!Close
    BY <2>2 DEF tucp!Next, tucp!Fails, tucp!ToFile, tucp!ToDirectory, tucp!OpenSource, tucp!OpenTarget, tucp!CopyBlock,
                tucp!CopyToNothing, tucp!EndOfSource, tucp!Killed, Copying, Opened
  <2> QED BY <2>1, <2>2
<1>6. SUFFICES ASSUME NEW f \in tucp!Paths, files'[f] # before[f]
               PROVE  \E k \in tucp!Sources : Opened(k)' /\ tucp!Meant(k) = f
  BY <1>1, <1>4 DEF OpenedOnly
<1>7. CASE files'[f] = files[f]
  BY <1>3, <1>5, <1>6, <1>7 DEF OpenedOnly
<1>8. CASE files'[f] # files[f]
  <2>1. (tucp!OpenTarget \/ tucp!CopyBlock) /\ f = target /\ target # tucp!NoTarget
    BY <1>8, FilesChange DEF TucpInv
  <2>2. pc \in Copying /\ i' = i /\ pc' \in {"copy", "close"}
    BY <2>1 DEF tucp!OpenTarget, tucp!CopyBlock, Copying
  <2>3. i \in tucp!Sources /\ f = tucp!Meant(i)
    BY <2>1, <2>2, StraightTarget DEF TucpInv
  <2>4. Opened(i)'
    BY <2>2 DEF Opened
  <2>5. \A k : k = i => (Opened(k)' <=> Opened(i)')
    BY <2>2 DEF Opened
  <2> QED BY <2>3, <2>4, <2>5
<1> QED BY <1>7, <1>8

LEMMA NextTucpInv ==
  ASSUME tucp!ConstantsOK, TucpInv, tucp!Next
  PROVE  TucpInv'
<1>1. Types' /\ ArgumentsOK' /\ TargetOK' /\ Untouched'
  BY NextTypes, NextArgumentsOK, NextTargetOK, NextUntouched DEF TucpInv
<1>2. CASE tucp!Invoke
  <2>1. pc' = "start" /\ i' = 1
    BY <1>2 DEF tucp!Invoke
  <2>2. CopiesWhole' /\ OpenedOnly'
    BY <1>2, <2>1 DEF CopiesWhole, OpenedOnly, tucp!Sources, tucp!Invoke
  <2> QED BY <1>1, <2>1, <2>2 DEF TucpInv, CopyInv, Copying
<1>3. CASE ~tucp!Invoke
  <2>1. Straight' = Straight
    BY <1>3, ArgumentsStay, SameArguments
  <2>2. ASSUME Straight, pc' \in Copying \cup {"start", "next", "done"}
        PROVE  OpenedOnly' /\ CopiesWhole'
    BY <1>3, <2>2, NextCopiesWhole, NextOpenedOnly
  <2>3. ASSUME Straight, pc' \in Copying
        PROVE  CopyUnderWay'
    BY <1>3, <2>3, NextCopyUnderWay
  <2>4. CopyInv'
    BY <2>1, <2>2, <2>3 DEF CopyInv, Copying
  <2> QED BY <1>1, <2>4 DEF TucpInv
<1> QED BY <1>2, <1>3

-----------------------------------------------------------------------------
LEMMA TucpInvImplies == ASSUME tucp!ConstantsOK, TucpInv PROVE tucp!CopiesAreComplete
<1>1. SUFFICES ASSUME pc = "done", ~tucp!Misled, NEW j \in tucp!Sources, tucp!Kept(j),
                      \A k \in tucp!Sources : k > j => tucp!Meant(k) # tucp!Meant(j)
               PROVE  tucp!Meant(j) # tucp!NoTarget /\ files[tucp!Meant(j)] = tucp!Had(j)
  BY DEF tucp!CopiesAreComplete, TucpInv, Untouched
<1>2. Len(args) >= 2 /\ i >= Len(args) /\ Straight
  BY <1>1 DEF TucpInv, ArgumentsOK, Straight
<1>3. CopiesWhole
  BY <1>1, <1>2 DEF TucpInv, CopyInv
<1>4. j < i
  <2>1. Len(args) \in Nat /\ i \in Nat
    BY LenProperties DEF TucpInv, Types
  <2> QED BY <1>1, <1>2, <2>1 DEF tucp!Sources
<1> QED BY <1>1, <1>3, <1>4 DEF CopiesWhole

LEMMA StutterTucpInv ==
  ASSUME TucpInv, UNCHANGED <<pc, args, tucpVars>>
  PROVE  TucpInv'
<1>1. /\ pc' = pc /\ args' = args /\ files' = files /\ i' = i /\ source' = source
      /\ target' = target /\ before' = before
  BY DEF tucpVars
<1>2. Types' /\ ArgumentsOK'
  BY <1>1 DEF TucpInv, Types, ArgumentsOK, tucp!Sources, tucp!last, tucp!IsDir
<1>3. TargetOK' /\ Untouched'
  <2>1. tucp!Meant(i)' = tucp!Meant(i)
    BY <1>1 DEF tucp!Meant, tucp!last, tucp!IsDir
  <2> QED BY <1>1, <2>1, SameArguments DEF TucpInv, TargetOK, Untouched
<1>4. (CopiesWhole => CopiesWhole') /\ (OpenedOnly => OpenedOnly')
  <2>1. CopiesWhole => CopiesWhole'
    BY <1>1, CopiesWholeNext DEF CopiesWhole, Begun
  <2>2. tucp!Sources' = tucp!Sources /\ \A k : tucp!Meant(k)' = tucp!Meant(k) /\ (Opened(k)' <=> Opened(k))
    BY <1>1, SameArguments DEF Opened
  <2>3. OpenedOnly => OpenedOnly'
    BY <1>1, <2>2 DEF OpenedOnly
  <2> QED BY <2>1, <2>3
<1>5. CopyUnderWay => CopyUnderWay'
  BY <1>1, CopyUnderWayNext DEF CopyUnderWay
<1>6. CopyInv'
  BY <1>1, <1>4, <1>5, SameArguments DEF TucpInv, CopyInv
<1> QED BY <1>2, <1>3, <1>6 DEF TucpInv

\* The invariant of tucp, in the company of the other tools.
CopierInv == tool \in {"none", "tucp"} => TucpInv

\* tucp touches no file but its destinations (or, misled by a slash, files of
\* their names in the directory above), and when it ends well without having been
\* misled, each destination has what its source had, and nothing if that is a
\* directory or the destination itself; but for a source that was not there, that
\* an earlier copy had overwritten, or whose copy a later one overwrites (copyFile
\* and main of tucp.c), for every command line, disk and size of file.
THEOREM CopiesComplete == Spec => []CopiesAreComplete
<1>1. Init => CopierInv
  BY TucpConstants, InitTucpInv DEF Init, CopierInv
<1>2. CopierInv /\ [Next]_vars => CopierInv'
  <2> SUFFICES ASSUME CopierInv, [Next]_vars, tool' \in {"none", "tucp"}
               PROVE  TucpInv'
    BY DEF CopierInv
  <2>1. CASE tool = "tucp" /\ tucp!Next
    BY <2>1, TucpConstants, NextTucpInv DEF CopierInv
  <2>2. CASE ~(tool = "tucp" /\ tucp!Next)
    <3>1. tool \in {"none", "tucp"} /\ UNCHANGED <<pc, args, tucpVars>>
      BY <2>2 DEF Next, Pick, Type, vars
    <3> QED BY <3>1, StutterTucpInv DEF CopierInv
  <2> QED BY <2>1, <2>2
<1>3. CopierInv => CopiesAreComplete
  BY TucpConstants, TucpInvImplies DEF CopierInv, CopiesAreComplete
<1> QED BY <1>1, <1>2, <1>3, PTL DEF Spec
=============================================================================
