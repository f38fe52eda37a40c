-------------------------------- MODULE Fifo --------------------------------
(***************************************************************************)
(* What a queue between threads promises, whatever it is made of: elements *)
(* come out in the order they went in, each one once, none invented and    *)
(* none lost.  A queue may also break (the program died, or the memory the *)
(* queue is made of was given away); a broken queue promises nothing.      *)
(***************************************************************************)
EXTENDS Sequences

CONSTANT Elements

VARIABLES items, intact

vars == <<items, intact>>

Init ==
  /\ items = <<>>
  /\ intact = TRUE

Put(e) ==
  /\ intact
  /\ items' = Append(items, e)
  /\ UNCHANGED intact

Take ==
  /\ intact
  /\ items # <<>>
  /\ items' = Tail(items)
  /\ UNCHANGED intact

Break ==
  /\ intact
  /\ intact' = FALSE
  /\ items' = <<>>

Next == (\E e \in Elements : Put(e)) \/ Take \/ Break

Spec == Init /\ [][Next]_vars
=============================================================================
