--------------------------- MODULE CountedSignals ---------------------------
(***************************************************************************)
(* What programs that send signals to each other and count them promise,   *)
(* however they do it: a round of sending is counted once by its sender,   *)
(* not before it began, and a round is counted by each receiver at most    *)
(* once.  Signals may be lost, never invented, and no count goes back.     *)
(***************************************************************************)
EXTENDS Naturals

CONSTANTS
  Signals,
  ReceiversPerSignal    \* how many receivers each round is sent to

VARIABLES
  begun,       \* per signal, the rounds of sending that began
  sent,        \* per signal, the sender's counter
  received     \* per signal, the receivers' counter

vars == <<begun, sent, received>>

Init ==
  /\ begun = [s \in Signals |-> 0]
  /\ sent = [s \in Signals |-> 0]
  /\ received = [s \in Signals |-> 0]

Begin(s) ==
  /\ begun' = [begun EXCEPT ![s] = @ + 1]
  /\ UNCHANGED <<sent, received>>

CountSent(s) ==
  /\ sent[s] < begun[s]
  /\ sent' = [sent EXCEPT ![s] = @ + 1]
  /\ UNCHANGED <<begun, received>>

CountReceived(s) ==
  /\ received[s] < ReceiversPerSignal * begun[s]
  /\ received' = [received EXCEPT ![s] = @ + 1]
  /\ UNCHANGED <<begun, sent>>

Next == \E s \in Signals : Begin(s) \/ CountSent(s) \/ CountReceived(s)

Spec == Init /\ [][Next]_vars
=============================================================================
