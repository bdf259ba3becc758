-------------------------------- MODULE Fifo --------------------------------
(***************************************************************************)
(* What AVPacketQueue promises its users: packets are delivered in the     *)
(* order they were put, each one once, to whichever consumer asks next.    *)
(* Packet number n is the n-th one put, counting from 0.                   *)
(***************************************************************************)
EXTENDS Naturals

CONSTANTS Consumers, Nobody

VARIABLES
  put,    \* how many packets were put
  got,    \* how many were delivered
  held    \* the packet each consumer works on, or Nobody's

fifoVars == <<put, got, held>>

Init ==
  /\ put = 0
  /\ got = 0
  /\ held = [c \in Consumers |-> Nobody]

Put ==
  /\ put' = put + 1
  /\ UNCHANGED <<got, held>>

Take(c) ==
  /\ held[c] = Nobody
  /\ got < put
  /\ held' = [held EXCEPT ![c] = got]
  /\ got' = got + 1
  /\ UNCHANGED put

Done(c) ==
  /\ held[c] # Nobody
  /\ held' = [held EXCEPT ![c] = Nobody]
  /\ UNCHANGED <<put, got>>

Next == Put \/ \E c \in Consumers : Take(c) \/ Done(c)

Spec == Init /\ [][Next]_fifoVars
=============================================================================
