---------------------------- MODULE FifoChannel ----------------------------
(***************************************************************************)
(* What AsyncUDPServer promises its Receiver: the datagrams it took from   *)
(* the socket are handed over one by one, in the order of their arrival.   *)
(***************************************************************************)
EXTENDS Naturals, Sequences

CONSTANT Data

VARIABLES taken, given

Init == taken = <<>> /\ given = <<>>

Take(d) == taken' = Append(taken, d) /\ UNCHANGED given

Give ==
  /\ Len(given) < Len(taken)
  /\ given' = Append(given, taken[Len(given) + 1])
  /\ UNCHANGED taken

Next == (\E d \in Data : Take(d)) \/ Give

Spec == Init /\ [][Next]_<<taken, given>>
=============================================================================
