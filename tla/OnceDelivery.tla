---------------------------- MODULE OnceDelivery ----------------------------
(***************************************************************************)
(* What a broadcast promises, without saying how: every receiver is given  *)
(* the message at most once, in any order, and nothing is taken back.      *)
(***************************************************************************)
EXTENDS Naturals

CONSTANT Receivers

VARIABLE deliveries  \* deliveries[r]: how often r was given the message

Init == deliveries = [r \in Receivers |-> 0]

Deliver(r) ==
  /\ deliveries[r] = 0
  /\ deliveries' = [deliveries EXCEPT ![r] = 1]

Next == \E r \in Receivers : Deliver(r)

Spec == Init /\ [][Next]_deliveries
=============================================================================
