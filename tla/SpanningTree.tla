---------------------------- MODULE SpanningTree ----------------------------
(***************************************************************************)
(* The arithmetic of PeerManager::broadcast_within_ring: which positions   *)
(* of a ring's peer_list one invocation sends to.  The ring positions are  *)
(* 0 .. end (end_ID in the code); a node's "order" counts positions from   *)
(* the node that started this broadcast in the ring, which has order 0.    *)
(* Every caller passes k = 2, so the tree is the binomial one.             *)
(***************************************************************************)
EXTENDS Integers

CONSTANTS
  MaxExp,  \* the largest exponent the loops may reach
  Pow      \* Pow[i] = pow(2, i), the C library function

ASSUME PowAssumption ==
  /\ MaxExp \in Nat
  /\ Pow \in [0 .. MaxExp -> Nat]
  /\ Pow[0] = 1
  /\ \A i \in 0 .. MaxExp - 1 : Pow[i + 1] = 2 * Pow[i]

\* Mutations of Hops: the exponents already served are not skipped; the loop
\* stops one position early.
HopsRepeated(order, end) == {i \in 0 .. MaxExp : order + Pow[i] <= end}

HopsShort(order, end) ==
  {i \in 0 .. MaxExp : order + Pow[i] < end /\ Pow[i] > order}

\* The values of the loop counter i for which an invocation with this
\* node_order sends: the loop runs while node_order + 2^i <= end_ID and skips
\* the exponents with 2^i <= node_order.
Hops(order, end) ==
  {i \in 0 .. MaxExp : order + Pow[i] <= end /\ Pow[i] > order}

\* target_node_id_in_vector: 2^i places after the sender's own place in
\* peer_list, wrapped around once.
Target(pos, i, end) ==
  IF pos + Pow[i] > end THEN pos + Pow[i] - (end + 1) ELSE pos + Pow[i]
=============================================================================
