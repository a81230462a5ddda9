--------------------------- MODULE RingBroadcast ---------------------------
(***************************************************************************)
(* One broadcast inside one ring: PeerManager::broadcast_within_ring run   *)
(* by the node that starts it (order 0) and then by every node that        *)
(* receives a type 2 or type 5 message of the ring.  Nodes are identified  *)
(* by their index in peer_list, which all members of the ring share (the   *)
(* agreement is a property of HGFRRTopology).  Messages travel by UDP: in  *)
(* any order, and any of them may be lost; nothing is retransmitted.       *)
(***************************************************************************)
EXTENDS SpanningTree, FiniteSets

CONSTANT N  \* the number of nodes in the ring

ASSUME NAssumption ==
  /\ N \in Nat \ {0}
  /\ N <= Pow[MaxExp]

Pos == 0 .. N - 1
End == N - 1        \* end_ID

VARIABLES
  start,    \* the index of the node that starts the broadcast
  net,      \* the messages on the wire
  handled,  \* handled[p]: how often the node at p ran the handler
  lost      \* the indices whose message the network dropped

vars == <<start, net, handled, lost>>

Message == [from : Pos, to : Pos, order : 1 .. N - 1]

Init ==
  /\ start \in Pos
  /\ net = {}
  /\ handled = [p \in Pos |-> 0]
  /\ lost = {}

\* The messages one invocation puts on the wire, from the node's own place
\* in the vector and the order that the message carried.
SendWithinRing(pos, order) ==
  {[from |-> pos, to |-> Target(pos, i, End), order |-> order + Pow[i]] :
     i \in Hops(order, End)}

\* The root handler sets node_order 0 and broadcasts within the ring.
Start ==
  /\ handled[start] = 0
  /\ handled' = [handled EXCEPT ![start] = @ + 1]
  /\ net' = SendWithinRing(start, 0)
  /\ UNCHANGED <<start, lost>>

\* Mutation of Receive: the handler returns before it relays.
ReceiveSilent(m) ==
  /\ m \in net
  /\ handled' = [handled EXCEPT ![m.to] = @ + 1]
  /\ net' = net \ {m}
  /\ UNCHANGED <<start, lost>>

\* receive and on_receive, case 2 and 5: relay with the order received.
Receive(m) ==
  /\ m \in net
  /\ handled' = [handled EXCEPT ![m.to] = @ + 1]
  /\ net' = (net \ {m}) \cup SendWithinRing(m.to, m.order)
  /\ UNCHANGED <<start, lost>>

\* UDP drops a datagram.
Lose(m) ==
  /\ m \in net
  /\ net' = net \ {m}
  /\ lost' = lost \cup {m.to}
  /\ UNCHANGED <<start, handled>>

ReceiveAny == \E m \in net : Receive(m)

Next == Start \/ ReceiveAny \/ \E m \in net : Lose(m)

Spec == Init /\ [][Next]_vars

\* The handler thread of every node keeps taking datagrams from its queue.
FairSpec == Spec /\ WF_vars(Start) /\ WF_vars(ReceiveAny)

-----------------------------------------------------------------------------
(* Positions relative to the starter.                                      *)

\* The order the node at p has in this broadcast.
Rel(p) == IF p >= start THEN p - start ELSE p - start + N

\* The index of the node with order o.
Abs(o) == IF start + o > End THEN start + o - N ELSE start + o

\* The message of p, or of one of the nodes it was relayed through, was
\* dropped: the ancestors of an order are its low-bit suffixes.
CutOff(p) == \E j \in 0 .. MaxExp : Abs(Rel(p) % Pow[j]) \in lost

Quiescent == handled[start] # 0 /\ net = {}

\* The node at f is the one that forwards to the node at q.
Child(f, q) == \E i \in Hops(Rel(f), End) : Rel(q) = Rel(f) + Pow[i]

\* A message for q has left its sender at some point.
SentTo(q) ==
  \/ q # start /\ handled[q] # 0
  \/ q \in lost
  \/ \E m \in net : m.to = q

-----------------------------------------------------------------------------
(* Properties.                                                             *)

\* Type correctness of the ring state.
TypeOK ==
  /\ start \in Pos
  /\ net \subseteq Message
  /\ handled \in [Pos -> Nat]
  /\ lost \subseteq Pos

\* No interleaving of relays makes broadcast_within_ring reach a node twice,
\* although nothing in the code remembers what was already received.
AtMostOnce == \A p \in Pos : handled[p] <= 1

\* The order carried by a message is always the distance of its receiver from
\* the starter, although each relay recomputes both from its own table.
OrderMatchesPosition == \A m \in net : m.to = Abs(m.order)

\* A node was sent a message exactly when the one node that forwards to it ran
\* the handler.
SentIffForwarded ==
  \A q \in Pos : SentTo(q) <=> \E f \in Pos : handled[f] # 0 /\ Child(f, q)

\* A message is in one place only: on the wire, dropped or handled.
OnePlace ==
  /\ \A m \in net : handled[m.to] = 0 /\ m.to \notin lost
  /\ \A m1, m2 \in net : m1.to = m2.to => m1 = m2
  /\ \A q \in lost : handled[q] = 0

\* What every step of the broadcast preserves: the bookkeeping that makes
\* AtMostOnce inductive.
IInv ==
  /\ TypeOK
  /\ AtMostOnce
  /\ OrderMatchesPosition
  /\ SentIffForwarded
  /\ OnePlace

\* When nothing was dropped and nothing is left on the wire, every node of the
\* ring has been reached.
Coverage == Quiescent /\ lost = {} => \A p \in Pos : handled[p] # 0

\* A dropped message cuts off exactly the subtree below it: at rest a node was
\* missed if and only if a message on its own path was dropped.
LossIsolation ==
  Quiescent => \A p \in Pos : handled[p] = 0 <=> CutOff(p)

\* The ring broadcast implements at-most-once delivery to the ring's members.
Once == INSTANCE OnceDelivery WITH Receivers <- Pos, deliveries <- handled

\* Every step of the code is one first delivery or no delivery at all.
ImplementsOnce == Once!Spec

\* Every node is eventually reached unless a message on its path is dropped.
EventuallyReached == \A p \in Pos : <>(handled[p] # 0 \/ CutOff(p))
=============================================================================
