----------------------------- MODULE GossipPush -----------------------------
(***************************************************************************)
(* PeerManagerETH in PUSH mode: the gossip baseline.  A node forwards a    *)
(* broadcast the first time it receives it, to its successor (with a       *)
(* probability of 0.99) and to a few random entries of its routing table,  *)
(* with a time-to-live that each hop lowers by one.                        *)
(***************************************************************************)
EXTENDS Integers, FiniteSets

CONSTANTS
  N,             \* the number of nodes
  TableSize,     \* TABLE_SIZE_ETH: the entries that may be drawn are below it
  Table,         \* Table[n][i]: entry i of the routing table of n
  NumReceivers,  \* NUM_RECEIVERS_ETH
  TTL,           \* TTL_ETH
  Origins,       \* the nodes that call broadcast
  MaxBroadcasts, \* bound: how often each of them does
  MaxDrops       \* bound: how many datagrams the network may drop

Node == 0 .. N - 1
Bid == Origins \X (0 .. MaxBroadcasts - 1)

ASSUME GossipAssumption ==
  /\ N \in Nat \ {0}
  /\ TableSize \in Nat \ {0}
  /\ \A n \in Node :
       /\ \A i \in 0 .. TableSize - 1 : Table[n][i] \in Node \ {n}
       /\ Table[n][0] = (n + 1) % N
  /\ NumReceivers \in 1 .. TableSize
  /\ TTL \in Nat
  /\ Origins \subseteq Node
  /\ MaxBroadcasts \in Nat
  /\ MaxDrops \in Nat

VARIABLES
  net,               \* the datagrams on the wire
  broadcasted_msgs,  \* broadcasted_msgs[n]: the number of n's own broadcasts
  seen,              \* seen[n]: broadcasted_msgs_all_nodes, what n forwarded
  skipped,           \* the broadcasts some forward of which left the successor out
  dropped            \* the datagrams the network dropped

vars == <<net, broadcasted_msgs, seen, skipped, dropped>>

Message == [from : Node, to : Node, bid : Bid, ttl : 0 .. TTL]

Init ==
  /\ net = {}
  /\ broadcasted_msgs = [n \in Origins |-> 0]
  /\ seen = [n \in Node |-> {}]
  /\ skipped = {}
  /\ dropped = {}

\* broadcast, the choice of receivers: NUM_RECEIVERS_ETH - 1 different entries
\* other than the first, and the first unless the trial fails.
Draws == {I \in SUBSET (1 .. TableSize - 1) : Cardinality(I) = NumReceivers - 1}

\* Mutation of Forward: the successor is never chosen.
ForwardRandomOnly(n, b, ttl, I, trial) ==
  {[from |-> n, to |-> Table[n][i], bid |-> b, ttl |-> ttl] : i \in I}

\* broadcast, with the random draw I and the outcome of the trial.
Forward(n, b, ttl, I, trial) ==
  LET entries == IF trial THEN I \cup {0} ELSE I
  IN  {[from |-> n, to |-> Table[n][i], bid |-> b, ttl |-> ttl] : i \in entries}

\* A node broadcasts a message of its own.  It does not note its id as seen.
Broadcast(n) ==
  /\ broadcasted_msgs[n] < MaxBroadcasts
  /\ broadcasted_msgs' = [broadcasted_msgs EXCEPT ![n] = @ + 1]
  /\ LET b == <<n, broadcasted_msgs[n]>> IN
     \E I \in Draws, trial \in BOOLEAN :
       /\ net' = net \cup Forward(n, b, TTL, I, trial)
       /\ skipped' = IF trial THEN skipped ELSE skipped \cup {b}
  /\ UNCHANGED <<seen, dropped>>

\* receive: a datagram whose time-to-live has run out is thrown away.
Expire(m) ==
  /\ m.ttl = 0
  /\ net' = net \ {m}
  /\ UNCHANGED <<broadcasted_msgs, seen, skipped, dropped>>

\* on_receive: the broadcast has been forwarded already.
Ignore(m) ==
  /\ m.ttl # 0
  /\ m.bid \in seen[m.to]
  /\ net' = net \ {m}
  /\ UNCHANGED <<broadcasted_msgs, seen, skipped, dropped>>

\* Mutations of Relay: the id is not noted; neither is it noted nor the
\* time-to-live lowered.
RelayUnnoted(m) ==
  /\ m.ttl # 0
  /\ \E I \in Draws, trial \in BOOLEAN :
       /\ net' = (net \ {m}) \cup Forward(m.to, m.bid, m.ttl - 1, I, trial)
       /\ skipped' = IF trial THEN skipped ELSE skipped \cup {m.bid}
  /\ UNCHANGED <<broadcasted_msgs, seen, dropped>>

RelayEndless(m) ==
  /\ m.ttl # 0
  /\ \E I \in Draws, trial \in BOOLEAN :
       /\ net' = (net \ {m}) \cup Forward(m.to, m.bid, m.ttl, I, trial)
       /\ skipped' = IF trial THEN skipped ELSE skipped \cup {m.bid}
  /\ UNCHANGED <<broadcasted_msgs, seen, dropped>>

\* on_receive: note the id and forward with a lower time-to-live.
Relay(m) ==
  /\ m.ttl # 0
  /\ m.bid \notin seen[m.to]
  /\ seen' = [seen EXCEPT ![m.to] = @ \cup {m.bid}]
  /\ \E I \in Draws, trial \in BOOLEAN :
       /\ net' = (net \ {m}) \cup Forward(m.to, m.bid, m.ttl - 1, I, trial)
       /\ skipped' = IF trial THEN skipped ELSE skipped \cup {m.bid}
  /\ UNCHANGED <<broadcasted_msgs, dropped>>

\* UDP drops a datagram.
Drop(m) ==
  /\ Cardinality(dropped) < MaxDrops
  /\ net' = net \ {m}
  /\ dropped' = dropped \cup {m}
  /\ UNCHANGED <<broadcasted_msgs, seen, skipped>>

ReceiveAny == \E m \in net : Expire(m) \/ Ignore(m) \/ Relay(m)

Next ==
  \/ \E n \in Origins : Broadcast(n)
  \/ ReceiveAny
  \/ \E m \in net : Drop(m)

Spec == Init /\ [][Next]_vars

\* Every process keeps taking datagrams from its queue.
FairSpec == Spec /\ WF_vars(ReceiveAny)

-----------------------------------------------------------------------------
(* Properties.                                                             *)

\* The nodes that have forwarded broadcast b.
SeenBy(b) == {n \in Node : b \in seen[n]}

Begun(b) == broadcasted_msgs[b[1]] > b[2]

AtRest(b) == Begun(b) /\ \A m \in net : m.bid # b

\* Type correctness of the gossip state.
TypeOK ==
  /\ net \subseteq Message
  /\ broadcasted_msgs \in [Origins -> 0 .. MaxBroadcasts]
  /\ seen \in [Node -> SUBSET Bid]
  /\ skipped \subseteq Bid
  /\ dropped \subseteq Message

\* The time-to-live of a datagram is only consumed by first forwards: however
\* copies race, it has gone down by at most the number of nodes that forwarded.
HopsBounded == \A m \in net : TTL - m.ttl <= Cardinality(SeenBy(m.bid))

\* With a time-to-live above the number of nodes, none is ever thrown away for
\* having run out.
NeverExpires == TTL > N => \A m \in net : m.ttl > 0

\* If no forward left out its successor and none of its datagrams was dropped, a
\* broadcast at rest was forwarded by all nodes, or by as many as the
\* time-to-live allows.
SuccessorsCover ==
  \A b \in Bid :
    AtRest(b) /\ b \notin skipped /\ (\A m \in dropped : m.bid # b) =>
      \/ SeenBy(b) = Node
      \/ Cardinality(SeenBy(b)) >= TTL

\* Gossip dies out: a broadcast that was begun comes to rest.
ComesToRest == \A b \in Bid : Begun(b) ~> AtRest(b)
=============================================================================
