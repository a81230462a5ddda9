----------------------------- MODULE GossipPull -----------------------------
(***************************************************************************)
(* PeerManagerETH in PULL mode: a node offers the hash of its data to its  *)
(* successor and to random entries of its routing table; a node that does  *)
(* not have the data asks for it, and offers it on once it has come.  The  *)
(* data is known by its hash alone, so a hash stands for its content: two  *)
(* broadcasts of equal content are one to the nodes that hold it.          *)
(***************************************************************************)
EXTENDS Integers, FiniteSets, Bags

CONSTANTS
  N,             \* the number of nodes
  TableSize,     \* TABLE_SIZE_ETH: the entries that may be drawn are below it
  Table,         \* Table[n][i]: entry i of the routing table of n
  NumReceivers,  \* NUM_RECEIVERS_ETH
  Workload,      \* the <<node, content>> pairs that are broadcast
  MaxDrops       \* bound: how many datagrams the network may drop

Node == 0 .. N - 1
Content == {w[2] : w \in Workload}

PullAssumption ==
  /\ N \in Nat \ {0}
  /\ TableSize \in Nat \ {0}
  /\ \A n \in Node :
       /\ \A i \in 0 .. TableSize - 1 : Table[n][i] \in Node \ {n}
       /\ Table[n][0] = (n + 1) % N
  /\ NumReceivers \in 1 .. TableSize
  /\ \A w \in Workload : w \in Node \X Content
  /\ MaxDrops \in Nat

VARIABLES
  net,       \* the bag of datagrams on the wire
  data_map,  \* data_map[n]: the contents n holds
  pending,   \* the broadcasts that have not been called yet
  skipped,   \* the contents some offer of which left the successor out
  dropped    \* the datagrams the network dropped, one entry for each

vars == <<net, data_map, pending, skipped, dropped>>

Init ==
  /\ net = EmptyBag
  /\ data_map = [n \in Node |-> {}]
  /\ pending = Workload
  /\ skipped = {}
  /\ dropped = EmptyBag

Msg(from, to, type, c) == [from |-> from, to |-> to, type |-> type, content |-> c]

\* broadcast, the choice of receivers: NUM_RECEIVERS_ETH - 1 different entries
\* other than the first, and the first unless the trial fails.
Draws == {I \in SUBSET (1 .. TableSize - 1) : Cardinality(I) = NumReceivers - 1}

\* Mutation of Offer: the successor is never chosen.
OfferRandomOnly(n, c, I, trial) == {Msg(n, Table[n][i], "inv", c) : i \in I}

\* broadcast: offer c to the receivers that the draw I and the trial give.
Offer(n, c, I, trial) ==
  {Msg(n, Table[n][i], "inv", c) : i \in IF trial THEN I \cup {0} ELSE I}

\* The wire b with one more copy of each datagram of out.
Sent(b, out) == b (+) SetToBag(out)

\* The rest of a step in which n broadcasts c, after the wire was left as before.
OfferAll(n, c, before) ==
  \E I \in Draws, trial \in BOOLEAN :
    /\ net' = Sent(before, Offer(n, c, I, trial))
    /\ skipped' = IF trial THEN skipped ELSE skipped \cup {c}

\* The wire without one copy of m.
Taken(m) == net (-) SetToBag({m})

\* Mutation of Broadcast: the content is offered but not stored.
BroadcastUnstored(w) ==
  /\ pending' = pending \ {w}
  /\ OfferAll(w[1], w[2], net)
  /\ UNCHANGED <<data_map, dropped>>

\* A node broadcasts content of its own, which it stores.
Broadcast(w) ==
  /\ pending' = pending \ {w}
  /\ data_map' = [data_map EXCEPT ![w[1]] = @ \cup {w[2]}]
  /\ OfferAll(w[1], w[2], net)
  /\ UNCHANGED dropped

\* Mutation of OnInv: the request names the node itself as its receiver.
OnInvToSelf(m) ==
  /\ m.type = "inv"
  /\ net' = IF m.content \in data_map[m.to] THEN Taken(m)
            ELSE Sent(Taken(m), {Msg(m.to, m.to, "request", m.content)})
  /\ UNCHANGED <<data_map, pending, skipped, dropped>>

\* An invitation: ask for the data unless it is held already.
OnInv(m) ==
  /\ m.type = "inv"
  /\ net' = IF m.content \in data_map[m.to] THEN Taken(m)
            ELSE Sent(Taken(m), {Msg(m.to, m.from, "request", m.content)})
  /\ UNCHANGED <<data_map, pending, skipped, dropped>>

\* A request: send the data found under the hash.  The code does not test that
\* there is any and would read past the end of the map: no step stands for
\* that, and RequestAnswerable says it does not come up.
OnRequest(m) ==
  /\ m.type = "request"
  /\ m.content \in data_map[m.to]
  /\ net' = Sent(Taken(m), {Msg(m.to, m.from, "data", m.content)})
  /\ UNCHANGED <<data_map, pending, skipped, dropped>>

\* The data: store it and offer it on, whether or not it was held already.
OnData(m) ==
  /\ m.type = "data"
  /\ data_map' = [data_map EXCEPT ![m.to] = @ \cup {m.content}]
  /\ OfferAll(m.to, m.content, Taken(m))
  /\ UNCHANGED <<pending, dropped>>

\* UDP drops a datagram.
Drop(m) ==
  /\ BagCardinality(dropped) < MaxDrops
  /\ net' = Taken(m)
  /\ dropped' = Sent(dropped, {m})
  /\ UNCHANGED <<data_map, pending, skipped>>

ReceiveAny == \E m \in BagToSet(net) : OnInv(m) \/ OnRequest(m) \/ OnData(m)

Next ==
  \/ \E w \in pending : Broadcast(w)
  \/ ReceiveAny
  \/ \E m \in BagToSet(net) : Drop(m)

Spec == Init /\ [][Next]_vars

\* Every process keeps taking datagrams from its queue.
FairSpec == Spec /\ WF_vars(ReceiveAny)

-----------------------------------------------------------------------------
(* Properties.                                                             *)

Holders(c) == {n \in Node : c \in data_map[n]}

Lost(c) == {m \in BagToSet(dropped) : m.content = c}

Quiet(c) == \A m \in BagToSet(net) : m.content # c

\* A request only ever reaches a node that holds the data: on_receive reads
\* through the iterator data_map.find returns without testing it.
RequestAnswerable ==
  \A m \in BagToSet(net) : m.type = "request" => m.content \in data_map[m.to]

\* A node that misses a content at rest although its predecessor holds it was
\* passed over: some offer left out a successor, or a datagram between the two
\* was dropped.  So without these every node holds the content, although nodes
\* that have it ignore every later broadcast of it.
MissExplained ==
  \A c \in Content : Quiet(c) =>
    \A n \in Node : c \notin data_map[(n + 1) % N] /\ c \in data_map[n] =>
      \/ c \in skipped
      \/ \E m \in Lost(c) : {m.from, m.to} = {n, (n + 1) % N}

\* The exchange of offers, requests and data comes to an end, although a node
\* may ask several holders and pass on each copy that comes.
PullEnds == \A c \in Content : Holders(c) # {} ~> Quiet(c)
=============================================================================
