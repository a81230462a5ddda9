--------------------------- MODULE HGFRRBroadcast ---------------------------
(***************************************************************************)
(* PeerManager: routing a broadcast through the fractal rings.  The        *)
(* originator asks a contact node of its district ring; the request climbs *)
(* from contact node to contact node to the topmost ring; the node where   *)
(* it ends (the root) broadcasts in that ring and in every ring below it   *)
(* that it resides in, and each node that a type 2 message reaches does    *)
(* the same from the level of that message down.                           *)
(*                                                                         *)
(* Nodes reside in the rings that form_structure gives them (all processes *)
(* have booted).  Datagrams may be lost or overtake each other.  A node    *)
(* "receives the data" where the code reports it: at the root, and when a  *)
(* message of the node's own topmost level arrives.                        *)
(***************************************************************************)
EXTENDS FormStructure, SpanningTree, Bags

CONSTANTS
  Deployments,    \* the command lines a deployment may have been started with
  Origins(_),     \* the nodes of a deployment that call broadcast
  MaxBroadcasts,  \* bound: how often each of them does
  MaxDrops        \* bound: how many datagrams the network may drop

\* The tables of every process of a deployment, as form_structure computes them.
Tables == [p \in Deployments |-> [n \in Nodes(p) |-> form_structure(p, n)]]

ASSUME BroadcastAssumption ==
  /\ Deployments \subseteq Params
  /\ \A p \in Deployments :
       /\ Origins(p) \subseteq Nodes(p)
       /\ \A n \in Nodes(p), l \in Levels : get_peer_list_size(Tables[p][n], l) < Pow[MaxExp]

VARIABLES
  args,              \* the command line of this deployment
  net,               \* the bag of datagrams on the wire
  received,          \* received[n][b]: how often n reported the data of b
  broadcasted_msgs,  \* broadcasted_msgs[n]: the number of n's own broadcasts
  dropped            \* the datagrams the network dropped

vars == <<args, net, received, broadcasted_msgs, dropped>>

Table == Tables[args]

Node == DOMAIN Table

\* broadcast_id: the originator's id and its number of earlier broadcasts.
Bid == Origins(args) \X (0 .. MaxBroadcasts - 1)

Init ==
  /\ args \in Deployments
  /\ net = EmptyBag
  /\ received = [n \in Node |-> [b \in Bid |-> 0]]
  /\ broadcasted_msgs = [n \in Origins(args) |-> 0]
  /\ dropped = {}

-----------------------------------------------------------------------------
(* What one run of the handler does: the messages it sends and whether it   *)
(* reports the data.                                                        *)

Msg(from, to, b, type, level, order) ==
  [from |-> from, to |-> to, bid |-> b, type |-> type, level |-> level,
   order |-> order]

Effect(out, report) == [out |-> out, report |-> report]

\* A receiver that is the first node of its district also broadcasts
\* downwards (type 2), any other only relays in the ring (type 5).
RingType(l, to) == IF l # 0 /\ to[0] = 0 THEN 2 ELSE 5

\* broadcast_within_ring: the receivers come from the sender's own peer_list.
broadcast_within_ring(n, b, l, order) ==
  LET end == get_peer_list_size(Table[n], l)
      own == get_node_id_in_vector(Table[n], l, n)
  IN  {LET to == get_peer_by_order(Table[n], l, Target(own, i, end))
       IN  Msg(n, to, b, RingType(l, to), l, order + Pow[i]) : i \in Hops(order, end)}

\* Mutations of BroadcastDown: the ring of level l is served twice; the
\* district ring is left out.
BroadcastDownTwice(n, b, l, order) ==
  broadcast_within_ring(n, b, l, order)
    \cup UNION {broadcast_within_ring(n, b, k, 0) : k \in 0 .. l}

BroadcastDownShort(n, b, l, order) ==
  broadcast_within_ring(n, b, l, order)
    \cup UNION {broadcast_within_ring(n, b, k, 0) : k \in 1 .. l - 1}

\* Within the ring of level l and then, from order 0, in each ring below it.
BroadcastDown(n, b, l, order) ==
  broadcast_within_ring(n, b, l, order)
    \cup UNION {broadcast_within_ring(n, b, k, 0) : k \in 0 .. l - 1}

\* broadcast_up from level l with a message of the given type, when the upper
\* ring has contact nodes: the choice of one at random.  A choice of the node
\* itself is not sent but handled at once (see Climb).
SendUp(n, b, type, l) ==
  {Effect({Msg(n, c, b, type, l, -1)}, FALSE) :
     c \in get_contact_nodes(Table[n], l + 1) \ {n}}

\* The handler for a request that has climbed to level l (type 1 from level l,
\* type 0 from level l - 1): the effects the random choices allow.
\*  - A node that is not in a ring of level l has nobody above to ask: it
\*    reports the data and its broadcast in the ring finds no peers.
\*  - Where there are no contact nodes above, the ring is the topmost one.
\*  - Otherwise the request climbs on; the node may pick itself.
Climb(n, b, level) ==
  LET at[l \in 0 .. 6] ==
        IF ~ is_contact_node(Table[n], l) THEN {Effect({}, TRUE)}
        ELSE IF get_contact_nodes(Table[n], l + 1) = {}
        THEN {Effect(BroadcastDown(n, b, l, 0), TRUE)}
        ELSE SendUp(n, b, 0, l)
               \cup (IF n \in get_contact_nodes(Table[n], l + 1) THEN at[l + 1] ELSE {})
  IN  at[level]

\* on_receive: types 0 and 1 climb, 2 goes down, 5 stays in the ring.  Types 3
\* and 4 belong to the contact node election, which nothing starts.
on_receive(n, m) ==
  LET report == m.level = get_top_level(Table[n]) IN
  CASE m.type = 0 -> Climb(n, m.bid, m.level + 1)
    [] m.type = 1 -> Climb(n, m.bid, m.level)
    [] m.type = 2 -> {Effect(BroadcastDown(n, m.bid, m.level, m.order), report)}
    [] m.type = 5 ->
         {Effect(broadcast_within_ring(n, m.bid, m.level, m.order), report)}

\* The handler's effect on the network and on what n has reported.
Apply(n, b, before, effect) ==
  /\ net' = before (+) SetToBag(effect.out)
  /\ received' = [received EXCEPT ![n][b] = IF effect.report THEN @ + 1 ELSE @]

-----------------------------------------------------------------------------

\* PeerManager::broadcast: name the message and ask a contact node of the
\* district ring, which may be the originator itself.
Broadcast(n) ==
  /\ broadcasted_msgs[n] < MaxBroadcasts
  /\ broadcasted_msgs' = [broadcasted_msgs EXCEPT ![n] = @ + 1]
  /\ LET b == <<n, broadcasted_msgs[n]>> IN
     \E c \in get_contact_nodes(Table[n], 0) :
       IF c = n
       THEN \E effect \in Climb(n, b, 0) : Apply(n, b, net, effect)
       ELSE Apply(n, b, net, Effect({Msg(n, c, b, 1, 0, -1)}, FALSE))
  /\ UNCHANGED <<args, dropped>>

\* PeerManager::receive, on the handler thread of the receiver.
Receive(m) ==
  /\ \E effect \in on_receive(m.to, m) :
       Apply(m.to, m.bid, net (-) SetToBag({m}), effect)
  /\ UNCHANGED <<args, broadcasted_msgs, dropped>>

\* UDP drops a datagram.
Drop(m) ==
  /\ Cardinality(dropped) < MaxDrops
  /\ net' = net (-) SetToBag({m})
  /\ dropped' = dropped \cup {m}
  /\ UNCHANGED <<args, received, broadcasted_msgs>>

ReceiveAny == \E m \in BagToSet(net) : Receive(m)

Next ==
  \/ \E n \in Origins(args) : Broadcast(n)
  \/ ReceiveAny
  \/ \E m \in BagToSet(net) : Drop(m)

Spec == Init /\ [][Next]_vars

\* Every process keeps taking datagrams from its queue.
FairSpec == Spec /\ WF_vars(ReceiveAny)

-----------------------------------------------------------------------------
(* Properties.                                                             *)

Begun(b) == broadcasted_msgs[b[1]] > b[2]

\* No datagram of broadcast b is on the wire.
AtRest(b) == Begun(b) /\ \A m \in BagToSet(net) : m.bid # b

Dropped(b) == {m \in dropped : m.bid = b}

\* The nodes where a climb may end: the contact nodes of the topmost ring.
Roots ==
  [p \in Deployments |->
     LET top == Max({get_top_level(Tables[p][n]) : n \in Nodes(p)})
     IN  UNION {get_contact_nodes(Tables[p][n], top) : n \in Nodes(p)}]

\* How often n is given the data when the climb ends at r.
Copies ==
  [p \in Deployments |->
     [r \in Roots[p], n \in Nodes(p) |->
        IF r[0] = 0 THEN 1
        ELSE 1 + Cardinality({l \in get_top_level(Tables[p][n]) .. get_top_level(Tables[p][r]) - 1 :
                                \A f \in Levels : f > l => r[f] = n[f]})]]

\* No node remembers what it has seen, and several contact nodes of a region are
\* in the ring above it.  Still a broadcast reaches every node once if the climb
\* ends at the first node of a district.  If it ends at another one, that node
\* broadcasts down its own rings besides the first node of its district, and a
\* node is given the data again for each ring level the two share, from the
\* node's own level to below the topmost: never more often, nor less often if
\* nothing is lost.
CopiesExplained ==
  \A b \in Bid : \E r \in Roots[args] : \A n \in Node :
    /\ received[n][b] <= Copies[args][r, n]
    /\ AtRest(b) /\ Dropped(b) = {} => received[n][b] = Copies[args][r, n]

\* A node that misses a broadcast was cut off by a datagram lost on the climb
\* or in a ring of its own region: losses elsewhere do not reach it.
LossContained ==
  \A b \in Bid : AtRest(b) =>
    \A n \in Node : received[n][b] = 0 =>
      \E m \in Dropped(b) :
        m.type \in {0, 1} \/ \A f \in Levels : f > m.level => m.to[f] = n[f]

\* A broadcast whose datagrams are not lost eventually reaches every node: again
\* and again there is a moment at which all that were begun have done so, which
\* they never undo.
EventuallyAll ==
  []<>(\A b \in Bid :
         Begun(b) => Dropped(b) # {} \/ \A n \in Node : received[n][b] >= 1)
=============================================================================
