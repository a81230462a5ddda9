--------------------------- MODULE KademliaProtocol ---------------------------
(***************************************************************************)
(* The handlers of KademliaProtocol (devp2p/kademlia.py) as functions of   *)
(* its state p = [buckets, expected, finds, out]: the routing table, the   *)
(* dict _expected_pongs, the dict _find_requests and the packets given to  *)
(* the wire.  A ping is named by <<echo, node>>; the echo is the hash of   *)
(* the packet, which two pings to one node in one second share, because    *)
(* the packet's only changing field is its expiration in whole seconds.    *)
(* dict order is not specified, so update is the set of its outcomes.      *)
(***************************************************************************)
EXTENDS KademliaTable

CONSTANTS Timeout,     \* k_request_timeout, in units of time
          PerSecond,   \* units of time in a second
          Concurrency  \* k_find_concurrency

ASSUME ProtocolAssumption == {Timeout, PerSecond, Concurrency} \subseteq Nat \ {0}

\* Optional arguments are sets of at most one element.
None == {}

Proto(now) ==
    [buckets |-> RoutingTable(now), expected |-> [i \in {} |-> None],
     finds |-> [t \in {} |-> 0], out |-> {}]

Send(p, pkt) == [p EXCEPT !.out = @ \cup {pkt}]

Known(p) == Members(p.buckets)

-----------------------------------------------------------------------------
Echo(now) == now \div PerSecond

\* Ping the nodes S; a packet leaves before its pong is expected.
ping(p, S, replacement, now) ==
    LET sent == {<<Echo(now), n>> : n \in S}
        entry(id) == [deadline |-> now + Timeout, node |-> id[2], replacement |-> replacement]
    IN  [p EXCEPT !.out = @ \cup {[type |-> "ping", to |-> n, echo |-> Echo(now)] : n \in S},
                  !.expected = [id \in DOMAIN @ \cup sent |-> IF id \in sent THEN entry(id) ELSE @[id]]]

\* Look up each of the targets, through `via' or through the closest nodes.
find_node(p, targets, via, now) ==
    LET ask(t) == IF via # None THEN via
                  ELSE Range(Take(neighbours(p.buckets, t, K), Concurrency))
    IN  [p EXCEPT !.finds = [t \in targets |-> now + Timeout] @@ @,
                  !.out = @ \cup UNION {{[type |-> "find_node", to |-> n, target |-> t] :
                                             n \in ask(t)} : t \in targets}]

\* bootstrap ignores the eviction candidate add_node returns.
bootstrap(p, n, this, now) ==
    find_node([p EXCEPT !.buckets = add_node(@, n, this, now)], {this}, {n}, now)

-----------------------------------------------------------------------------
(* update *)

Overdue(p, now) == {id \in DOMAIN p.expected : now > p.expected[id].deadline}

\* A ping that timed out takes its node out of the table.
Evict(p, id) ==
    [p EXCEPT !.expected = [i \in DOMAIN @ \ {id} |-> @[i]],
              !.buckets = remove_node(@, p.expected[id].node)]

\* The answered eviction check puts the replacement into its bucket's cache.
Answered(p, ids) ==
    LET rs == UNION {p.expected[id].replacement : id \in ids}
        here(i) == {r \in rs : bucket_by_node(p.buckets, r) = i}
        CacheIn(i, b) == [b EXCEPT !.cache =
            IF here(i) = {} THEN @ ELSE Append(@, CHOOSE r \in here(i) : TRUE)]
    IN  [p EXCEPT !.expected = [i \in DOMAIN @ \ ids |-> @[i]],
                  !.buckets = [i \in DOMAIN @ |-> CacheIn(i, @[i])]]

\* The sender enters the table, or the head of its full bucket is pinged.
AddOrCheck(p, n, this, now) ==
    LET q == [p EXCEPT !.buckets = add_node(@, n, this, now)]
    IN  ping(q, eviction_candidate(q.buckets, n), {n}, now)

PingReplacements(p, now) ==
    ping(p, UNION {Range(p.buckets[i].cache) : i \in not_full_buckets(p.buckets)}, None, now)

\* A random id of each idle bucket is looked up; the ends of its range stand
\* for all its ids.
RefreshIdle(p, now) ==
    LET idle == idle_buckets(p.buckets, now)
        rid(i, low) == IF low THEN p.buckets[i].start ELSE p.buckets[i].end
    IN  {find_node(p, {rid(i, low[i]) : i \in idle}, None, now) : low \in [idle -> BOOLEAN]}

PruneFinds(p, now) ==
    [p EXCEPT !.finds = [t \in {x \in DOMAIN @ : now <= @[x]} |-> @[t]]]

\* A run of update: its protocol state, the node and the ping id it was called
\* with, and whether it still runs.
Run(p, n, id, going) == [proto |-> p, node |-> n, id |-> id, going |-> going]

\* The loop takes one of the timed-out pings: one with a replacement ends the
\* update with an update for the replacement, one of the sender itself ends it.
TimeOut(c, this, now) ==
    IF ~ c.going \/ Overdue(c.proto, now) = {} THEN {c}
    ELSE UNION {LET e == c.proto.expected[late]
                    q == Evict(c.proto, late)
                IN  IF e.replacement = None THEN {Run(q, c.node, c.id, e.node # c.node)}
                    ELSE {Run(q, r, None, r # this) : r \in e.replacement}
                : late \in Overdue(c.proto, now)}

\* What follows the loop.
AfterLoop(c, this, now) ==
    LET answered == Answered(c.proto, c.id \cap DOMAIN c.proto.expected)
        added == AddOrCheck(answered, c.node, this, now)
    IN  IF ~ c.going THEN {c.proto}
        ELSE {PruneFinds(q, now) : q \in RefreshIdle(PingReplacements(added, now), now)}

update(p, n, id, this, now) ==
    LET late == Cardinality(Overdue(p, now))
        runs[k \in 0 .. late] ==
            IF k = 0 THEN {Run(p, n, id, TRUE)} ELSE UNION {TimeOut(c, this, now) : c \in runs[k - 1]}
    IN  IF n = this \/ ~ (id \subseteq DOMAIN p.expected) THEN {p}
        ELSE UNION {AfterLoop(c, this, now) : c \in runs[late]}

-----------------------------------------------------------------------------
(* The packet handlers *)

recv_ping(p, n, echo, this, now) ==
    IF n = this THEN {p}
    ELSE {Send(q, [type |-> "pong", to |-> n, echo |-> echo]) : q \in update(p, n, None, this, now)}

recv_pong(p, n, echo, this, now) == update(p, n, {<<echo, n>>}, this, now)

\* Mutant: the request is answered without an update of the table.
recv_find_node_NoUpdate(p, n, target, this, now) ==
    {Send(p, [type |-> "neighbours", to |-> n, nodes |-> Range(neighbours(p.buckets, target, K))])}

recv_find_node(p, n, target, this, now) ==
    {Send(q, [type |-> "neighbours", to |-> n, nodes |-> Range(neighbours(q.buckets, target, K))])
        : q \in update(p, n, None, this, now)}

\* Each open request is forwarded to the closest of the new nodes that are
\* closer than every known one; every new node is pinged.
recv_neighbours(p, nodes, this, now) ==
    LET new == nodes \ (Known(p) \cup {this})
        closest(t) == {n \in new : Cardinality({m \in new : id_distance(m, t) < id_distance(n, t)})
                                      < Concurrency}
        closer(t) == {n \in closest(t) : \A m \in Known(p) : id_distance(n, t) < id_distance(m, t)}
        forward == UNION {{[type |-> "find_node", to |-> n, target |-> t] : n \in closer(t)}
                             : t \in {t \in DOMAIN p.finds : now < p.finds[t]}}
    IN  ping([p EXCEPT !.out = @ \cup forward], new, None, now)
=============================================================================
