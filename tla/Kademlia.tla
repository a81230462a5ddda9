------------------------------- MODULE Kademlia -------------------------------
(***************************************************************************)
(* One node running KademliaProtocol among remote nodes that send it any   *)
(* packet at any time: pings, requests, lists of nodes, and pongs, late,   *)
(* repeated or never, for the pings it sent them.                          *)
(***************************************************************************)
EXTENDS KademliaProtocol

CONSTANTS This,       \* this_node
          Remotes,    \* the other nodes
          MaxBoot,    \* bound: nodes in the bootstrap list
          MaxList,    \* bound: nodes in a neighbours packet
          MaxNow,     \* bound: time
          MaxPackets  \* bound: packets handled

ASSUME KademliaAssumption ==
    /\ Remotes \subseteq Ids /\ This \in Ids \ Remotes
    /\ {MaxBoot, MaxList, MaxNow, MaxPackets} \subseteq Nat

VARIABLES proto,    \* the state of the protocol object
          now,      \* time.time()
          pinged,   \* the pings on the wire, by ping id
          handled   \* number of packets handled

vars == <<proto, now, pinged, handled>>

PingIds(out) == {<<m.echo, m.to>> : m \in {x \in out : x.type = "ping"}}

\* NodeDiscovery.start hands the bootstrap list to the protocol before any
\* packet is handled.
Bootstrapped(list) ==
    LET boot[i \in 0 .. Len(list)] ==
            IF i = 0 THEN Proto(0)
            ELSE IF list[i] = This THEN boot[i - 1] ELSE bootstrap(boot[i - 1], list[i], This, 0)
    IN  boot[Len(list)]

Init ==
    /\ \E list \in UNION {[1 .. k -> Remotes \cup {This}] : k \in 0 .. MaxBoot} :
          proto = Bootstrapped(list)
    /\ now = 0
    /\ pinged = {}
    /\ handled = 0

\* A handler ran to its end with result p.
Handled(p) ==
    /\ handled < MaxPackets
    /\ handled' = handled + 1
    /\ proto' = [p EXCEPT !.out = {}]
    /\ pinged' = pinged \cup PingIds(p.out)
    /\ UNCHANGED now

RecvPing == \E n \in Remotes : \E p \in recv_ping(proto, n, Echo(now), This, now) : Handled(p)

RecvPong == \E id \in pinged : \E p \in recv_pong(proto, id[2], id[1], This, now) : Handled(p)

RecvFindNode == \E n \in Remotes : \E p \in recv_find_node(proto, n, This, This, now) : Handled(p)

RecvNeighbours ==
    \E list \in kSubset(MaxList, Remotes \cup {This}) : Handled(recv_neighbours(proto, list, This, now))

Tick == now < MaxNow /\ now' = now + 1 /\ UNCHANGED <<proto, pinged, handled>>

Next == RecvPing \/ RecvPong \/ RecvFindNode \/ RecvNeighbours \/ Tick

Spec == Init /\ [][Next]_vars

-----------------------------------------------------------------------------
\* The remote ids are scattered: for some size of blocks, a power of two, no
\* block holds as many of them as a bucket and none is the last id of a block.
\* Otherwise a bucket may become so small that a remote id is its end, which
\* bucket_by_node takes for an id of the next bucket, or that its nodes differ
\* in the last bit alone, where depth raises an exception.
Scattered(m) ==
    /\ \A n \in Remotes : n % Pow[m] # Pow[m] - 1
    /\ \A S \in SUBSET Remotes :
          Cardinality(S) = K => \E x, y \in S : x \div Pow[m] # y \div Pow[m]

ScatteredRemotes == \E m \in 1 .. IdBits : Scattered(m)

(* The buckets partition the id space, hold at most K nodes, no node twice *)
(* and never the local node; every node and replacement is in the bucket   *)
(* of its range; and the assertion of bucket_by_node holds for every       *)
(* remote id, after every mix of splits, evictions and timeouts.           *)
TableSound ==
    LET t == proto.buckets
    IN  /\ Partition(t) /\ Placed(t)
        /\ This \notin Members(t)
        /\ \A n \in Remotes : EndsAbove(t, n) # {} /\ n >= t[bucket_by_node(t, n)].start

(* neighbours, which orders buckets by their midpoints and cuts its list   *)
(* short, returns exactly the closest nodes of the table.                  *)
NeighboursClosest == \A t \in Ids, k \in 1 .. K : Closest(proto.buckets, t, k)

(* A node leaves the table only when a ping to it went unanswered past its *)
(* deadline: no split, no refused sender and no answered check drops it.   *)
EvictsOnlySilent ==
    [][\A n \in Known(proto) \ Known(proto)' :
          \E id \in Overdue(proto, now) \ Overdue(proto', now) : id[2] = n]_vars
=============================================================================
