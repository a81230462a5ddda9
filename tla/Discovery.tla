------------------------------ MODULE Discovery ------------------------------
(***************************************************************************)
(* Several nodes running NodeDiscovery and DiscoveryProtocol               *)
(* (devp2p/discovery.py) over UDP, each with a KademliaProtocol.  A node   *)
(* joins through a bootstrap node; it may restart at another address with  *)
(* an empty table.  Packets are lost, reordered, late and expire.          *)
(* An address is <<node, generation>>: where that incarnation listens.     *)
(***************************************************************************)
EXTENDS KademliaProtocol

CONSTANTS Nodes,        \* the nodes, by id
          Boot,         \* the node every configuration lists as bootstrap node
          Expiration,   \* lifetime of a packet, in units of time
          PacketNodes,  \* nodes a neighbours packet has room for
          Mobile,       \* nodes that may restart; not the bootstrap node
          MaxTime,      \* bound: time
          MaxRestarts,  \* bound: restarts
          MaxLost       \* bound: packets lost

ASSUME DiscoveryAssumption ==
    /\ Boot \in Nodes /\ Nodes \subseteq Ids /\ Mobile \subseteq Nodes \ {Boot}
    /\ {Expiration, PacketNodes, MaxTime, MaxRestarts, MaxLost} \subseteq Nat

VARIABLES kademlia,   \* KademliaProtocol of each node that runs
          addr,       \* addr[n][m]: the address in n's Node object for m
          gen,        \* gen[n]: incarnation of n
          net,        \* packets in flight
          time,       \* time.time(), the same for all
          lost,       \* packets lost
          disturbed   \* history: a packet was lost, or time passed with one in flight

discovery_vars == <<kademlia, addr, gen, net, time, lost, disturbed>>

Running == DOMAIN kademlia

-----------------------------------------------------------------------------
\* send_neighbours sorts the nodes by id and sends the first of them.
InPacket(S) == {m \in S : Cardinality({x \in S : x < m}) < PacketNodes}

\* The packets that the kademlia output of n becomes: pack adds the expiration,
\* the transport the addresses; a list of nodes carries their addresses.
Packets(n, out, book) ==
    LET Body(m) == IF m.type = "neighbours"
                   THEN [m EXCEPT !.nodes = {<<x, book[x]>> : x \in InPacket(m.nodes)}] ELSE m
    IN  {[body |-> Body(m), from |-> n, source |-> <<n, gen[n]>>, dest |-> book[m.to],
          expires |-> time + Expiration] : m \in out}

Put(n, p, book, rest) ==
    /\ kademlia' = (n :> [p EXCEPT !.out = {}]) @@ kademlia
    /\ addr' = [addr EXCEPT ![n] = book]
    /\ net' = rest \cup Packets(n, p.out, book)

DiscoveryInit ==
    /\ kademlia = [n \in {} |-> Proto(0)]
    /\ addr = [n \in Nodes |-> [m \in {} |-> <<m, 0>>]]
    /\ gen = [n \in Nodes |-> 0]
    /\ net = {} /\ time = 0 /\ lost = 0 /\ disturbed = FALSE

\* NodeDiscovery.start: listen, then bootstrap with the configured nodes,
\* leaving out the node itself.
Start(n) ==
    /\ n \notin Running
    /\ Put(n, IF n = Boot THEN Proto(time) ELSE bootstrap(Proto(time), Boot, n, time),
           Boot :> <<Boot, 0>>, net)
    /\ UNCHANGED <<gen, time, lost, disturbed>>

\* NodeDiscovery.stop and a new process at another address.  The bootstrap
\* node keeps its address: the configurations name it.
Stop(n) ==
    /\ n \in Running \cap Mobile
    /\ gen[n] < MaxRestarts
    /\ kademlia' = [m \in Running \ {n} |-> kademlia[m]]
    /\ gen' = [gen EXCEPT ![n] = @ + 1]
    /\ UNCHANGED <<addr, net, time, lost, disturbed>>

\* The kademlia handler that the discovery handler of a packet calls.
Dispatch(n, p, pkt) ==
    CASE pkt.body.type = "ping"       -> recv_ping(p, pkt.from, pkt.body.echo, n, time)
      [] pkt.body.type = "pong"       -> recv_pong(p, pkt.from, pkt.body.echo, n, time)
      [] pkt.body.type = "find_node"  -> recv_find_node(p, pkt.from, pkt.body.target, n, time)
      [] pkt.body.type = "neighbours" -> {recv_neighbours(p, {x[1] : x \in pkt.body.nodes}, n, time)}

\* Mutant: the address of a listed node is taken from the packet's source.
Learn_Source(book, pkt) ==
    LET listed == IF pkt.body.type = "neighbours" THEN pkt.body.nodes ELSE {}
    IN  [m \in {x[1] : x \in listed} |-> pkt.source] @@ (pkt.from :> pkt.source) @@ book

\* get_node: the sender's address is the packet's source; the addresses in a
\* list of nodes replace the known ones.
Learn(book, pkt) ==
    LET listed == IF pkt.body.type = "neighbours" THEN pkt.body.nodes ELSE {}
    IN  [m \in {x[1] : x \in listed} |-> (CHOOSE x \in listed : x[1] = m)[2]]
            @@ (pkt.from :> pkt.source) @@ book

\* _handle_packet: an expired packet is dropped.
Receive(n) ==
    \E pkt \in net :
        /\ n \in Running /\ pkt.dest = <<n, gen[n]>>
        /\ IF time > pkt.expires
           THEN net' = net \ {pkt} /\ UNCHANGED <<kademlia, addr>>
           ELSE \E p \in Dispatch(n, kademlia[n], pkt) :
                    Put(n, p, Learn(addr[n], pkt), net \ {pkt})
        /\ UNCHANGED <<gen, time, lost, disturbed>>

Lose ==
    \E pkt \in net :
        /\ \/ lost < MaxLost /\ lost' = lost + 1
           \/ pkt.dest # <<pkt.dest[1], gen[pkt.dest[1]]>> /\ UNCHANGED lost
           \/ pkt.dest[1] \notin Running /\ UNCHANGED lost
        /\ net' = net \ {pkt}
        /\ disturbed' = TRUE
        /\ UNCHANGED <<kademlia, addr, gen, time>>

TimePasses ==
    /\ time < MaxTime
    /\ time' = time + 1
    /\ disturbed' = (disturbed \/ net # {})
    /\ UNCHANGED <<kademlia, addr, gen, net, lost>>

DiscoveryNext ==
    \/ \E n \in Nodes : Start(n) \/ Stop(n) \/ Receive(n)
    \/ Lose
    \/ TimePasses

DiscoverySpec == DiscoveryInit /\ [][DiscoveryNext]_discovery_vars

-----------------------------------------------------------------------------
(* Joining works without retransmission: when nothing is in flight and no  *)
(* packet was lost or late, every running node knows every other one.      *)
QuietMeansKnown ==
    (net = {} /\ ~ disturbed /\ Running = Nodes)
        => \A n \in Nodes : Known(kademlia[n]) = Nodes \ {n}

(* Whatever third parties report, a node never has itself in its table nor *)
(* waits for its own pong, and an address it holds is one of its owner's.  *)
NobodyElsesAddress ==
    \A n \in Running :
        /\ n \notin Known(kademlia[n]) /\ \A id \in DOMAIN kademlia[n].expected : id[2] # n
        /\ \A m \in DOMAIN addr[n] : addr[n][m][1] = m

(* "Addresses can only be learned by ping messages": a known address       *)
(* changes only with a packet of its owner, be it a ping or another one.   *)
LearnedFromOwner ==
    [][\A n \in Running \cap DOMAIN kademlia' : \A m \in DOMAIN addr[n] \cap DOMAIN addr'[n] :
          addr'[n][m] # addr[n][m] =>
              \E pkt \in net \ net' : pkt.from = m /\ pkt.dest = <<n, gen[n]>>]_discovery_vars
=============================================================================
