----------------------------- MODULE PeerManager -----------------------------
(***************************************************************************)
(* The peer managers of a few nodes (devp2p/peermanager.py): dialling by   *)
(* the bootstrap and discovery greenlets, accepting, the decision on a     *)
(* hello (too many peers, or a second connection to the same node), the    *)
(* list of peers each manager keeps, and its stop.  A Peer                 *)
(* (devp2p/peer.py) is here the stage of one end of a connection; its      *)
(* inner life is the subject of PeerSession.                               *)
(***************************************************************************)
EXTENDS Integers, Sequences, FiniteSets, SequencesExt

CONSTANTS Nodes, None,
          bootstrap_nodes,   \* bootstrap_nodes[n]: the nodes n dials first
          min_peers, max_peers,  \* max_peers[n]: the configuration of node n
          MayStop,           \* bound: the nodes that stop
          MaxConns,          \* bound: connections made or being made
          MaxDrops           \* bound: connections the network drops

ASSUME ManagerAssumption ==
    /\ None \notin Nodes /\ MayStop \subseteq Nodes
    /\ bootstrap_nodes \in [Nodes -> SUBSET Nodes] /\ \A n \in Nodes : n \notin bootstrap_nodes[n]
    /\ min_peers \in Nat /\ max_peers \in [Nodes -> Nat] /\ MaxConns \in Nat /\ MaxDrops \in Nat

Ends == {"from", "to"}
Other(e) == IF e = "from" THEN "to" ELSE "from"
Greenlets == {"bootstrap", "discovery"}

VARIABLES conns,      \* conns[c]: the connection c is from one node to another
          stage,      \* stage[c][e]: how far the Peer at end e of c is
          inbox,      \* inbox[c][e]: messages end e has not read
          peers,      \* peers[n]: the connections in self.peers, in order
          booted,     \* <<n, m>>: the bootstrap greenlet of n has dialled m
          dialling,   \* dialling[n][g]: whom greenlet g of n is connecting to
          listening,  \* the nodes whose StreamServer runs
          is_stopped, \* the nodes whose manager has stopped
          cursor,     \* cursor[n]: position of stop() in self.peers, 0: none
          drops

vars == <<conns, stage, inbox, peers, booted, dialling, listening, is_stopped, cursor, drops>>

-----------------------------------------------------------------------------
Owner(c, e) == IF e = "from" THEN conns[c].from ELSE conns[c].to

\* The remote_pubkey of the Peer: the dialler knows it, the listener learns it
\* with the auth message.
remote_pubkey(c, n) ==
    IF conns[c].from = n THEN conns[c].to
    ELSE IF stage[c]["to"] = "accepted" THEN None ELSE conns[c].from

remote_pubkeys(n) == {remote_pubkey(c, n) : c \in ToSet(peers[n])}

EndOf(c, n) == IF conns[c].from = n THEN "from" ELSE "to"

\* num_peers: every peer in the list that is not stopped.
num_peers(n) == Cardinality({c \in ToSet(peers[n]) : stage[c][EndOf(c, n)] # "stopped"})

\* Mutant: the peer itself is not counted.
on_hello_received_Others(n, c) ==
    /\ Len(peers[n]) - 1 <= max_peers[n]
    /\ \A d \in ToSet(peers[n]) \ {c} : remote_pubkey(d, n) # remote_pubkey(c, n)

\* Mutant: a second connection to the same node is not noticed.
on_hello_received_CountOnly(n, c) == Len(peers[n]) <= max_peers[n]

on_hello_received(n, c) ==
    /\ Len(peers[n]) <= max_peers[n]
    /\ \A d \in ToSet(peers[n]) \ {c} : remote_pubkey(d, n) # remote_pubkey(c, n)

-----------------------------------------------------------------------------
Init ==
    /\ conns = <<>> /\ stage = <<>> /\ inbox = <<>>
    /\ peers = [n \in Nodes |-> <<>>]
    /\ booted = {}
    /\ dialling = [n \in Nodes |-> [g \in Greenlets |-> None]]
    /\ listening = Nodes
    /\ is_stopped = {}
    /\ cursor = [n \in Nodes |-> 0]
    /\ drops = 0

Wire == <<conns, stage, inbox, peers>>
Service == <<listening, is_stopped, cursor>>

\* Room for one more connection under the bound.
MayDial == Len(conns) + Cardinality({x \in Nodes \X Greenlets : dialling[x[1]][x[2]] # None}) < MaxConns

\* _bootstrap: dials one node after the other, without looking at the peers
\* there are.
_bootstrap(n) ==
    /\ MayDial /\ dialling[n]["bootstrap"] = None
    /\ \E m \in bootstrap_nodes[n] :
          /\ <<n, m>> \notin booted /\ booted' = booted \cup {<<n, m>>}
          /\ dialling' = [dialling EXCEPT ![n]["bootstrap"] = m]
    /\ UNCHANGED <<Wire, Service, drops>>

\* _discovery_loop: while there are too few peers, one of the neighbours of a
\* random id that is neither this node nor one of its peers.
_discovery_loop(n) ==
    /\ MayDial /\ n \notin is_stopped /\ dialling[n]["discovery"] = None
    /\ num_peers(n) < min_peers
    /\ \E m \in Nodes \ ({n} \cup remote_pubkeys(n)) :
          dialling' = [dialling EXCEPT ![n]["discovery"] = m]
    /\ UNCHANGED <<Wire, booted, Service, drops>>

\* connect: the connection is made and a Peer started that writes the auth
\* message; by then the peers may have changed, and stop() may have returned.
connect(n, g) ==
    LET m == dialling[n][g] IN
    /\ m # None /\ m \in listening
    /\ dialling' = [dialling EXCEPT ![n][g] = None]
    /\ conns' = Append(conns, [from |-> n, to |-> m])
    /\ stage' = Append(stage, [e \in Ends |-> IF e = "from" THEN "accepted" ELSE "none"])
    /\ inbox' = Append(inbox, [e \in Ends |-> IF e = "from" THEN <<>> ELSE <<"auth">>])
    /\ peers' = [peers EXCEPT ![n] = Append(@, Len(conns) + 1)]
    /\ UNCHANGED <<booted, Service, drops>>

\* connect: timeout or error.
connect_fails(n, g) ==
    /\ dialling[n][g] # None
    /\ dialling' = [dialling EXCEPT ![n][g] = None]
    /\ UNCHANGED <<Wire, booted, Service, drops>>

\* _on_new_connection and _start_peer at the listening end; a server that has
\* stopped leaves the connection in its backlog to be reset.
_on_new_connection(c) ==
    LET n == conns[c].to IN
    /\ stage[c]["to"] = "none"
    /\ IF n \in listening
       THEN /\ stage' = [stage EXCEPT ![c]["to"] = "accepted"]
            /\ peers' = [peers EXCEPT ![n] = Append(@, c)]
       ELSE stage' = [stage EXCEPT ![c]["to"] = "stopped"] /\ UNCHANGED peers
    /\ UNCHANGED <<conns, inbox, booted, dialling, Service, drops>>

\* list.remove; a connection is in a list at most once.
Without(s, c) == IF c \in ToSet(s) THEN RemoveAt(s, CHOOSE i \in DOMAIN s : s[i] = c) ELSE s

\* Peer.stop: removed from the list, nothing is read any more.
StopPeer(c, e) ==
    /\ stage' = [stage EXCEPT ![c][e] = "stopped"]
    /\ inbox' = [inbox EXCEPT ![c][e] = <<>>]
    /\ peers' = [peers EXCEPT ![Owner(c, e)] = Without(@, c)]

Live(c, e) == stage[c][e] \notin {"none", "stopped"}

\* The message read, and the answers to the other end unless it is stopped.
Answer(c, e, out) ==
    inbox' = [inbox EXCEPT ![c][e] = Tail(@),
                           ![c][Other(e)] = IF stage[c][Other(e)] = "stopped" THEN @ ELSE @ \o out]

Receive(c, e) ==
    LET n == Owner(c, e) IN
    /\ Live(c, e) /\ inbox[c][e] # <<>>
    /\ \/ /\ Head(inbox[c][e]) = "auth"
          /\ stage' = [stage EXCEPT ![c][e] = "keyed"]
          /\ Answer(c, e, <<"ack", "hello">>) /\ UNCHANGED peers
       \/ /\ Head(inbox[c][e]) = "ack"
          /\ stage' = [stage EXCEPT ![c][e] = "keyed"]
          /\ Answer(c, e, <<"hello">>) /\ UNCHANGED peers
       \/ /\ Head(inbox[c][e]) = "hello" /\ on_hello_received(n, c)
          /\ stage' = [stage EXCEPT ![c][e] = "agreed"]
          /\ Answer(c, e, <<>>) /\ UNCHANGED peers
       \/ /\ Head(inbox[c][e]) = "hello" /\ ~ on_hello_received(n, c)
          /\ stage' = [stage EXCEPT ![c][e] = "refused"]
          /\ Answer(c, e, <<"disconnect">>) /\ UNCHANGED peers
       \/ Head(inbox[c][e]) = "disconnect" /\ StopPeer(c, e)
    /\ UNCHANGED <<conns, booted, dialling, Service, drops>>

\* Half a second after the disconnect was sent.
DeferredStop(c, e) ==
    /\ stage[c][e] = "refused" /\ StopPeer(c, e)
    /\ UNCHANGED <<conns, booted, dialling, Service, drops>>

\* Mutant: once a hello was received nothing watches the remote.
RemoteGone_DumbOnly(c, e) ==
    /\ stage[c][e] \in {"accepted", "keyed"} /\ stage[c][Other(e)] = "stopped" /\ StopPeer(c, e)
    /\ UNCHANGED <<conns, booted, dialling, Service, drops>>

\* The other end is gone: a write error, or the monitor or the check for a dumb
\* remote in the end.
RemoteGone(c, e) ==
    /\ Live(c, e) /\ stage[c][Other(e)] = "stopped" /\ StopPeer(c, e)
    /\ UNCHANGED <<conns, booted, dialling, Service, drops>>

\* The network drops the connection.
Drop(c, e) ==
    /\ Live(c, e) /\ drops < MaxDrops /\ drops' = drops + 1 /\ StopPeer(c, e)
    /\ UNCHANGED <<conns, booted, dialling, Service>>

\* stop: the server, then the peers in turn; each stop() takes its peer out of
\* the list that is being iterated; the loops are told last.
StopBegins(n) ==
    /\ n \in MayStop \cap listening
    /\ listening' = listening \ {n} /\ cursor' = [cursor EXCEPT ![n] = 1]
    /\ UNCHANGED <<Wire, booted, dialling, is_stopped, drops>>

StopNext(n) ==
    /\ cursor[n] \in 1 .. Len(peers[n])
    /\ LET c == peers[n][cursor[n]] IN StopPeer(c, EndOf(c, n))
    /\ cursor' = [cursor EXCEPT ![n] = @ + 1]
    /\ UNCHANGED <<conns, booted, dialling, listening, is_stopped, drops>>

StopEnds(n) ==
    /\ cursor[n] > Len(peers[n])
    /\ cursor' = [cursor EXCEPT ![n] = 0]
    /\ is_stopped' = is_stopped \cup {n}
    /\ UNCHANGED <<Wire, booted, dialling, listening, drops>>

Next ==
    \/ \E n \in Nodes : \/ _bootstrap(n) \/ _discovery_loop(n) \/ StopBegins(n) \/ StopNext(n)
                        \/ StopEnds(n)
                        \/ \E g \in Greenlets : connect(n, g) \/ connect_fails(n, g)
    \/ \E c \in DOMAIN conns : \/ _on_new_connection(c)
                               \/ \E e \in Ends : \/ Receive(c, e) \/ DeferredStop(c, e)
                                                  \/ RemoteGone(c, e) \/ Drop(c, e)

\* The peers at both ends keep running, and a peer whose remote is gone is
\* stopped in the end (PeerSession!NoHalfOpen).
Fairness ==
    \A c \in 1 .. MaxConns :
        /\ WF_vars(c \in DOMAIN conns /\ _on_new_connection(c))
        /\ \A e \in Ends : WF_vars(c \in DOMAIN conns /\ (Receive(c, e) \/ DeferredStop(c, e) \/ RemoteGone(c, e)))

Spec == Init /\ [][Next]_vars /\ Fairness

-----------------------------------------------------------------------------
AgreedPeers(n) == {c \in DOMAIN conns : \E e \in Ends : Owner(c, e) = n /\ stage[c][e] = "agreed"}

(* Nodes that dial each other at the same time, or dial twice, end up with *)
(* at most one agreed connection between them.                             *)
OneConnectionPerNode ==
    \A n \in Nodes : \A c, d \in AgreedPeers(n) : c # d => remote_pubkey(c, n) # remote_pubkey(d, n)

(* However many connections arrive at once, a node agrees to max_peers.    *)
AgreedBounded == \A n \in Nodes : Cardinality(AgreedPeers(n)) <= max_peers[n]

(* Every connection settles: both ends agree to it, or both are stopped,   *)
(* also when only one end refused, or stopped while messages were on their *)
(* way.                                                                    *)
Settles ==
    \A c \in 1 .. MaxConns :
        (c \in DOMAIN conns) ~> (c \in DOMAIN conns /\
            \/ \A e \in Ends : stage[c][e] = "agreed"
            \/ \A e \in Ends : stage[c][e] = "stopped")

(* When stop() returns, no peer is left: "if a services spawns additional  *)
(* greenlets, it's responsible to stop them" (service.py:16).              *)
StopLeavesNoPeer == [][\A n \in is_stopped' \ is_stopped : peers[n] = <<>>]_vars
=============================================================================
