------------------------------- MODULE PeerFlow -------------------------------
(***************************************************************************)
(* Writing and reading on the connections of one node: at both ends the    *)
(* sender and the ingress greenlet of a Peer (devp2p/peer.py) with the     *)
(* event safe_to_read between them, over a TCP connection that holds a     *)
(* bounded amount of data, and the greenlet that runs                      *)
(* PeerManager.broadcast (devp2p/peermanager.py), which waits for the same *)
(* events while peers stop.                                                *)
(***************************************************************************)
EXTENDS Integers, Sequences, FiniteSets, SequencesExt

CONSTANTS Conns,     \* the connections of the node
          Dialled,   \* those the node has dialled itself
          NoPeer,
          Capacity,  \* what a connection holds one way, in units of 4096 bytes
          Sizes,     \* lengths of messages, in units
          MaxSent,   \* bound: messages of services
          MaxStops   \* bound: stops for reasons outside of this model

ASSUME FlowAssumption ==
    /\ Dialled \subseteq Conns /\ NoPeer \notin Conns \X {"here", "there"}
    /\ Capacity \in Nat \ {0} /\ Sizes \subseteq Nat \ {0}
    /\ MaxSent \in Nat /\ MaxStops \in Nat

Peers == Conns \X {"here", "there"}
Mine == Conns \X {"here"}
Remote(p) == <<p[1], IF p[2] = "here" THEN "there" ELSE "here">>
HasDialled(p) == (p[1] \in Dialled) <=> p \in Mine

VARIABLES queue,        \* mux.message_queue: sizes; the head while it is written
          sender,       \* the sender greenlet: idle, writing, failing or gone
          left,         \* left[p]: units of the head still to be written
          safe_to_read,
          ingress,      \* the ingress greenlet: what it waits for
          data,         \* data[p]: units written by p, not yet read
          life,         \* running, stopping (greenlets being killed), stopped
          sample,       \* the peers broadcast still has to serve
          waiting,      \* the peer whose event broadcast waits for
          result,       \* of broadcast
          sent, stops

peer == <<queue, sender, left, safe_to_read, ingress, data, life>>
upload == <<sample, waiting, result>>
flow_vars == <<peer, upload, sent, stops>>

FlowInit ==
    /\ queue = [p \in Peers |-> <<>>]
    /\ sender = [p \in Peers |-> "idle"] /\ left = [p \in Peers |-> 0]
    /\ safe_to_read = [p \in Peers |-> TRUE]
    /\ ingress = [p \in Peers |-> "data"]
    /\ data = [p \in Peers |-> 0]
    /\ life = [p \in Peers |-> "running"]
    /\ sample = <<>> /\ waiting = NoPeer /\ result = "none"
    /\ sent = 0 /\ stops = 0

-----------------------------------------------------------------------------
(* The sender *)

\* A service of either node sends a packet.
SendPacket(p) ==
    /\ life[p] = "running" /\ sent < MaxSent /\ sent' = sent + 1
    /\ \E n \in Sizes : queue' = [queue EXCEPT ![p] = Append(@, n)]
    /\ UNCHANGED <<sender, left, safe_to_read, ingress, data, life, upload, stops>>

Least(a, b) == IF a < b THEN a ELSE b

\* Mutant: the event is set only when the write had not to wait.
Write_NoSet(p, n) ==
    LET w == Least(n, Capacity - data[p]) IN
    /\ data' = [data EXCEPT ![p] = @ + w] /\ left' = [left EXCEPT ![p] = n - w]
    /\ safe_to_read' = [safe_to_read EXCEPT ![p] = w = n /\ sender[p] = "idle"]
    /\ IF w = n
       THEN /\ queue' = [queue EXCEPT ![p] = Tail(@)]
            /\ sender' = [sender EXCEPT ![p] = IF life[p] = "running" THEN "idle" ELSE "gone"]
       ELSE sender' = [sender EXCEPT ![p] = "writing"] /\ UNCHANGED queue

\* sendall, as far as the connection takes it: the greenlet gives up control
\* only when something is left.
Write(p, n) ==
    LET w == Least(n, Capacity - data[p]) IN
    /\ data' = [data EXCEPT ![p] = @ + w] /\ left' = [left EXCEPT ![p] = n - w]
    /\ safe_to_read' = [safe_to_read EXCEPT ![p] = w = n]
    /\ IF w = n
       THEN /\ queue' = [queue EXCEPT ![p] = Tail(@)]
            /\ sender' = [sender EXCEPT ![p] = IF life[p] = "running" THEN "idle" ELSE "gone"]
       ELSE sender' = [sender EXCEPT ![p] = "writing"] /\ UNCHANGED queue

\* A sender that waited in get() may still send when is_stopped is set.
SendBegins(p) ==
    /\ life[p] # "stopped" /\ sender[p] = "idle" /\ queue[p] # <<>>
    /\ Write(p, Head(queue[p]))
    /\ UNCHANGED <<ingress, life, upload, sent, stops>>

SendContinues(p) ==
    /\ sender[p] = "writing" /\ data[p] < Capacity
    /\ Write(p, left[p])
    /\ UNCHANGED <<ingress, life, upload, sent, stops>>

\* Mutant: the timeout is for the dialling only.
Timeout_Never(p) == FALSE

\* The socket of create_connection keeps the timeout of the dialling.
Timeout(p) == HasDialled(p)

\* Mutant: the early return of a second stop() also skips the event.
SendFails_NoSet(p) ==
    /\ sender[p] = "writing" /\ (Timeout(p) \/ life[Remote(p)] = "stopped")
    /\ left' = [left EXCEPT ![p] = 0]
    /\ IF life[p] = "running"
       THEN /\ life' = [life EXCEPT ![p] = "stopping"] /\ sender' = [sender EXCEPT ![p] = "failing"]
            /\ UNCHANGED safe_to_read
       ELSE sender' = [sender EXCEPT ![p] = "gone"] /\ UNCHANGED <<safe_to_read, life>>
    /\ UNCHANGED <<queue, ingress, data, upload, sent, stops>>

\* A timeout or a write error: the sender calls stop(), which returns at once
\* if the peer is being stopped already, and sets the event afterwards.
SendFails(p) ==
    /\ sender[p] = "writing" /\ (Timeout(p) \/ life[Remote(p)] = "stopped")
    /\ left' = [left EXCEPT ![p] = 0]
    /\ IF life[p] = "running"
       THEN /\ life' = [life EXCEPT ![p] = "stopping"] /\ sender' = [sender EXCEPT ![p] = "failing"]
            /\ UNCHANGED safe_to_read
       ELSE /\ safe_to_read' = [safe_to_read EXCEPT ![p] = TRUE]
            /\ sender' = [sender EXCEPT ![p] = "gone"] /\ UNCHANGED life
    /\ UNCHANGED <<queue, ingress, data, upload, sent, stops>>

-----------------------------------------------------------------------------
(* The ingress greenlet *)

AfterLoop(p) == IF life[p] # "running" THEN "gone" ELSE IF safe_to_read[p] THEN "data" ELSE "event"

EventSet(p) ==
    /\ life[p] # "stopped" /\ ingress[p] = "event" /\ safe_to_read[p]
    /\ ingress' = [ingress EXCEPT ![p] = "data"]
    /\ UNCHANGED <<queue, sender, left, safe_to_read, data, life, upload, sent, stops>>

\* One recv; the event is looked at before the wait for data, not after it.
Read(p) ==
    /\ life[p] # "stopped" /\ ingress[p] = "data" /\ data[Remote(p)] > 0
    /\ data' = [data EXCEPT ![Remote(p)] = @ - 1]
    /\ ingress' = [ingress EXCEPT ![p] = AfterLoop(p)]
    /\ UNCHANGED <<queue, sender, left, safe_to_read, life, upload, sent, stops>>

-----------------------------------------------------------------------------
(* stop() *)

\* Called by another greenlet than the sender.
PeerStopBegins(p) ==
    /\ life[p] = "running"
    /\ IF life[Remote(p)] = "stopped" THEN UNCHANGED stops
       ELSE stops < MaxStops /\ stops' = stops + 1
    /\ life' = [life EXCEPT ![p] = "stopping"]
    /\ UNCHANGED <<queue, sender, left, safe_to_read, ingress, data, upload, sent>>

\* The greenlets are dead, the protocols gone and the peer out of the list.  A
\* sender killed in the middle of sendall sets nothing.
PeerStopEnds(p) ==
    /\ life[p] = "stopping" /\ life' = [life EXCEPT ![p] = "stopped"]
    /\ safe_to_read' = [safe_to_read EXCEPT ![p] = @ \/ sender[p] = "failing"]
    /\ sender' = [sender EXCEPT ![p] = "gone"] /\ left' = [left EXCEPT ![p] = 0]
    /\ queue' = [queue EXCEPT ![p] = <<>>] /\ ingress' = [ingress EXCEPT ![p] = "gone"]
    /\ UNCHANGED <<data, upload, sent, stops>>

-----------------------------------------------------------------------------
(* PeerManager.broadcast *)

\* The loop up to the first event that is not set, where it waits, or the first
\* stopped peer, which has no protocols: sending to it raises.
Upload(s) ==
    LET halts == {i \in DOMAIN s : life[s[i]] = "stopped" \/ ~ safe_to_read[s[i]]}
        k == IF halts = {} THEN Len(s) + 1 ELSE CHOOSE i \in halts : \A j \in halts : i <= j
        reached == {s[i] : i \in 1 .. Least(k, Len(s))}
        raises == k \in DOMAIN s /\ life[s[k]] = "stopped"
    IN  /\ \E n \in Sizes :
              queue' = [p \in Peers |-> IF p \in reached /\ life[p] # "stopped"
                                        THEN Append(queue[p], n)
                                        ELSE queue[p]]
        /\ sample' = IF raises THEN <<>> ELSE SubSeq(s, k + 1, Len(s))
        /\ waiting' = IF k \in DOMAIN s /\ ~ raises THEN s[k] ELSE NoPeer
        /\ result' = IF raises THEN "raised" ELSE IF k \in DOMAIN s THEN "none" ELSE "done"

\* random.sample of the peers in the list, in any order.
Broadcast ==
    /\ result = "none" /\ waiting = NoPeer
    /\ \E s \in SetToAllKPermutations({p \in Mine : life[p] # "stopped"}) : s # <<>> /\ Upload(s)
    /\ UNCHANGED <<sender, left, safe_to_read, ingress, data, life, sent, stops>>

Resume ==
    /\ waiting # NoPeer /\ safe_to_read[waiting]
    /\ Upload(sample)
    /\ UNCHANGED <<sender, left, safe_to_read, ingress, data, life, sent, stops>>

-----------------------------------------------------------------------------
FlowNext ==
    \/ \E p \in Peers : \/ SendPacket(p) \/ EventSet(p) \/ Read(p) \/ PeerStopBegins(p)
                        \/ SendBegins(p) \/ SendContinues(p) \/ SendFails(p) \/ PeerStopEnds(p)
    \/ Broadcast \/ Resume

FlowFairness ==
    /\ \A p \in Peers : /\ WF_flow_vars(SendBegins(p) \/ SendContinues(p)) /\ WF_flow_vars(SendFails(p))
                        /\ WF_flow_vars(EventSet(p)) /\ WF_flow_vars(Read(p)) /\ WF_flow_vars(PeerStopEnds(p))
    /\ WF_flow_vars(Resume)

FlowSpec == FlowInit /\ [][FlowNext]_flow_vars /\ FlowFairness

-----------------------------------------------------------------------------
(* safe_to_read is cleared for no longer than a write lasts, whoever stops *)
(* the peer meanwhile: at a peer that is not yet stopped a cleared event   *)
(* has a sender that will set it.                                          *)
EventRestored ==
    \A p \in Peers : life[p] # "stopped" /\ ~ safe_to_read[p] => sender[p] \in {"writing", "failing"}

(* Both ends may fill the connection at once, and neither reads while it   *)
(* writes; the timeout that is left on the dialled socket makes one of     *)
(* them give up, and no write blocks for ever.                             *)
WritesEnd == \A p \in Peers : (sender[p] = "writing") ~> (sender[p] # "writing")

(* broadcast gets past every event it waits for, unless the sender of that *)
(* peer was killed in the middle of a write.                               *)
BroadcastEnds ==
    (waiting # NoPeer) ~> (waiting = NoPeer \/ (life[waiting] = "stopped" /\ ~ safe_to_read[waiting]))
===============================================================================
