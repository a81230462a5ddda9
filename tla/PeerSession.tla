------------------------------ MODULE PeerSession ------------------------------
(***************************************************************************)
(* The two ends of one established session, each a Peer (devp2p/peer.py)   *)
(* with its P2PProtocol and connection monitor (devp2p/p2p_protocol.py)    *)
(* and the protocols of the services both nodes offer                      *)
(* (devp2p/protocol.py): the hello exchange, the dispatch of packets by    *)
(* command offset or protocol id, the ping monitor, deferred disconnects   *)
(* and the stop of a peer, which gives up control while it kills the       *)
(* greenlets of the peer.  The owner's decision on a hello is free here;   *)
(* PeerManager makes it.                                                   *)
(***************************************************************************)
EXTENDS Integers, Sequences, FiniteSets, SequencesExt

CONSTANTS Services,   \* the services of both nodes, in the order of their names
          MaxCmd,     \* max_cmd_id of the protocol of each service
          Offers,     \* what the two nodes may offer: for each end a sequence of
                      \* [name, version] in registration order
          Threshold,  \* response_delay_threshold, in ping intervals
          MaxSent(_), \* bound: packets the services send, by what is offered
          MaxWire     \* bound: packets one way for time to pass

Ends == {"dialler", "listener"}

ASSUME PeerAssumption ==
    /\ Services \subseteq Nat \ {0} /\ IsFiniteSet(Services)
    /\ MaxCmd \in [Services -> Nat]
    /\ Offers \subseteq [Ends -> Seq([name : Services, version : Nat])]
    /\ Threshold \in Nat /\ MaxWire \in Nat
    /\ \A o \in Offers : MaxSent(o) \in Nat

Other(e) == IF e = "dialler" THEN "listener" ELSE "dialler"

P2P == 0
Hello == 0
Disconnect == 1
Ping == 2
Pong == 3
MaxCmdId(p) == IF p = P2P THEN 15 ELSE MaxCmd[p]

compatible_p2p_version == 5

VARIABLES offer,           \* offer[e]: the services of e, in registration order
          version,         \* the p2p version of both ends
          myself,          \* the dialler reached its own node
          life,            \* life[e]: running, or how far stop() is
          hello_received,
          offset_based_dispatch,
          protocols,       \* protocols[e]: the OrderedDict, P2P first
          deferred,        \* deferred[e]: a stop is due in half a second
          monitor,         \* monitor[e]: on, and the age of ping and last pong
          wire,            \* wire[e]: packets from e not yet handled
          sent,            \* packets sent by services
          starts, stops,   \* history: services told of a start, of stops
          errors,          \* history: errors[e][p]: ProtocolErrors of p so far
          hung             \* hung[e]: the process of e no longer runs

vars == <<offer, version, myself, life, hello_received, offset_based_dispatch, protocols,
          deferred, monitor, wire, sent, starts, stops, errors, hung>>

config == <<offer, version, myself>>
history == <<starts, stops, errors>>

-----------------------------------------------------------------------------
(* Dispatch *)

Before(ps, p) == SelectInSeq(ps, LAMBDA q : q = p) - 1

\* send_packet: cmd_id is moved behind the commands of the earlier protocols.
SendOffset(ps, p) ==
    LET Space(q) == IF MaxCmdId(q) = 0 THEN 0 ELSE MaxCmdId(q) + 1
        offset[i \in 0 .. Len(ps)] == IF i = 0 THEN 0 ELSE offset[i - 1] + Space(ps[i])
    IN  offset[Before(ps, p)]

\* The packet that protocol p sends, with where it came from.
send_packet(ps, by_offset, p, c) ==
    [proto |-> p, cmd |-> c,
     protocol_id |-> IF by_offset THEN P2P ELSE p,
     cmd_id |-> IF by_offset THEN c + SendOffset(ps, p) ELSE c]

RecvOffset(ps, i) ==
    LET offset[k \in 0 .. Len(ps)] == IF k = 0 THEN 0 ELSE offset[k - 1] + (MaxCmdId(ps[k]) + 1)
    IN  offset[i - 1]

Unknown == [proto |-> -1, cmd |-> -1]

\* protocol_cmd_id_from_packet: the protocol and command a packet is taken for.
protocol_cmd_id_from_packet(ps, by_offset, pk) ==
    LET fits == {i \in DOMAIN ps :
                    IF by_offset THEN pk.cmd_id < RecvOffset(ps, i) + MaxCmdId(ps[i]) + 1
                    ELSE pk.protocol_id = ps[i]}
        first == CHOOSE i \in fits : \A j \in fits : i <= j
    IN  IF fits = {} THEN Unknown
        ELSE [proto |-> ps[first],
              cmd |-> pk.cmd_id - (IF by_offset THEN RecvOffset(ps, first) ELSE 0)]

\* Mutant: services are connected in the order they were registered in.
Common_Unsorted(mine, theirs) ==
    LET common == SelectSeq(mine, LAMBDA s : s \in ToSet(theirs))
    IN  [i \in DOMAIN common |-> common[i].name]

\* receive_hello: the services whose protocol and version the remote offers too,
\* sorted by name: the i-th name has i - 1 before it.
Common(mine, theirs) ==
    LET names == {s.name : s \in ToSet(mine) \cap ToSet(theirs)}
    IN  [i \in 1 .. Cardinality(names) |->
            CHOOSE n \in names : Cardinality({m \in names : m < n}) = i - 1]

-----------------------------------------------------------------------------
Init ==
    /\ offer \in Offers
    /\ version \in {compatible_p2p_version - 1, compatible_p2p_version + 1}
    /\ myself \in BOOLEAN
    /\ life = [e \in Ends |-> "running"]
    /\ hello_received = [e \in Ends |-> FALSE]
    /\ offset_based_dispatch = [e \in Ends |-> FALSE]
    /\ protocols = [e \in Ends |-> <<P2P>>]
    /\ deferred = [e \in Ends |-> FALSE]
    /\ monitor = [e \in Ends |-> [on |-> FALSE, ping |-> 0, pong |-> 0]]
    /\ wire = [e \in Ends |-> <<send_packet(<<P2P>>, FALSE, P2P, Hello)>>]
    /\ sent = 0
    /\ starts = [e \in Ends |-> {P2P}]
    /\ stops = [e \in Ends |-> [p \in Services \cup {P2P} |-> 0]]
    /\ errors = [e \in Ends |-> [p \in Services |-> 0]]
    /\ hung = [e \in Ends |-> FALSE]

Control(e, c) == send_packet(protocols[e], offset_based_dispatch[e], P2P, c)

\* What e sends is lost once the other end is stopped.
Sends(w, e, pks) == [w EXCEPT ![e] = IF life[Other(e)] = "stopped" THEN <<>> ELSE @ \o pks]

-----------------------------------------------------------------------------
(* stop() *)

\* A second call returns at once.  The decoder greenlet is killed first, and may
\* handle one more packet meanwhile, unless it is the caller: the exception it
\* throws at itself is caught.
Stopping(e, by_decoder) ==
    life' = [life EXCEPT ![e] = IF by_decoder /\ @ # "stopped" THEN "kill sender"
                                ELSE IF @ = "running" THEN "kill decoder" ELSE @]

KillDecoder(e) ==
    /\ life[e] = "kill decoder" /\ ~ hung[e]
    /\ life' = [life EXCEPT ![e] = "kill sender"]
    /\ UNCHANGED <<config, hello_received, offset_based_dispatch, protocols, deferred, monitor,
                   wire, sent, history, hung>>

\* Mutant: protocols leave the list while it is iterated.
Finish_EveryOther(e) ==
    /\ life[e] = "kill sender" /\ ~ hung[e]
    /\ life' = [life EXCEPT ![e] = "stopped"]
    /\ \E k \in 0 .. Len(wire[e]) :
          wire' = [wire EXCEPT ![e] = SubSeq(@, 1, k), ![Other(e)] = <<>>]
    /\ stops' = [stops EXCEPT ![e] = [p \in DOMAIN @ |->
            IF \E i \in DOMAIN protocols[e] : i % 2 = 1 /\ protocols[e][i] = p
            THEN @[p] + 1 ELSE @[p]]]
    /\ protocols' = [protocols EXCEPT ![e] = <<>>]
    /\ monitor' = [monitor EXCEPT ![e].on = FALSE]
    /\ UNCHANGED <<config, hello_received, offset_based_dispatch, deferred, sent, starts, errors, hung>>

\* The sender is killed with what it had not sent; every protocol is stopped, the
\* monitor with P2P; protocols = None; the peer leaves the owner's list.
Finish(e) ==
    /\ life[e] = "kill sender" /\ ~ hung[e]
    /\ life' = [life EXCEPT ![e] = "stopped"]
    /\ \E k \in 0 .. Len(wire[e]) :
          wire' = [wire EXCEPT ![e] = SubSeq(@, 1, k), ![Other(e)] = <<>>]
    /\ stops' = [stops EXCEPT ![e] = [p \in DOMAIN @ |->
            IF p \in ToSet(protocols[e]) THEN @[p] + 1 ELSE @[p]]]
    /\ protocols' = [protocols EXCEPT ![e] = <<>>]
    /\ monitor' = [monitor EXCEPT ![e].on = FALSE]
    /\ UNCHANGED <<config, hello_received, offset_based_dispatch, deferred, sent, starts, errors, hung>>

-----------------------------------------------------------------------------
(* The decoder: _handle_packet *)

\* Unless the dialled node is this one: the dispatch mode is set, the owner is
\* asked, common services are connected, and the monitor starts and pings -
\* also when the hello was refused.
HandleHello(e) ==
    LET by_offset == version <= compatible_p2p_version
        Bye == send_packet(protocols[e], by_offset, P2P, Disconnect)
        PingOut == send_packet(protocols[e], by_offset, P2P, Ping)
    IN  IF myself
        THEN /\ deferred' = [deferred EXCEPT ![e] = TRUE]
             /\ wire' = Sends([wire EXCEPT ![Other(e)] = Tail(@)], e, <<Control(e, Disconnect)>>)
             /\ UNCHANGED <<hello_received, offset_based_dispatch, protocols, monitor, starts>>
        ELSE \E agree \in BOOLEAN :
             /\ hello_received' = [hello_received EXCEPT ![e] = TRUE]
             /\ offset_based_dispatch' = [offset_based_dispatch EXCEPT ![e] = by_offset]
             /\ deferred' = [deferred EXCEPT ![e] = @ \/ ~ by_offset \/ ~ agree]
             /\ LET common == IF agree THEN Common(offer[e], offer[Other(e)]) ELSE <<>>
                IN  /\ protocols' = [protocols EXCEPT ![e] = @ \o common]
                    /\ starts' = [starts EXCEPT ![e] = @ \cup ToSet(common)]
             /\ monitor' = [monitor EXCEPT ![e].on = TRUE, ![e].ping = 0]
             /\ wire' = Sends([wire EXCEPT ![Other(e)] = Tail(@)], e,
                    (IF by_offset THEN <<>> ELSE <<Bye>>) \o (IF agree THEN <<>> ELSE <<Bye>>) \o <<PingOut>>)

\* The handler of the command the packet is taken for.  A command of a service
\* may raise: a ProtocolError stops its protocol, anything else the peer.  A
\* stopped protocol stays in the list and goes on receiving, and every further
\* ProtocolError stops it again.
_handle_packet(e) ==
    LET pk == Head(wire[Other(e)])
        to == protocol_cmd_id_from_packet(protocols[e], offset_based_dispatch[e], pk)
        Popped == [wire EXCEPT ![Other(e)] = Tail(@)]
        Is(c) == to.proto = P2P /\ to.cmd = c
        After == life' = [life EXCEPT ![e] = IF @ = "kill decoder" THEN "kill sender" ELSE @]
        Quiet == UNCHANGED <<hello_received, offset_based_dispatch, protocols, deferred, starts>>
    IN  /\ wire[Other(e)] # <<>> /\ ~ hung[e] /\ life[e] \in {"running", "kill decoder"}
        /\ \/ Is(Hello) /\ HandleHello(e) /\ After /\ UNCHANGED <<stops, errors>>
           \/ Is(Disconnect) /\ wire' = Popped /\ Quiet /\ Stopping(e, TRUE)
              /\ UNCHANGED <<monitor, stops, errors>>
           \/ Is(Ping) /\ wire' = Sends(Popped, e, <<Control(e, Pong)>>) /\ Quiet /\ After
              /\ UNCHANGED <<monitor, stops, errors>>
           \/ Is(Pong) /\ monitor' = [monitor EXCEPT ![e].pong = 0] /\ wire' = Popped
              /\ Quiet /\ After /\ UNCHANGED <<stops, errors>>
           \/ to.proto # P2P /\ wire' = Popped /\ Quiet /\ After /\ UNCHANGED <<monitor, stops, errors>>
           \/ to.proto \in Services /\ wire' = Popped /\ Quiet /\ After /\ UNCHANGED monitor
              /\ stops' = [stops EXCEPT ![e][to.proto] = @ + 1]
              /\ errors' = [errors EXCEPT ![e][to.proto] = @ + 1]
           \/ to.proto \in Services /\ wire' = Popped /\ Quiet /\ Stopping(e, TRUE)
              /\ UNCHANGED <<monitor, stops, errors>>
        /\ UNCHANGED <<config, sent, hung>>

-----------------------------------------------------------------------------
(* The other greenlets *)

Runs(e) == life[e] = "running" /\ ~ hung[e]
Calm == UNCHANGED <<config, hello_received, offset_based_dispatch, protocols, history, hung>>

\* A service sends one of its commands; an open session loses nothing.
Send(e) ==
    /\ Runs(e) /\ sent < MaxSent(offer)
    /\ \E p \in ToSet(protocols[e]) \ {P2P} : \E c \in {0, MaxCmd[p]} :
          wire' = Sends(wire, e, <<send_packet(protocols[e], offset_based_dispatch[e], p, c)>>)
    /\ sent' = sent + 1
    /\ Calm /\ UNCHANGED <<life, deferred, monitor>>

\* stop() by the owner, on a write error once the other end is gone, half a
\* second after a disconnect was sent, or after ten seconds without a hello.
Quit(e) ==
    /\ Runs(e) /\ Stopping(e, FALSE)
    /\ Calm /\ UNCHANGED <<deferred, monitor, wire, sent>>

DeferredStop(e) ==
    /\ deferred[e] /\ ~ hung[e]
    /\ deferred' = [deferred EXCEPT ![e] = FALSE]
    /\ Stopping(e, FALSE)
    /\ Calm /\ UNCHANGED <<monitor, wire, sent>>

\* Mutant: a peer that never said hello is kept.
check_if_dumb_remote_Kept(e) ==
    /\ Runs(e) /\ hello_received[e] /\ ~ monitor[e].on /\ Stopping(e, FALSE)
    /\ Calm /\ UNCHANGED <<deferred, monitor, wire, sent>>

check_if_dumb_remote(e) ==
    /\ Runs(e) /\ ~ hello_received[e] /\ Stopping(e, FALSE)
    /\ Calm /\ UNCHANGED <<deferred, monitor, wire, sent>>

\* Mutant: the response is compared with the time of the check's own ping.
MonitorWakes_LastResponse(e) ==
    /\ Runs(e) /\ monitor[e].on /\ monitor[e].ping = 1
    /\ IF monitor[e].pong - 2 > Threshold
       THEN /\ monitor' = [monitor EXCEPT ![e].on = FALSE] /\ Stopping(e, FALSE) /\ UNCHANGED wire
       ELSE /\ monitor' = [monitor EXCEPT ![e].ping = 0]
            /\ wire' = Sends(wire, e, <<Control(e, Ping)>>) /\ UNCHANGED life
    /\ Calm /\ UNCHANGED <<deferred, sent>>

\* The monitor slept for ping_interval: if the last pong was too old when it
\* pinged, it dies and its exit stops the peer; else it pings again.
MonitorWakes(e) ==
    /\ Runs(e) /\ monitor[e].on /\ monitor[e].ping = 1
    /\ IF monitor[e].pong - monitor[e].ping > Threshold
       THEN /\ monitor' = [monitor EXCEPT ![e].on = FALSE] /\ Stopping(e, FALSE) /\ UNCHANGED wire
       ELSE /\ monitor' = [monitor EXCEPT ![e].ping = 0]
            /\ wire' = Sends(wire, e, <<Control(e, Ping)>>) /\ UNCHANGED life
    /\ Calm /\ UNCHANGED <<deferred, sent>>

\* A ping interval passes: shorter timers have fired and stop() has finished.
Tick ==
    /\ \E e \in Ends : Runs(e)
    /\ \A e \in Ends : ~ hung[e] /\ life[e] # "stopped" =>
          Runs(e) /\ hello_received[e] /\ ~ deferred[e] /\ monitor[e].ping = 0
    /\ \A e \in Ends : Len(wire[e]) <= MaxWire \/ ~ Runs(Other(e))
    /\ monitor' = [e \in Ends |-> IF Runs(e) /\ monitor[e].on
            THEN [monitor[e] EXCEPT !.ping = @ + 1, !.pong = @ + 1] ELSE monitor[e]]
    /\ UNCHANGED <<config, life, hello_received, offset_based_dispatch, protocols, deferred,
                   wire, sent, history, hung>>

\* The process of e hangs, or the network between the two fails silently.
Hang(e) ==
    /\ \A f \in Ends : ~ hung[f]
    /\ life[e] = "running"
    /\ hung' = [hung EXCEPT ![e] = TRUE]
    /\ UNCHANGED <<config, life, hello_received, offset_based_dispatch, protocols, deferred,
                   monitor, wire, sent, history>>

Next ==
    \/ \E e \in Ends : \/ _handle_packet(e) \/ KillDecoder(e) \/ Finish(e) \/ Send(e) \/ Quit(e)
                       \/ DeferredStop(e) \/ check_if_dumb_remote(e) \/ MonitorWakes(e) \/ Hang(e)
    \/ Tick

CanHandle(e) == wire[Other(e)] # <<>> /\ ~ hung[e] /\ life[e] \in {"running", "kill decoder"}

\* Greenlets run when they are due, packets sent arrive or are lost with the
\* connection, and time passes.  The first conjunct is WF_vars(_handle_packet(e)).
Fairness ==
    /\ \A e \in Ends : []<>(~ CanHandle(e)) \/ []<><<_handle_packet(e)>>_vars
    /\ WF_vars(Tick)
    /\ \A e \in Ends : /\ WF_vars(KillDecoder(e)) /\ WF_vars(Finish(e)) /\ WF_vars(DeferredStop(e))
                       /\ WF_vars(MonitorWakes(e)) /\ WF_vars(check_if_dumb_remote(e))

Spec == Init /\ [][Next]_vars /\ Fairness

-----------------------------------------------------------------------------
(* A packet is handed to the protocol that sent it, as the command it was  *)
(* sent as, or to none: both ends number the commands of the protocols they *)
(* share alike, whatever order their services were registered in.          *)
RightProtocol ==
    \A e \in Ends : \A i \in DOMAIN wire[Other(e)] :
        LET pk == wire[Other(e)][i]
            to == protocol_cmd_id_from_packet(protocols[e], offset_based_dispatch[e], pk)
        IN  hello_received[e] /\ life[e] # "stopped" =>
            to \in {[proto |-> pk.proto, cmd |-> pk.cmd], Unknown}

(* Whoever stops a peer, and whatever its decoder handles meanwhile, a     *)
(* hello among them: every service that was told of a start by then is     *)
(* told of the peer's stop exactly once, nobody is told of a start later,  *)
(* and nobody else is told.  Beyond that a service is told of a stop once  *)
(* for every ProtocolError, also of a protocol that was stopped before.    *)
EachStartStopped ==
    \A e \in Ends : life[e] = "stopped" =>
        /\ \A p \in Services : stops[e][p] = IF p \in starts[e] THEN 1 + errors[e][p] ELSE 0
        /\ stops[e][P2P] = 1

(* A remote that does not answer is given up at most two intervals after   *)
(* the threshold.                                                          *)
SilenceEnds ==
    \A e \in Ends : Runs(e) => monitor[e].pong <= Threshold + 2

(* When one end stops or hangs, so does the other, sooner or later: again  *)
(* and again both have or neither, and nobody comes back.                  *)
NoHalfOpen ==
    []<>(\A e \in Ends : life[e] = "stopped" \/ hung[e]
                          => life[Other(e)] = "stopped" \/ hung[Other(e)])
=============================================================================
