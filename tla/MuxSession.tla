------------------------------ MODULE MuxSession ------------------------------
(***************************************************************************)
(* The two ends of a connection, each a MultiplexedSession                 *)
(* (devp2p/muxsession.py) over an RLPxSession (devp2p/rlpxcipher.py): the  *)
(* auth/ack handshake, the secrets each end derives, and the encrypted     *)
(* frames that follow.  Cryptography is symbolic: a ciphertext is a record *)
(* only its addressee opens, a mac is the key and the number of frames it  *)
(* was fed.  TCP cuts every message in two segments and a read returns any *)
(* number of segments, so messages arrive in pieces and run together.      *)
(***************************************************************************)
EXTENDS Integers, Sequences

CONSTANTS MaxPackets,  \* bound: packets each end sends after its hello
          MaxRead      \* bound: segments of one read

ASSUME SessionAssumption == MaxPackets \in Nat /\ MaxRead \in Nat \ {0}

Ends == {"initiator", "responder"}
Other(s) == IF s = "initiator" THEN "responder" ELSE "initiator"

VARIABLES dialled,        \* the public key the initiator wants to reach
          eip8,           \* the handshake is in the EIP-8 format: this code decodes
                          \* it, but only another client starts it
          session,        \* session[s]: what the RLPxSession of s knows
          message_queue,  \* egress messages of each end
          wire,           \* wire[s]: segments s wrote that are not yet read
          decoding,       \* a frame's header is decrypted, its body awaited
          packet_queue,   \* packets each end has received
          sent,           \* packets each end has sent after its hello
          cut             \* history: why a handshake message was not readable

vars == <<dialled, eip8, session, message_queue, wire, decoding, packet_queue, sent, cut>>

-----------------------------------------------------------------------------
(* RLPxSession *)

\* create_auth_message and encrypt_auth_message: signed with the ephemeral key,
\* readable by the dialled node.
create_auth(to, v8) ==
    [type |-> "auth", eip8 |-> v8, to |-> to, pubkey |-> "initiator",
     ephemeral |-> "eph-initiator", nonce |-> "nonce-initiator"]

\* The ack is in the format of the auth it answers.
create_auth_ack(auth) ==
    [type |-> "ack", eip8 |-> auth.eip8, to |-> auth.pubkey,
     ephemeral |-> "eph-responder", nonce |-> "nonce-responder"]

Ephemeral(s) == IF s = "initiator" THEN "eph-initiator" ELSE "eph-responder"

\* Mutant: both ends take the same mac for what they send.
setup_cipher_NoSwap(s, remote_ephemeral, nonceI, nonceR, auth, ack) ==
    LET secret == [ecdhe |-> {Ephemeral(s), remote_ephemeral}, nonces |-> <<nonceR, nonceI>>]
    IN  [egress |-> <<secret, nonceR, auth>>, ingress |-> <<secret, nonceI, ack>>]

\* The secrets: the ephemeral agreement, both nonces, and for each direction a
\* mac that starts from the other side's nonce and the handshake message sent.
setup_cipher(s, remote_ephemeral, nonceI, nonceR, auth, ack) ==
    LET secret == [ecdhe |-> {Ephemeral(s), remote_ephemeral}, nonces |-> <<nonceR, nonceI>>]
        mac1 == <<secret, nonceR, auth>>
        mac2 == <<secret, nonceI, ack>>
    IN  IF s = "initiator" THEN [egress |-> mac1, ingress |-> mac2]
        ELSE [egress |-> mac2, ingress |-> mac1]

Fresh == [state |-> "handshake", keys |-> [egress |-> <<>>, ingress |-> <<>>],
          remote_pubkey |-> "unknown", out |-> 0, in |-> 0]

-----------------------------------------------------------------------------
(* Messages and segments *)

Segments(m) == <<[msg |-> m, part |-> 1], [msg |-> m, part |-> 2]>>

Hello == 0   \* the hello packet; the packets sent after it are 1, 2, ...

\* encrypt: the mac covers all frames so far.  add_packet pops every frame of
\* the one packet, so the frames leave in the order of the packets.
Frame(ss, packet) ==
    [type |-> "frame", key |-> ss.keys.egress, count |-> ss.out, packet |-> packet]

\* A handshake message can be read only if the first read returns all of it;
\* a longer one is split, except that an EIP-8 ack must come alone.
Whole(segs, type) ==
    /\ Len(segs) >= 2 /\ segs[1].msg.type = type /\ segs[2].part = 2
    /\ ~ (type = "ack" /\ segs[1].msg.eip8 /\ Len(segs) > 2)

\* Mutant: the packet is delivered with its header and again with its body.
DecodeSegment_Twice(d, seg) ==
    IF d.ss.state = "failed" THEN d
    ELSE IF seg.msg.type # "frame" \/ seg.msg.key # d.ss.keys.ingress \/ seg.msg.count # d.ss.in
    THEN [d EXCEPT !.ss.state = "failed"]
    ELSE IF seg.part = 1 THEN [d EXCEPT !.open = TRUE, !.got = Append(@, seg.msg.packet)]
    ELSE [ss |-> [d.ss EXCEPT !.in = @ + 1], open |-> FALSE, got |-> Append(d.got, seg.msg.packet)]

\* decode: d is [ss, open, got], advanced by one segment of the stream.
DecodeSegment(d, seg) ==
    IF d.ss.state = "failed" THEN d
    ELSE IF seg.msg.type # "frame" \/ seg.msg.key # d.ss.keys.ingress \/ seg.msg.count # d.ss.in
    THEN [d EXCEPT !.ss.state = "failed"]
    ELSE IF seg.part = 1 THEN [d EXCEPT !.open = TRUE]
    ELSE [ss |-> [d.ss EXCEPT !.in = @ + 1], open |-> FALSE, got |-> Append(d.got, seg.msg.packet)]

Decode(ss, open, segs) ==
    LET d[i \in 0 .. Len(segs)] ==
            IF i = 0 THEN [ss |-> ss, open |-> open, got |-> <<>>]
            ELSE DecodeSegment(d[i - 1], segs[i])
    IN  d[Len(segs)]

-----------------------------------------------------------------------------
Init ==
    /\ dialled \in {"responder", "another"}
    /\ eip8 \in BOOLEAN
    /\ session = [s \in Ends |-> Fresh]
    /\ message_queue = [s \in Ends |-> IF s = "initiator" THEN <<create_auth(dialled, eip8)>> ELSE <<>>]
    /\ wire = [s \in Ends |-> <<>>]
    /\ decoding = [s \in Ends |-> FALSE]
    /\ packet_queue = [s \in Ends |-> <<>>]
    /\ sent = [s \in Ends |-> 0]
    /\ cut = {}

\* The egress greenlet of the peer writes one message to the socket.
Egress(s) ==
    /\ message_queue[s] # <<>> /\ session[s].state # "failed"
    /\ message_queue' = [message_queue EXCEPT ![s] = Tail(@)]
    /\ wire' = [wire EXCEPT ![s] = @ \o Segments(Head(message_queue[s]))]
    /\ UNCHANGED <<dialled, eip8, session, decoding, packet_queue, sent, cut>>

\* add_packet: only after the handshake.
add_packet(s) ==
    /\ session[s].state = "ready" /\ sent[s] < MaxPackets
    /\ sent' = [sent EXCEPT ![s] = @ + 1]
    /\ message_queue' = [message_queue EXCEPT ![s] = Append(@, Frame(session[s], sent[s] + 1))]
    /\ session' = [session EXCEPT ![s].out = @ + 1]
    /\ UNCHANGED <<dialled, eip8, wire, decoding, packet_queue, cut>>

\* Mutant: what the read held behind the handshake message is dropped.
Complete_DropRest(s, ready, rest, first) ==
    /\ session' = [session EXCEPT ![s] = [ready EXCEPT !.out = 1]]
    /\ message_queue' = [message_queue EXCEPT ![s] = @ \o first \o <<Frame(ready, Hello)>>]
    /\ UNCHANGED <<decoding, packet_queue, cut>>

\* Mutant: the hello is left out when packets came with the handshake message.
Complete_NoHello(s, ready, rest, first) ==
    LET d == Decode(ready, FALSE, rest)
        ok == d.ss.state = "ready" /\ rest = <<>>
    IN  /\ session' = [session EXCEPT ![s] = IF ok THEN [d.ss EXCEPT !.out = 1] ELSE d.ss]
        /\ decoding' = [decoding EXCEPT ![s] = d.open]
        /\ packet_queue' = [packet_queue EXCEPT ![s] = @ \o d.got]
        /\ message_queue' = [message_queue EXCEPT
                ![s] = @ \o first \o (IF ok THEN <<Frame(d.ss, Hello)>> ELSE <<>>)]
        /\ UNCHANGED cut

\* The handshake ends with session `ready' of s: the rest of the read is
\* decoded, then the hello is queued behind `first'.
Complete(s, ready, rest, first) ==
    LET d == Decode(ready, FALSE, rest)
        ok == d.ss.state = "ready"
    IN  /\ session' = [session EXCEPT ![s] = IF ok THEN [d.ss EXCEPT !.out = 1] ELSE d.ss]
        /\ decoding' = [decoding EXCEPT ![s] = d.open]
        /\ packet_queue' = [packet_queue EXCEPT ![s] = @ \o d.got]
        /\ message_queue' = [message_queue EXCEPT
                ![s] = @ \o first \o (IF ok THEN <<Frame(d.ss, Hello)>> ELSE <<>>)]
        /\ UNCHANGED cut

Fails(s, why) ==
    /\ session' = [session EXCEPT ![s].state = "failed"]
    /\ cut' = cut \cup why
    /\ UNCHANGED <<message_queue, decoding, packet_queue>>

\* _add_message_during_handshake of the responder: the auth must be whole and
\* addressed to this node.
decode_authentication(segs) ==
    LET auth == segs[1].msg
        ack == create_auth_ack(auth)
        ready == [Fresh EXCEPT !.state = "ready", !.remote_pubkey = auth.pubkey,
            !.keys = setup_cipher("responder", auth.ephemeral, auth.nonce, ack.nonce, auth, ack)]
    IN  IF ~ Whole(segs, "auth") THEN Fails("responder", {"auth cut"})
        ELSE IF auth.to # "responder" THEN Fails("responder", {})
        ELSE Complete("responder", ready, SubSeq(segs, 3, Len(segs)), <<ack>>)

\* _add_message_during_handshake of the initiator.
decode_auth_ack_message(segs) ==
    LET ack == segs[1].msg
        auth == create_auth(dialled, eip8)
        ready == [Fresh EXCEPT !.state = "ready", !.remote_pubkey = dialled,
            !.keys = setup_cipher("initiator", ack.ephemeral, auth.nonce, ack.nonce, auth, ack)]
    IN  IF ~ Whole(segs, "ack") THEN Fails("initiator", {IF eip8 THEN "eip8 ack not alone" ELSE "ack cut"})
        ELSE IF ack.to # "initiator" THEN Fails("initiator", {})
        ELSE Complete("initiator", ready, SubSeq(segs, 3, Len(segs)), <<>>)

\* _add_message_post_handshake.
post_handshake(s, segs) ==
    LET d == Decode(session[s], decoding[s], segs)
    IN  /\ session' = [session EXCEPT ![s] = d.ss]
        /\ decoding' = [decoding EXCEPT ![s] = d.open]
        /\ packet_queue' = [packet_queue EXCEPT ![s] = @ \o d.got]
        /\ UNCHANGED <<message_queue, cut>>

\* The ingress greenlet hands add_message what one read returned.
Ingress(s, k) ==
    LET segs == SubSeq(wire[Other(s)], 1, k)
    IN  /\ k <= Len(wire[Other(s)]) /\ session[s].state # "failed"
        /\ wire' = [wire EXCEPT ![Other(s)] = SubSeq(@, k + 1, Len(@))]
        /\ CASE session[s].state = "ready" -> post_handshake(s, segs)
             [] session[s].state = "handshake" /\ s = "responder" -> decode_authentication(segs)
             [] OTHER -> decode_auth_ack_message(segs)
        /\ UNCHANGED <<dialled, eip8, sent>>

Next == \E s \in Ends : Egress(s) \/ add_packet(s) \/ \E k \in 1 .. MaxRead : Ingress(s, k)

\* The two greenlets of each peer keep running.
Fairness == \A s \in Ends : WF_vars(Egress(s)) /\ WF_vars(\E k \in 1 .. MaxRead : Ingress(s, k))

Spec == Init /\ [][Next]_vars /\ Fairness

-----------------------------------------------------------------------------
(* Two ends that are both ready hold the same secrets, each end's egress   *)
(* mac being the other's ingress mac, and know each other's public key; a  *)
(* node dialled under another key never completes the handshake.           *)
SecretsAgree ==
    /\ \A s \in Ends : session[s].state = "ready" => dialled = "responder"
    /\ (\A s \in Ends : session[s].state = "ready")
        => /\ session["initiator"].keys.egress = session["responder"].keys.ingress
           /\ session["initiator"].keys.ingress = session["responder"].keys.egress
           /\ \A s \in Ends : session[s].remote_pubkey = Other(s)

(* A session is given up only because a handshake message came in pieces,  *)
(* an EIP-8 ack came together with the hello behind it, or the wrong node  *)
(* was dialled; frames are never refused, wherever TCP cuts them.          *)
FailsOnlyInHandshake ==
    \A s \in Ends : session[s].state = "failed" => cut # {} \/ dialled = "another"

(* What an end received is the other's hello and then its packets in order *)
(* without a gap.                                                          *)
HelloThenPackets ==
    \A s \in Ends : packet_queue[s] # <<>> =>
        /\ Head(packet_queue[s]) = Hello
        /\ \A i \in 2 .. Len(packet_queue[s]) : packet_queue[s][i] = i - 1
        /\ Len(packet_queue[s]) <= 1 + sent[Other(s)]

(* Each end receives the other's hello, or one of them gave up.            *)
HellosArrive ==
    <>(\/ \A s \in Ends : packet_queue[s] # <<>>
       \/ \E s \in Ends : session[s].state = "failed")
=============================================================================
