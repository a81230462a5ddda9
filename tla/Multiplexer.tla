----------------------------- MODULE Multiplexer -----------------------------
(***************************************************************************)
(* devp2p/multiplexer.py: a Multiplexer that frames the packets of several *)
(* protocols, and the Multiplexer at the other end of the stream that puts *)
(* them together again from whatever fragments TCP delivers.  The frame    *)
(* cipher is kept as the number of headers and bodies it has gone through: *)
(* both ends must go through the same ones in the same order.  Sizes are   *)
(* in units of which Pad make a cipher block; a payload is the sequence of *)
(* its units.                                                              *)
(***************************************************************************)
EXTENDS Integers, Sequences, FiniteSets, SequencesExt, TLC

CONSTANTS Protocols,    \* protocol ids in the order of add_protocol
          Pad,          \* block size: Frame.padding, header_size and mac_size
          MaxWindow,    \* max_window_size
          MaxPriority,  \* max_priority_frame_size
          SidMod,       \* sequence ids are counted modulo SidMod
          Fragments,    \* sizes of the fragments TCP delivers, besides all there is
          Lengths,      \* Lengths[p]: lengths of the payloads of p's packets
          MaxPackets,   \* bound: packets sent
          MaxSpread    \* bound: packets of a protocol queued or half decoded

Ids == Range(Protocols)
QueueNames == {"priority", "normal", "chunked"}
CmdLen == 1     \* rlp(cmd_id) is one byte

ASSUME MultiplexerAssumption ==
    /\ Protocols \in Seq(Nat) /\ Protocols # <<>> /\ IsInjective(Protocols)
    /\ {Pad, MaxWindow, MaxPriority, SidMod, MaxSpread} \subseteq Nat \ {0}
    /\ Lengths \in [Ids -> SUBSET Nat] /\ MaxPackets \in Nat
    /\ MaxSpread <= SidMod
    /\ MaxWindow \div Len(Protocols) >= 4 * Pad

VARIABLES queues,         \* queues[p][q]: frames waiting
          sequence_id,    \* next sequence id of each protocol
          last_protocol,
          stream,         \* frames written to the connection, not yet decoded
          have,           \* units of the stream in the receiver's _decode_buffer
          header,         \* _cached_decode_header is set
          chunked_buffers,\* receiver: packets being put together, by sequence id
          macs,           \* receiver: header macs checked and frames decoded
          failed,         \* the receiver raised
          added, decoded  \* history: packets sent and received

sender == <<queues, sequence_id, last_protocol, added>>
receiver == <<have, header, chunked_buffers, macs, failed, decoded>>
vars == <<sender, stream, receiver>>

-----------------------------------------------------------------------------
(* Frame *)

Ceil(x) == ((x + Pad - 1) \div Pad) * Pad

body_size(f) == Len(f.data) + (IF f.kind = "chunked_n" THEN 0 ELSE CmdLen)

frame_size(f) == 3 * Pad + Ceil(body_size(f))

\* What is left of r units after a frame with c units of command id: a frame
\* that would exceed the window gives up the excess.
Remain(r, c, window) ==
    LET fs == 3 * Pad + Ceil(r + c) IN IF fs <= window THEN 0 ELSE fs - window

\* The frames of a packet: rest[i] is what is left after i frames.
Frames(packet, sid, window) ==
    LET L == Len(packet.payload)
        rest[i \in 0 .. L + 1] ==
            IF i = 0 THEN L ELSE Remain(rest[i - 1], IF i = 1 THEN CmdLen ELSE 0, window)
        count == Min({i \in 1 .. L + 1 : rest[i] = 0})
    IN  [i \in 1 .. count |->
            [proto |-> packet.proto, sid |-> sid, packet |-> packet.id,
             kind  |-> IF count = 1 THEN "normal" ELSE IF i = 1 THEN "chunked_0" ELSE "chunked_n",
             total |-> L + CmdLen,
             data  |-> SubSeq(packet.payload, L - rest[i - 1] + 1, L - rest[i])]]

-----------------------------------------------------------------------------
(* Sending *)

is_active(qs, p) == \E q \in QueueNames : qs[p][q] # <<>>

num_active(qs) == Cardinality({p \in Ids : is_active(qs, p)})

Window(n) == (MaxWindow \div n) - ((MaxWindow \div n) % Pad)

\* Mutant: a protocol about to become active is not counted.
protocol_window_size_NoCount(qs, p) == Window(Max({1, num_active(qs)}))

\* protocol_window_size(protocol_id): a protocol about to become active is
\* counted, unless its id is 0, which Python takes for no id at all.
protocol_window_size(qs, p) ==
    IF p # 0 /\ ~ is_active(qs, p) THEN Window(1 + num_active(qs))
    ELSE Window(Max({1, num_active(qs)}))

\* Packets of p from its oldest undelivered one on: a chunked packet that is
\* still under way may be overtaken by this many.
Spread(p) ==
    LET open == {i \in DOMAIN added : added[i].proto = p
                                       /\ \A y \in Range(decoded) : y.id # added[i].id}
    IN  Cardinality({i \in DOMAIN added : added[i].proto = p /\ \E o \in open : o <= i})

add_packet(p, len, prioritize) ==
    LET id == Len(added) + 1
        packet == [id |-> id, proto |-> p, payload |-> [i \in 1 .. len |-> <<id, i>>]]
        frames == Frames(packet, sequence_id[p], protocol_window_size(queues, p))
        q == IF prioritize THEN "priority" ELSE IF Len(frames) = 1 THEN "normal" ELSE "chunked"
    IN  /\ Len(added) < MaxPackets /\ Spread(p) < MaxSpread
        /\ prioritize => Len(frames) = 1 /\ frame_size(frames[1]) <= MaxPriority
        /\ queues' = [queues EXCEPT ![p][q] = @ \o frames]
        /\ sequence_id' = [sequence_id EXCEPT ![p] = (@ + 1) % SidMod]
        /\ added' = Append(added, [id |-> id, proto |-> p, queue |-> q, len |-> len])
        /\ UNCHANGED <<last_protocol, stream, receiver>>

\* One pass over the three queues takes a frame from at most two of them.
TakeFrame(st, q, window) ==
    IF /\ st.taken < 2 /\ st.queues[q] # <<>>
       /\ st.size + frame_size(Head(st.queues[q])) <= window
    THEN [queues |-> [st.queues EXCEPT ![q] = Tail(@)],
          frames |-> Append(st.frames, Head(st.queues[q])),
          size   |-> st.size + frame_size(Head(st.queues[q])),
          taken  |-> st.taken + 1]
    ELSE st

Pass(st, window) ==
    LET first  == TakeFrame([st EXCEPT !.taken = 0], "priority", window)
        second == TakeFrame(first, "normal", window)
    IN  TakeFrame(second, "chunked", window)

\* Passes go on while the last one took a frame and the window is not full.
pop_frames_for_protocol(qs, p) ==
    LET window == Window(Max({1, num_active(qs)}))
        loop[k \in 0 .. MaxWindow] ==
            IF k = 0 THEN Pass([queues |-> qs[p], frames |-> <<>>, size |-> 0, taken |-> 0], window)
            ELSE LET st == loop[k - 1]
                 IN  IF st.taken = 0 \/ st.size >= window THEN st ELSE Pass(st, window)
    IN  loop[MaxWindow \div (3 * Pad)]

IndexOf(p) == CHOOSE i \in DOMAIN Protocols : Protocols[i] = p

Following(p, k) == Protocols[((IndexOf(p) - 1 + k) % Len(Protocols)) + 1]

next_protocol == Following(last_protocol, 1)

\* The first protocol from next_protocol on that yields frames.
Ready(qs, last) ==
    {k \in 1 .. Len(Protocols) : pop_frames_for_protocol(qs, Following(last, k)).frames # <<>>}

pop_frames ==
    /\ num_active(queues) > 0
    /\ last_protocol' = next_protocol
    /\ IF Ready(queues, last_protocol) = {} THEN UNCHANGED <<queues, stream>>
       ELSE LET p == Following(last_protocol, Min(Ready(queues, last_protocol)))
                popped == pop_frames_for_protocol(queues, p)
            IN  /\ queues' = [queues EXCEPT ![p] = popped.queues]
                /\ stream' = stream \o popped.frames
    /\ UNCHANGED <<sequence_id, added, receiver>>

-----------------------------------------------------------------------------
(* Receiving.  r is the state of the receiving Multiplexer and the stream. *)

\* total-packet-size counts the command id.
payload_total(f) == f.total - CmdLen

\* Mutant: chunks are put together in the wrong order.
extended_Swapped(b, body) == body \o b.payload

extended(b, body) == b.payload \o body

\* A body, which in a normal frame begins with the command id, is added to the
\* packet with its sequence id if there is one; else it is taken for a command id
\* and its payload.
decode_body(r) ==
    LET f == Head(r.stream)
        bufs == r.bufs[f.proto]
        done == [r EXCEPT !.stream = Tail(@), !.have = @ - frame_size(f), !.header = FALSE]
        Emit(q, data) == [q EXCEPT !.out = Append(@, [id |-> f.packet, proto |-> f.proto, payload |-> data])]
        Fail(why) == [r EXCEPT !.failed = why]
    IN  IF f.sid \in DOMAIN bufs
        THEN LET b == bufs[f.sid]
                 body == IF f.kind = "normal" THEN <<<<f.packet, 0>>>> \o f.data ELSE f.data
             IN  CASE f.kind = "chunked_0" -> Fail("existing buffer")
                   [] f.kind # "chunked_0" /\ Len(body) > b.total - Len(b.payload) -> Fail("too much data")
                   [] f.kind # "chunked_0" /\ Len(body) = b.total - Len(b.payload) ->
                        Emit([done EXCEPT !.bufs[f.proto] = [i \in DOMAIN @ \ {f.sid} |-> @[i]]],
                             extended(b, body))
                   [] OTHER -> [done EXCEPT !.bufs[f.proto][f.sid] =
                                  [@ EXCEPT !.payload = extended(b, body)]]
        ELSE CASE f.kind = "chunked_0" ->
                    LET new == [payload |-> f.data, total |-> payload_total(f)]
                    IN  [done EXCEPT !.bufs[f.proto] =
                            [i \in DOMAIN @ \cup {f.sid} |-> IF i = f.sid THEN new ELSE @[i]]]
               [] f.kind = "normal" -> Emit(done, f.data)
               [] OTHER -> Emit(done, Tail(f.data))

\* The header mac is checked against the cipher's running state: it fits only
\* if every earlier frame's header was decrypted exactly once.
decode_header(r) ==
    IF r.macs = r.frames THEN [r EXCEPT !.header = TRUE, !.macs = @ + 1]
    ELSE [r EXCEPT !.failed = "header mac"]

\* Mutant: the header is not kept while its body is awaited.
decode_step_NoCache(r) ==
    IF r.failed # "no" \/ r.stream = <<>> \/ r.have < 2 * Pad THEN r
    ELSE LET h == decode_header(r)
         IN  IF h.failed # "no" THEN h
             ELSE IF h.have >= frame_size(Head(h.stream)) THEN [decode_body(h) EXCEPT !.frames = @ + 1]
             ELSE [h EXCEPT !.header = FALSE]

decode_step(r) ==
    IF r.failed # "no" \/ r.stream = <<>> THEN r
    ELSE IF ~ r.header
    THEN IF r.have >= 2 * Pad THEN decode_header(r) ELSE r
    ELSE IF r.have >= frame_size(Head(r.stream))
    THEN [decode_body(r) EXCEPT !.frames = @ + 1] ELSE r

decode(r) ==
    LET loop[k \in 0 .. 2 * Len(stream)] ==
            IF k = 0 THEN r ELSE LET q == loop[k - 1] IN decode_step(q)
    IN  loop[2 * Len(stream)]

Units(s) == FoldLeft(LAMBDA n, f : n + frame_size(f), 0, s)

Readable == {k \in Fragments \cup {Units(stream) - have} : k > 0 /\ have + k <= Units(stream)}

\* The connection delivers the next k units.
Deliver(k) ==
    LET r == decode([stream |-> stream, have |-> have + k, header |-> header,
                     bufs |-> chunked_buffers, macs |-> macs.headers, frames |-> macs.frames,
                     failed |-> failed, out |-> <<>>])
    IN  /\ failed = "no"
            /\ stream' = r.stream /\ have' = r.have /\ header' = r.header
        /\ chunked_buffers' = r.bufs /\ failed' = r.failed
        /\ macs' = [headers |-> r.macs, frames |-> r.frames]
        /\ decoded' = decoded \o r.out
        /\ UNCHANGED sender

-----------------------------------------------------------------------------
Init ==
    /\ queues = [p \in Ids |-> [q \in QueueNames |-> <<>>]]
    /\ sequence_id = [p \in Ids |-> 0]
    /\ last_protocol = Last(Protocols)
    /\ stream = <<>> /\ have = 0 /\ header = FALSE
    /\ chunked_buffers = [p \in Ids |-> [i \in {} |-> <<>>]]
    /\ macs = [headers |-> 0, frames |-> 0]
    /\ failed = "no"
    /\ added = <<>> /\ decoded = <<>>

Next ==
    \/ \E p \in Ids : \E len \in Lengths[p], prioritize \in BOOLEAN : add_packet(p, len, prioritize)
    \/ pop_frames
    \/ \E k \in Readable : Deliver(k)

\* pop_all_frames calls pop_frames until nothing comes, and TCP delivers:
\* weak fairness of both actions, which are the ones that change
\* last_protocol and receiver, with their enabling conditions written out.
Fairness ==
    /\ []<>(num_active(queues) = 0) \/ []<><<TRUE>>_last_protocol
    /\ []<>(have = Units(stream) \/ failed # "no") \/ []<><<TRUE>>_receiver

Spec == Init /\ [][Next]_vars /\ Fairness

-----------------------------------------------------------------------------
(* multiplexer.py:257 "Dequeuing packets is performed in a cycle which     *)
(* dequeues one or more packets from the queue(s) of each active           *)
(* protocol": although the window shrinks after packets were framed, the   *)
(* head of some queue always fits, so no cycle comes back empty-handed.    *)
CycleDequeues == num_active(queues) > 0 => Ready(queues, last_protocol) # {}

(* Every packet that arrives is one that was sent, whole, and the packets  *)
(* of one queue arrive once each and in the order in which they were sent. *)
SameQueue(i, k) == added[i].proto = added[k].proto /\ added[i].queue = added[k].queue

InOrderPerQueue ==
    \A n \in DOMAIN decoded :
        LET id == decoded[n].id
        IN  /\ id \in DOMAIN added /\ decoded[n].proto = added[id].proto
            /\ decoded[n].payload = [i \in 1 .. added[id].len |-> <<id, i>>]
            /\ \A m \in 1 .. n - 1 : decoded[m].id # id
            /\ \A k \in 1 .. id - 1 :
                  SameQueue(k, id) => \E m \in 1 .. n - 1 : decoded[m].id = k

(* Every packet that was handed to add_packet arrives: the far end never   *)
(* rejects the stream, wherever TCP cuts it and however the chunks of      *)
(* packets interleave; each header is decrypted once, no chunk meets a     *)
(* foreign buffer.                                                         *)
AllArrive ==
    \A id \in 1 .. MaxPackets : (Len(added) >= id) ~> (\E y \in Range(decoded) : y.id = id)
=============================================================================
