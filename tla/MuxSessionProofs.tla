--------------------------- MODULE MuxSessionProofs ---------------------------
(***************************************************************************)
(* Both ends of a connection, for any number of packets, however TCP cuts  *)
(* and joins what they write: the secrets of the two ends agree, frames    *)
(* are never refused, and each end receives the other's hello and packets  *)
(* in order.  What an end ever writes is one stream of segments that is    *)
(* known beforehand, and every state is a pair of positions in the two     *)
(* streams.                                                                *)
(***************************************************************************)
EXTENDS MuxSession, SequenceTheorems, WellFoundedInduction, TLAPS

-----------------------------------------------------------------------------
(* The streams.                                                            *)

Auth == create_auth(dialled, eip8)
Ack == create_auth_ack(Auth)

\* What s derives from the handshake.
Keys(s) ==
  setup_cipher(s, Ephemeral(Other(s)), "nonce-initiator", "nonce-responder", Auth, Ack)

\* The k-th message of s: its part of the handshake, then its frames.
Message(s, k) ==
  IF k = 1 THEN IF s = "initiator" THEN Auth ELSE Ack
  ELSE [type |-> "frame", key |-> Keys(s).egress, count |-> k - 2, packet |-> k - 2]

\* The j-th segment of s.
Segment(s, j) == [msg |-> Message(s, (j + 1) \div 2), part |-> 2 - (j % 2)]

\* How many messages s has queued so far.
Queued(s) ==
  session[s].out + IF s = "initiator" \/ session[s].state = "ready" THEN 1 ELSE 0

\* How many segments of s have been read.
Taken(s) == 2 * Queued(s) - 2 * Len(message_queue[s]) - Len(wire[s])

-----------------------------------------------------------------------------
(* The inductive invariant.                                                *)

Messages == {Message(s, k) : s \in Ends, k \in Nat}
Pieces == {Segment(s, j) : s \in Ends, j \in Nat}

\* The queue and the wire of s are the end of its stream, as far as it goes.
StreamOK(s) ==
  /\ message_queue[s] \in Seq(Messages)
  /\ wire[s] \in Seq(Pieces)
  /\ Taken(s) >= 0
  /\ \A i \in 1 .. Len(message_queue[s]) :
       message_queue[s][i] = Message(s, Queued(s) - Len(message_queue[s]) + i)
  /\ \A i \in 1 .. Len(wire[s]) : wire[s][i] = Segment(s, Taken(s) + i)

\* The session of s with given counters.
SessionOf(s, state, out, in) ==
  [state |-> state,
   keys |-> IF state = "ready" THEN Keys(s) ELSE [egress |-> <<>>, ingress |-> <<>>],
   remote_pubkey |-> IF state = "ready" THEN Other(s) ELSE "unknown",
   out |-> out, in |-> in]

\* What s knows and has received is determined by how far it has read.
SessionOK(s) ==
  /\ session[s].out \in Nat
  /\ session[s].in \in Nat
  /\ session[s] = SessionOf(s, session[s].state, session[s].out, session[s].in)
  /\ packet_queue[s] \in Seq(Nat)
  /\ Len(packet_queue[s]) = session[s].in
  /\ \A i \in 1 .. Len(packet_queue[s]) : packet_queue[s][i] = i - 1
  /\ \/ /\ session[s].state = "ready"
        /\ session[s].out = 1 + sent[s]
        /\ Taken(Other(s)) >= 2
        /\ session[s].in = (Taken(Other(s)) - 2) \div 2
        /\ dialled = "responder"
     \/ /\ session[s].state = "handshake"
        /\ session[s].out = 0 /\ session[s].in = 0
        /\ sent[s] = 0
        /\ Taken(Other(s)) = 0
     \/ /\ session[s].state = "failed"
        /\ session[s].out = 0 /\ session[s].in = 0
        /\ cut # {} \/ dialled = "another"

IInv ==
  /\ dialled \in {"responder", "another"}
  /\ eip8 \in BOOLEAN
  /\ DOMAIN session = Ends
  /\ DOMAIN message_queue = Ends
  /\ DOMAIN wire = Ends
  /\ packet_queue \in [Ends -> Seq(Nat)]
  /\ sent \in [Ends -> Nat]
  /\ \A s \in Ends : StreamOK(s) /\ SessionOK(s)

-----------------------------------------------------------------------------
(* Decoding, one segment after the other.                                  *)

\* Every non-empty set of naturals has a least element.
LEMMA LeastNat ==
  ASSUME NEW T, T \subseteq Nat, T # {}
  PROVE  \E x \in T : \A y \in T : x <= y
<1>1. PICK x \in T : \A y \in T : ~ (<<y, x>> \in OpToRel(<, Nat))
  BY NatLessThanWellFounded, WFMin
<1>2. \A y \in T : ~ (y < x)
  BY <1>1 DEF OpToRel
<1>. QED
  BY <1>2

\* The states a decoder that starts in d0 goes through.
IsScan(f, d0, segs, n) ==
  f = [i \in 0 .. n |-> IF i = 0 THEN d0 ELSE DecodeSegment(f[i - 1], segs[i])]

\* They exist for any number of segments: those of the least number without
\* would be those of one segment less, and one more.
LEMMA ScanExists ==
  ASSUME NEW d0, NEW segs, NEW n \in Nat
  PROVE  \E f : IsScan(f, d0, segs, n)
<1> DEFINE T == {k \in Nat : ~ \E f : IsScan(f, d0, segs, k)}
<1> SUFFICES ASSUME T # {} PROVE FALSE
  OBVIOUS
<1>1. PICK k \in T : \A y \in T : k <= y
  BY LeastNat
<1>2. CASE k = 0
  <2> DEFINE f == [i \in 0 .. 0 |-> d0]
  <2>1. f = [i \in 0 .. 0 |-> IF i = 0 THEN d0 ELSE DecodeSegment(f[i - 1], segs[i])]
    OBVIOUS
  <2>. QED
    BY <1>2, <2>1 DEF IsScan
<1>3. CASE k # 0
  <2>1. k - 1 \in Nat /\ k - 1 \notin T
    BY <1>1, <1>3
  <2>2. PICK f : IsScan(f, d0, segs, k - 1)
    BY <2>1
  <2> DEFINE g == [i \in 0 .. k |-> IF i = k THEN DecodeSegment(f[k - 1], segs[k]) ELSE f[i]]
  <2>3. \A i \in 0 .. k - 1 :
          f[i] = IF i = 0 THEN d0 ELSE DecodeSegment(f[i - 1], segs[i])
    BY <2>1, <2>2 DEF IsScan
  <2>4. \A i \in 0 .. k - 1 : g[i] = f[i]
    BY <2>1
  <2>5. ASSUME NEW i \in 0 .. k
        PROVE  g[i] = IF i = 0 THEN d0 ELSE DecodeSegment(g[i - 1], segs[i])
    <3>1. CASE i = k
      <4>1. g[i] = DecodeSegment(f[k - 1], segs[k]) /\ k - 1 \in 0 .. k - 1
        BY <2>1, <3>1
      <4>. QED
        BY <1>3, <2>4, <3>1, <4>1
    <3>2. CASE i # k
      <4>1. i \in 0 .. k - 1 /\ (i # 0 => i - 1 \in 0 .. k - 1)
        BY <2>1, <3>2
      <4> HIDE DEF g
      <4>. QED
        BY <2>3, <2>4, <4>1
    <3>. QED
      BY <3>1, <3>2
  <2>6. g = [i \in 0 .. k |-> g[i]]
    OBVIOUS
  <2> HIDE DEF g
  <2>7. IsScan(g, d0, segs, k)
    BY <2>5, <2>6 DEF IsScan
  <2>. QED
    BY <1>1, <2>7
<1>. QED
  BY <1>2, <1>3

\* Decode goes through them.
LEMMA DecodeScan ==
  ASSUME NEW ss, NEW open, NEW segs, Len(segs) \in Nat
  PROVE  \E f : /\ f[0] = [ss |-> ss, open |-> open, got |-> <<>>]
                /\ \A i \in 1 .. Len(segs) : f[i] = DecodeSegment(f[i - 1], segs[i])
                /\ Decode(ss, open, segs) = f[Len(segs)]
<1> DEFINE d0 == [ss |-> ss, open |-> open, got |-> <<>>]
           f == CHOOSE f : IsScan(f, d0, segs, Len(segs))
<1>1. IsScan(f, d0, segs, Len(segs))
  BY ScanExists
<1>2. Decode(ss, open, segs) = f[Len(segs)]
  BY DEF Decode, IsScan
<1> HIDE DEF f
<1>3. \A i \in 0 .. Len(segs) : f[i] = IF i = 0 THEN d0 ELSE DecodeSegment(f[i - 1], segs[i])
  BY <1>1 DEF IsScan
<1>4. 0 \in 0 .. Len(segs) /\ \A i \in 1 .. Len(segs) : i \in 0 .. Len(segs) /\ i # 0
  OBVIOUS
<1>. QED
  BY <1>2, <1>3, <1>4

\* The two ends derive the same secrets: what one sends with, the other reads
\* with.
LEMMA KeysMatch ==
  ASSUME NEW s \in Ends
  PROVE  /\ Keys(Other(s)).ingress = Keys(s).egress
         /\ Keys(Other(s)).egress = Keys(s).ingress
<1>1. \A a, b : {a, b} = {b, a}
  OBVIOUS
<1>. QED
  BY <1>1 DEF Ends, Other, Keys, setup_cipher, Ephemeral

\* How many frames the first q segments of a stream complete.
Frames(q) == (q - 2) \div 2

LEMMA FramesNext ==
  ASSUME NEW q \in Nat, q >= 2
  PROVE  /\ Frames(q) \in Nat
         /\ Frames(q + 1) = IF q % 2 = 0 THEN Frames(q) ELSE Frames(q) + 1
BY DEF Frames

\* A segment behind the handshake carries half of a frame.
LEMMA FrameSegment ==
  ASSUME NEW s, NEW q \in Nat, q >= 2
  PROVE  /\ Segment(s, q + 1).msg = [type |-> "frame", key |-> Keys(s).egress,
                                     count |-> Frames(q), packet |-> Frames(q)]
         /\ Segment(s, q + 1).part = IF q % 2 = 0 THEN 1 ELSE 2
<1>1. (q + 1 + 1) \div 2 # 1 /\ (q + 1 + 1) \div 2 - 2 = Frames(q)
  BY DEF Frames
<1>2. 2 - ((q + 1) % 2) = IF q % 2 = 0 THEN 1 ELSE 2
  OBVIOUS
<1> DEFINE k == (q + 1 + 1) \div 2
           part == 2 - ((q + 1) % 2)
<1>3. Segment(s, q + 1) = [msg |-> Message(s, k), part |-> part]
  BY DEF Segment
<1> HIDE DEF k, part
<1>4. Message(s, k) = [type |-> "frame", key |-> Keys(s).egress, count |-> k - 2, packet |-> k - 2]
  BY <1>1 DEF Message, k
<1>. QED
  BY <1>1, <1>2, <1>3, <1>4 DEF k, part

\* The decoder of the other end after the segments of s from p to q.
Decoded(d, s, out, p, q) ==
  /\ d = [ss |-> SessionOf(Other(s), "ready", out, Frames(q)), open |-> d.open, got |-> d.got]
  /\ d.got \in Seq(Nat)
  /\ Len(d.got) = Frames(q) - Frames(p)
  /\ \A k \in 1 .. Len(d.got) : d.got[k] = Frames(p) + k - 1

LEMMA DecodeNext ==
  ASSUME NEW s \in Ends, NEW out, NEW p \in Nat, p >= 2, NEW q \in Nat, q >= p,
         NEW d, Decoded(d, s, out, p, q)
  PROVE  Decoded(DecodeSegment(d, Segment(s, q + 1)), s, out, p, q + 1)
<1> DEFINE n == Frames(q)
           seg == Segment(s, q + 1)
           e == DecodeSegment(d, seg)
<1>0. n \in Nat /\ Frames(p) \in Nat /\ q >= 2
  BY FramesNext
<1>1. /\ seg.msg = [type |-> "frame", key |-> Keys(s).egress, count |-> n, packet |-> n]
      /\ seg.part = IF q % 2 = 0 THEN 1 ELSE 2
  BY <1>0, FrameSegment
<1>2. /\ seg.msg.type = "frame" /\ seg.msg.key = Keys(s).egress
      /\ seg.msg.count = n /\ seg.msg.packet = n
  BY <1>1
<1> HIDE DEF seg
<1>3. /\ d = [ss |-> d.ss, open |-> d.open, got |-> d.got]
      /\ d.ss = SessionOf(Other(s), "ready", out, n)
      /\ d.ss.state = "ready" /\ d.ss.keys.ingress = Keys(s).egress /\ d.ss.in = n
  BY KeysMatch DEF SessionOf, Decoded
<1>4. /\ d.got \in Seq(Nat) /\ Len(d.got) = n - Frames(p)
      /\ \A k \in 1 .. Len(d.got) : d.got[k] = Frames(p) + k - 1
  BY DEF Decoded
<1>5. CASE q % 2 = 0
  <2>1. e = [d EXCEPT !.open = TRUE]
    BY <1>1, <1>2, <1>3, <1>5 DEF DecodeSegment
  <2>2. e = [ss |-> d.ss, open |-> TRUE, got |-> d.got]
    BY <1>3, <2>1
  <2>3. Frames(q + 1) = n
    BY <1>0, <1>5, FramesNext
  <2> HIDE DEF e
  <2>. QED
    BY <1>3, <1>4, <2>2, <2>3 DEF Decoded, e, seg
<1>6. CASE q % 2 # 0
  <2>1. e = [ss |-> [d.ss EXCEPT !.in = @ + 1], open |-> FALSE, got |-> Append(d.got, n)]
    <3>1. seg.part # 1
      BY <1>1, <1>6
    <3>. QED
      BY <1>2, <1>3, <3>1 DEF DecodeSegment
  <2>2. [d.ss EXCEPT !.in = @ + 1] = SessionOf(Other(s), "ready", out, n + 1)
    BY <1>3 DEF SessionOf
  <2>3. Frames(q + 1) = n + 1
    BY <1>0, <1>6, FramesNext
  <2> HIDE DEF e, n
  <2>4. Append(d.got, n) \in Seq(Nat) /\ Len(Append(d.got, n)) = n + 1 - Frames(p)
    BY <1>0, <1>4
  <2>5. ASSUME NEW k \in 1 .. Len(Append(d.got, n))
        PROVE  Append(d.got, n)[k] = Frames(p) + k - 1
    <3>1. Len(Append(d.got, n)) = Len(d.got) + 1 /\ Append(d.got, n)[Len(d.got) + 1] = n
      BY <1>0, <1>4, AppendProperties
    <3>2. CASE k = Len(d.got) + 1
      BY <1>0, <1>4, <3>1, <3>2
    <3>3. CASE k # Len(d.got) + 1
      <4>1. k \in 1 .. Len(d.got)
        BY <1>4, <3>1, <3>3
      <4>2. Append(d.got, n)[k] = d.got[k]
        BY <1>0, <1>4, <4>1, AppendProperties
      <4>. QED
        BY <1>4, <4>1, <4>2
    <3>. QED
      BY <3>2, <3>3
  <2>6. /\ e.ss = SessionOf(Other(s), "ready", out, n + 1) /\ e.got = Append(d.got, n)
        /\ e = [ss |-> e.ss, open |-> e.open, got |-> e.got]
    BY <2>1, <2>2
  <2>7. Decoded(e, s, out, p, q + 1)
    <3>1. e = [ss |-> SessionOf(Other(s), "ready", out, Frames(q + 1)), open |-> e.open, got |-> e.got]
      BY <2>3, <2>6
    <3>2. e.got = Append(d.got, n)
      BY <2>6
    <3>3. e.got \in Seq(Nat) /\ Len(e.got) = Frames(q + 1) - Frames(p)
      BY <1>0, <2>3, <2>4, <3>2
    <3>4. \A k \in 1 .. Len(e.got) : e.got[k] = Frames(p) + k - 1
      BY <2>5, <3>2, Zenon
    <3>. QED
      BY <3>1, <3>3, <3>4 DEF Decoded
  <2>. QED
    BY <2>7 DEF e, seg
<1>. QED
  BY <1>5, <1>6

\* Decoding the next segments of the stream reads the frames they complete.
LEMMA DecodeFrames ==
  ASSUME NEW s \in Ends, NEW open, NEW out, NEW p \in Nat, p >= 2,
         NEW segs, Len(segs) \in Nat,
         \A i \in 1 .. Len(segs) : segs[i] = Segment(s, p + i)
  PROVE  Decoded(Decode(SessionOf(Other(s), "ready", out, Frames(p)), open, segs),
                 s, out, p, p + Len(segs))
<1> DEFINE ss == SessionOf(Other(s), "ready", out, Frames(p))
<1>1. PICK f : /\ f[0] = [ss |-> ss, open |-> open, got |-> <<>>]
               /\ \A i \in 1 .. Len(segs) : f[i] = DecodeSegment(f[i - 1], segs[i])
               /\ Decode(ss, open, segs) = f[Len(segs)]
  BY DecodeScan
<1>2. Decoded(f[0], s, out, p, p + 0)
  BY <1>1, FramesNext DEF Decoded
<1>3. ASSUME NEW i \in 1 .. Len(segs), Decoded(f[i - 1], s, out, p, p + (i - 1))
      PROVE  Decoded(f[i], s, out, p, p + i)
  <2> DEFINE q == p + (i - 1)
  <2>1. q \in Nat /\ q >= p /\ q + 1 = p + i
    OBVIOUS
  <2>2. f[i] = DecodeSegment(f[i - 1], Segment(s, q + 1))
    BY <1>1, <2>1
  <2> HIDE DEF q
  <2>3. Decoded(f[i], s, out, p, q + 1)
    BY <1>3, <2>1, <2>2, DecodeNext DEF q
  <2>. QED
    BY <2>1, <2>3
<1>4. \A i \in 0 .. Len(segs) : Decoded(f[i], s, out, p, p + i)
  <2> DEFINE T == {i \in 0 .. Len(segs) : ~ Decoded(f[i], s, out, p, p + i)}
  <2> SUFFICES ASSUME T # {} PROVE FALSE
    OBVIOUS
  <2>0. T \subseteq Nat
    OBVIOUS
  <2> HIDE DEF T
  <2>1. PICK i \in T : \A k \in T : i <= k
    BY <2>0, LeastNat
  <2>2. i \in 0 .. Len(segs) /\ ~ Decoded(f[i], s, out, p, p + i)
    BY <2>1 DEF T
  <2>3. i # 0
    BY <1>2, <2>2
  <2>4. i \in 1 .. Len(segs) /\ i - 1 \notin T /\ i - 1 \in 0 .. Len(segs)
    BY <2>1, <2>2, <2>3
  <2>. QED
    BY <1>3, <2>2, <2>4 DEF T
<1>. QED
  BY <1>1, <1>4

-----------------------------------------------------------------------------
(* What steps do to the streams.                                           *)

LEMMA OtherEnd == \A s \in Ends : Other(s) \in Ends /\ Other(Other(s)) = s /\ Other(s) # s
BY DEF Ends, Other

\* Who is connected and how never changes, so the streams do not.
LEMMA SameStreams ==
  ASSUME UNCHANGED <<dialled, eip8>>
  PROVE  /\ Messages' = Messages /\ Pieces' = Pieces
         /\ \A s, k : Message(s, k)' = Message(s, k) /\ Segment(s, k)' = Segment(s, k)
         /\ \A s, st, o, i : SessionOf(s, st, o, i)' = SessionOf(s, st, o, i)
BY DEF Messages, Pieces, Message, Segment, SessionOf, Keys, Auth, Ack

\* The counters are numbers.
LEMMA Counters ==
  ASSUME NEW s \in Ends, StreamOK(s), SessionOK(s)
  PROVE  /\ Len(message_queue[s]) \in Nat /\ Len(wire[s]) \in Nat
         /\ Queued(s) \in Nat /\ Taken(s) \in Nat
BY DEF StreamOK, SessionOK, Queued, Taken

LEMMA ConcatTwice ==
  ASSUME NEW S, NEW a \in Seq(S), NEW b \in Seq(S), NEW c \in Seq(S)
  PROVE  (a \o b) \o c = a \o (b \o c)
BY ConcatAssociative

\* Queueing the next messages of the stream.
LEMMA Queueing ==
  ASSUME UNCHANGED <<dialled, eip8>>, NEW s \in Ends, StreamOK(s), Queued(s) \in Nat,
         NEW out \in Seq(Messages),
         \A i \in 1 .. Len(out) : out[i] = Message(s, Queued(s) + i),
         message_queue'[s] = message_queue[s] \o out, wire'[s] = wire[s],
         Queued(s)' = Queued(s) + Len(out)
  PROVE  StreamOK(s)' /\ Taken(s)' = Taken(s)
<1> DEFINE q == message_queue[s]
<1>1. q \in Seq(Messages) /\ wire[s] \in Seq(Pieces) /\ Len(q) \in Nat /\ Len(wire[s]) \in Nat
  BY DEF StreamOK
<1>2. /\ q \o out \in Seq(Messages) /\ Len(q \o out) = Len(q) + Len(out)
      /\ \A i \in 1 .. Len(q) + Len(out) :
           (q \o out)[i] = IF i <= Len(q) THEN q[i] ELSE out[i - Len(q)]
  BY <1>1, ConcatProperties
<1>3. Taken(s)' = Taken(s) /\ Taken(s) >= 0
  BY <1>1, <1>2 DEF Taken, StreamOK
<1>4. ASSUME NEW i \in 1 .. Len(q \o out)
      PROVE  (q \o out)[i] = Message(s, Queued(s) + Len(out) - Len(q \o out) + i)
  <2>1. CASE i <= Len(q)
    <3>1. q[i] = Message(s, Queued(s) - Len(q) + i)
      BY <1>1, <2>1 DEF StreamOK
    <3>2. Queued(s) - Len(q) + i = Queued(s) + Len(out) - Len(q \o out) + i
      BY <1>1, <1>2
    <3>. QED
      BY <1>1, <1>2, <2>1, <3>1, <3>2
  <2>2. CASE ~ (i <= Len(q))
    <3>1. i - Len(q) \in 1 .. Len(out)
      BY <1>1, <1>2, <2>2
    <3>2. Queued(s) + (i - Len(q)) = Queued(s) + Len(out) - Len(q \o out) + i
      BY <1>1, <1>2
    <3>. QED
      BY <1>1, <1>2, <2>2, <3>1, <3>2
  <2>. QED
    BY <2>1, <2>2
<1> HIDE DEF q
<1>5. StreamOK(s)'
  <2>1. /\ message_queue'[s] \in Seq(Messages)' /\ wire'[s] \in Seq(Pieces)' /\ Taken(s)' >= 0
    BY <1>1, <1>2, <1>3, SameStreams DEF q
  <2>2. ASSUME NEW i \in 1 .. Len(message_queue'[s])
        PROVE  message_queue'[s][i] = Message(s, Queued(s)' - Len(message_queue'[s]) + i)
    BY <1>4, SameStreams DEF q
  <2>3. ASSUME NEW i \in 1 .. Len(wire'[s])
        PROVE  wire'[s][i] = Segment(s, Taken(s)' + i)
    BY <1>3, SameStreams DEF StreamOK
  <2>. QED
    BY <2>1, <2>2, <2>3, SameStreams DEF StreamOK
<1>. QED
  BY <1>3, <1>5

\* A stream and a session nobody touches.
LEMMA StreamStays ==
  ASSUME UNCHANGED <<dialled, eip8>>, NEW s \in Ends, StreamOK(s),
         message_queue'[s] = message_queue[s], wire'[s] = wire[s], Queued(s)' = Queued(s)
  PROVE  StreamOK(s)' /\ Taken(s)' = Taken(s)
<1>1. Taken(s)' = Taken(s)
  BY DEF Taken
<1>. QED
  BY <1>1, SameStreams DEF StreamOK

LEMMA SessionStays ==
  ASSUME UNCHANGED <<dialled, eip8>>, NEW s \in Ends, SessionOK(s), cut \subseteq cut',
         session'[s] = session[s], packet_queue'[s] = packet_queue[s], sent'[s] = sent[s],
         Taken(Other(s))' = Taken(Other(s))
  PROVE  SessionOK(s)'
BY SameStreams DEF SessionOK

LEMMA AppendTwo ==
  ASSUME NEW S, NEW w \in Seq(S), NEW a \in S, NEW b \in S
  PROVE  /\ w \o <<a, b>> \in Seq(S)
         /\ Len(w \o <<a, b>>) = Len(w) + 2
         /\ \A i \in 1 .. Len(w) : (w \o <<a, b>>)[i] = w[i]
         /\ (w \o <<a, b>>)[Len(w) + 1] = a
         /\ (w \o <<a, b>>)[Len(w) + 2] = b
<1> DEFINE x == <<a, b>>
<1>1. x \in Seq(S) /\ Len(x) = 2 /\ x[1] = a /\ x[2] = b
  OBVIOUS
<1> HIDE DEF x
<1>2. /\ w \o x \in Seq(S) /\ Len(w \o x) = Len(w) + Len(x)
      /\ \A i \in 1 .. Len(w) + Len(x) : (w \o x)[i] = IF i <= Len(w) THEN w[i] ELSE x[i - Len(w)]
  BY <1>1, ConcatProperties
<1>3. Len(w) \in Nat
  OBVIOUS
<1>4. \A i \in 1 .. Len(w) : (w \o x)[i] = w[i]
  BY <1>1, <1>2, <1>3
<1>5. (w \o x)[Len(w) + 1] = a
  <2>1. Len(w) + 1 \in 1 .. Len(w) + Len(x) /\ Len(w) + 1 - Len(w) = 1 /\ ~ (Len(w) + 1 <= Len(w))
    BY <1>1, <1>3
  <2>. QED
    BY <1>1, <1>2, <2>1
<1>6. (w \o x)[Len(w) + 2] = b
  <2>1. Len(w) + 2 \in 1 .. Len(w) + Len(x) /\ Len(w) + 2 - Len(w) = 2 /\ ~ (Len(w) + 2 <= Len(w))
    BY <1>1, <1>3
  <2>. QED
    BY <1>1, <1>2, <2>1
<1>. QED
  BY <1>1, <1>2, <1>4, <1>5, <1>6 DEF x

\* The two segments of a message.
LEMMA TwoSegments ==
  ASSUME NEW s \in Ends, NEW k \in Nat, k >= 1
  PROVE  /\ Segments(Message(s, k)) = <<Segment(s, 2 * k - 1), Segment(s, 2 * k)>>
         /\ Segment(s, 2 * k - 1) \in Pieces /\ Segment(s, 2 * k) \in Pieces
<1>1. (2 * k - 1 + 1) \div 2 = k /\ (2 * k + 1) \div 2 = k
  OBVIOUS
<1>2. 2 - ((2 * k - 1) % 2) = 1 /\ 2 - ((2 * k) % 2) = 2
  OBVIOUS
<1>3. Segment(s, 2 * k - 1) = [msg |-> Message(s, k), part |-> 1]
  BY <1>1, <1>2 DEF Segment
<1>4. Segment(s, 2 * k) = [msg |-> Message(s, k), part |-> 2]
  BY <1>1, <1>2 DEF Segment
<1>5. 2 * k - 1 \in Nat /\ 2 * k \in Nat
  OBVIOUS
<1>6. Segment(s, 2 * k - 1) \in Pieces /\ Segment(s, 2 * k) \in Pieces
  BY <1>5 DEF Pieces
<1>. QED
  BY <1>3, <1>4, <1>6 DEF Segments

\* Writing the first message of the queue.
LEMMA Writing ==
  ASSUME UNCHANGED <<dialled, eip8>>, NEW s \in Ends, StreamOK(s), Queued(s) \in Nat,
         message_queue[s] # <<>>, message_queue'[s] = Tail(message_queue[s]),
         wire'[s] = wire[s] \o Segments(Head(message_queue[s])), Queued(s)' = Queued(s)
  PROVE  StreamOK(s)' /\ Taken(s)' = Taken(s)
<1>0. PICK q, w, Q, T : q = message_queue[s] /\ w = wire[s] /\ Q = Queued(s) /\ T = Taken(s)
  OBVIOUS
<1>1. /\ q \in Seq(Messages) /\ w \in Seq(Pieces) /\ q # <<>> /\ Q \in Nat
      /\ \A i \in 1 .. Len(q) : q[i] = Message(s, Q - Len(q) + i)
      /\ \A i \in 1 .. Len(w) : w[i] = Segment(s, T + i)
      /\ T = 2 * Q - 2 * Len(q) - Len(w) /\ T >= 0
  BY <1>0 DEF StreamOK, Taken
<1>2. Len(q) \in Nat /\ Len(q) # 0 /\ Len(w) \in Nat /\ T \in Nat
  BY <1>1
<1>3. PICK k : k = Q - Len(q) + 1
  OBVIOUS
<1>4. k \in Nat /\ k >= 1 /\ T + (Len(w) + 1) = 2 * k - 1 /\ T + (Len(w) + 2) = 2 * k
  BY <1>1, <1>2, <1>3
<1>5. Head(q) = Message(s, k)
  BY <1>1, <1>2, <1>3
<1>6. PICK v : v = w \o <<Segment(s, 2 * k - 1), Segment(s, 2 * k)>>
  OBVIOUS
<1>7. /\ v \in Seq(Pieces) /\ Len(v) = Len(w) + 2
      /\ \A i \in 1 .. Len(w) : v[i] = w[i]
      /\ v[Len(w) + 1] = Segment(s, 2 * k - 1)
      /\ v[Len(w) + 2] = Segment(s, 2 * k)
  <2>1. Segment(s, 2 * k - 1) \in Pieces /\ Segment(s, 2 * k) \in Pieces
    BY <1>4, TwoSegments
  <2>2. w \in Seq(Pieces)
    BY <1>1
  <2>. QED
    BY <1>6, <2>1, <2>2, AppendTwo
<1>8. ASSUME NEW i \in 1 .. Len(v) PROVE v[i] = Segment(s, T + i)
  <2>1. CASE i \in 1 .. Len(w)
    BY <1>1, <1>7, <2>1
  <2>2. CASE i = Len(w) + 1
    <3>1. T + i = 2 * k - 1
      BY <1>4, <2>2
    <3>. QED
      BY <1>7, <2>2, <3>1
  <2>3. CASE i = Len(w) + 2
    <3>1. T + i = 2 * k
      BY <1>4, <2>3
    <3>. QED
      BY <1>7, <2>3, <3>1
  <2>4. i \in 1 .. Len(w) \/ i = Len(w) + 1 \/ i = Len(w) + 2
    BY <1>2, <1>7
  <2>. QED
    BY <2>1, <2>2, <2>3, <2>4
<1>9. PICK t : t = Tail(q)
  OBVIOUS
<1>10. /\ t \in Seq(Messages) /\ Len(t) = Len(q) - 1
       /\ \A i \in 1 .. Len(t) : t[i] = q[i + 1]
  BY <1>1, <1>9, HeadTailProperties
<1>11. ASSUME NEW i \in 1 .. Len(t) PROVE t[i] = Message(s, Q - Len(t) + i)
  <2>1. i + 1 \in 1 .. Len(q) /\ Q - Len(q) + (i + 1) = Q - Len(t) + i
    BY <1>1, <1>2, <1>10
  <2>. QED
    BY <1>1, <1>10, <2>1
<1>12. message_queue'[s] = t /\ wire'[s] = v /\ Queued(s)' = Q
  BY <1>0, <1>4, <1>5, <1>6, <1>9, TwoSegments
<1>13. Taken(s)' = T
  <2>1. Taken(s)' = 2 * Q - 2 * Len(t) - Len(v)
    BY <1>12 DEF Taken
  <2>. QED
    BY <1>1, <1>2, <1>7, <1>10, <2>1
<1>14. StreamOK(s)'
  <2>1. message_queue'[s] \in Seq(Messages)' /\ wire'[s] \in Seq(Pieces)' /\ Taken(s)' >= 0
    BY <1>1, <1>7, <1>10, <1>12, <1>13, SameStreams
  <2>2. \A i \in 1 .. Len(message_queue'[s]) :
          message_queue'[s][i] = Message(s, Queued(s)' - Len(message_queue'[s]) + i)
    BY <1>11, <1>12
  <2>3. \A i \in 1 .. Len(wire'[s]) : wire'[s][i] = Segment(s, Taken(s)' + i)
    BY <1>8, <1>12, <1>13
  <2>. QED
    BY <2>1, <2>2, <2>3, SameStreams DEF StreamOK
<1>. QED
  BY <1>0, <1>13, <1>14

\* Reading k segments.
LEMMA Reading ==
  ASSUME UNCHANGED <<dialled, eip8>>, NEW s \in Ends, StreamOK(s), Queued(s) \in Nat,
         NEW k \in Nat, k <= Len(wire[s]),
         wire'[s] = SubSeq(wire[s], k + 1, Len(wire[s])),
         message_queue'[s] = message_queue[s], Queued(s)' = Queued(s)
  PROVE  StreamOK(s)' /\ Taken(s)' = Taken(s) + k
<1>0. PICK q, w, Q, T : q = message_queue[s] /\ w = wire[s] /\ Q = Queued(s) /\ T = Taken(s)
  OBVIOUS
<1>1. /\ q \in Seq(Messages) /\ w \in Seq(Pieces) /\ Q \in Nat
      /\ \A i \in 1 .. Len(q) : q[i] = Message(s, Q - Len(q) + i)
      /\ \A i \in 1 .. Len(w) : w[i] = Segment(s, T + i)
      /\ T = 2 * Q - 2 * Len(q) - Len(w) /\ T >= 0 /\ k <= Len(w)
  BY <1>0 DEF StreamOK, Taken
<1>2. Len(q) \in Nat /\ Len(w) \in Nat /\ k + 1 \in Int
  BY <1>1
<1>3. PICK v : v = SubSeq(w, k + 1, Len(w))
  OBVIOUS
<1>4. \A i \in k + 1 .. Len(w) : w[i] \in Pieces
  BY <1>1, <1>2, ElementOfSeq
<1>5. /\ v \in Seq(Pieces)
      /\ Len(v) = IF k + 1 <= Len(w) THEN Len(w) - (k + 1) + 1 ELSE 0
      /\ \A i \in 1 .. Len(w) - (k + 1) + 1 : v[i] = w[k + 1 + i - 1]
  BY <1>2, <1>3, <1>4, SubSeqProperties
<1>6. Len(v) = Len(w) - k
  BY <1>1, <1>2, <1>5
<1>7. ASSUME NEW i \in 1 .. Len(v) PROVE v[i] = Segment(s, T + k + i)
  <2>1. /\ i \in 1 .. Len(w) - (k + 1) + 1 /\ k + 1 + i - 1 \in 1 .. Len(w)
        /\ T + (k + 1 + i - 1) = T + k + i
    BY <1>1, <1>2, <1>6
  <2>. QED
    BY <1>1, <1>5, <2>1
<1>8. message_queue'[s] = q /\ wire'[s] = v /\ Queued(s)' = Q
  BY <1>0, <1>3
<1>9. Taken(s)' = T + k /\ T + k >= 0
  <2>1. Taken(s)' = 2 * Q - 2 * Len(q) - Len(v)
    BY <1>8 DEF Taken
  <2>. QED
    BY <1>1, <1>2, <1>6, <2>1
<1>10. StreamOK(s)'
  <2>1. message_queue'[s] \in Seq(Messages)' /\ wire'[s] \in Seq(Pieces)' /\ Taken(s)' >= 0
    BY <1>1, <1>5, <1>8, <1>9, SameStreams
  <2>2. \A i \in 1 .. Len(message_queue'[s]) :
          message_queue'[s][i] = Message(s, Queued(s)' - Len(message_queue'[s]) + i)
    BY <1>1, <1>8
  <2>3. \A i \in 1 .. Len(wire'[s]) : wire'[s][i] = Segment(s, Taken(s)' + i)
    BY <1>7, <1>8, <1>9
  <2>. QED
    BY <2>1, <2>2, <2>3, SameStreams DEF StreamOK
<1>. QED
  BY <1>0, <1>9, <1>10

-----------------------------------------------------------------------------
(* The invariant.                                                          *)

LEMMA InitInv == Init => IInv
<1> SUFFICES ASSUME Init PROVE IInv
  OBVIOUS
<1>1. ASSUME NEW s \in Ends PROVE StreamOK(s) /\ Taken(s) = 0
  <2>1. session[s].out = 0 /\ session[s].state = "handshake" /\ wire[s] = <<>>
    BY DEF Init, Fresh
  <2>2. CASE s = "initiator"
    <3>1. message_queue[s] = <<Message(s, 1)>> /\ Message(s, 1) \in Messages
      BY <2>2 DEF Init, Message, Messages, Auth
    <3>2. Queued(s) = 1
      BY <2>1, <2>2 DEF Queued
    <3>3. Len(message_queue[s]) = 1 /\ Len(wire[s]) = 0
      BY <2>1, <3>1
    <3>4. Taken(s) = 0
      BY <3>2, <3>3 DEF Taken
    <3>. QED
      BY <2>1, <3>1, <3>2, <3>3, <3>4 DEF StreamOK
  <2>3. CASE s # "initiator"
    <3>1. message_queue[s] = <<>>
      BY <2>3 DEF Init
    <3>2. Queued(s) = 0
      BY <2>1, <2>3 DEF Queued
    <3>3. Len(message_queue[s]) = 0 /\ Len(wire[s]) = 0
      BY <2>1, <3>1
    <3>4. Taken(s) = 0
      BY <3>2, <3>3 DEF Taken
    <3>. QED
      BY <2>1, <3>1, <3>2, <3>3, <3>4 DEF StreamOK
  <2>. QED
    BY <2>2, <2>3
<1>2. ASSUME NEW s \in Ends PROVE SessionOK(s)
  <2>1. session[s] = Fresh /\ packet_queue[s] = <<>> /\ sent[s] = 0
    BY DEF Init
  <2>2. Fresh = SessionOf(s, "handshake", 0, 0)
    BY DEF Fresh, SessionOf
  <2>3. Fresh.state = "handshake" /\ Fresh.out = 0 /\ Fresh.in = 0
    BY DEF Fresh
  <2>4. session[s] = SessionOf(s, session[s].state, session[s].out, session[s].in)
    BY <2>1, <2>2, <2>3
  <2>5. packet_queue[s] \in Seq(Nat) /\ Len(packet_queue[s]) = 0
    BY <2>1
  <2>6. Taken(Other(s)) = 0
    BY <1>1, OtherEnd
  <2>. QED
    BY <2>1, <2>3, <2>4, <2>5, <2>6 DEF SessionOK
<1>. QED
  BY <1>1, <1>2 DEF Init, IInv

\* The egress greenlet writes a message.
LEMMA EgressInv == ASSUME IInv, NEW s \in Ends, Egress(s) PROVE IInv'
<1>1. /\ UNCHANGED <<dialled, eip8>> /\ UNCHANGED <<session, packet_queue, sent, cut>>
      /\ message_queue[s] # <<>>
      /\ message_queue' = [message_queue EXCEPT ![s] = Tail(@)]
      /\ wire' = [wire EXCEPT ![s] = @ \o Segments(Head(message_queue[s]))]
  BY DEF Egress
<1>2. \A t \in Ends : Queued(t)' = Queued(t)
  BY <1>1 DEF Queued
<1>3. \A t \in Ends : StreamOK(t) /\ SessionOK(t) /\ Queued(t) \in Nat
  BY Counters DEF IInv
<1>4. ASSUME NEW t \in Ends PROVE StreamOK(t)' /\ Taken(t)' = Taken(t)
  <2>1. CASE t = s
    <3>1. message_queue'[s] = Tail(message_queue[s]) /\ wire'[s] = wire[s] \o Segments(Head(message_queue[s]))
      BY <1>1 DEF IInv
    <3>. QED
      BY <1>1, <1>2, <1>3, <2>1, <3>1, Writing
  <2>2. CASE t # s
    <3>1. message_queue'[t] = message_queue[t] /\ wire'[t] = wire[t]
      BY <1>1, <2>2 DEF IInv
    <3>. QED
      BY <1>1, <1>2, <1>3, <3>1, StreamStays
  <2>. QED
    BY <2>1, <2>2
<1>5. ASSUME NEW t \in Ends PROVE SessionOK(t)'
  <2>1. Taken(Other(t))' = Taken(Other(t))
    BY <1>4, OtherEnd
  <2>. QED
    BY <1>1, <1>3, <2>1, SessionStays
<1>6. /\ DOMAIN message_queue' = Ends /\ DOMAIN wire' = Ends
  BY <1>1 DEF IInv
<1>. QED
  BY <1>1, <1>4, <1>5, <1>6 DEF IInv

\* A packet is queued.
LEMMA AddInv == ASSUME IInv, NEW s \in Ends, add_packet(s) PROVE IInv'
<1>1. /\ UNCHANGED <<dialled, eip8>> /\ UNCHANGED <<wire, packet_queue, cut>>
      /\ session[s].state = "ready"
      /\ sent' = [sent EXCEPT ![s] = @ + 1]
      /\ message_queue' = [message_queue EXCEPT ![s] = Append(@, Frame(session[s], sent[s] + 1))]
      /\ session' = [session EXCEPT ![s].out = @ + 1]
  BY DEF add_packet
<1>2. \A t \in Ends : StreamOK(t) /\ SessionOK(t) /\ Queued(t) \in Nat
  BY Counters DEF IInv
<1>3. PICK n : n = session[s].out
  OBVIOUS
<1>4. /\ n \in Nat /\ n = 1 + sent[s] /\ sent[s] \in Nat
      /\ session[s] = SessionOf(s, "ready", n, session[s].in)
  BY <1>1, <1>2, <1>3 DEF SessionOK, IInv
<1>5. /\ session'[s] = SessionOf(s, "ready", n + 1, session[s].in)
      /\ \A t \in Ends \ {s} : session'[t] = session[t]
      /\ DOMAIN session' = Ends
  <2>1. session'[s] = [session[s] EXCEPT !.out = n + 1]
    BY <1>1, <1>3 DEF IInv
  <2>2. [session[s] EXCEPT !.out = n + 1] = SessionOf(s, "ready", n + 1, session[s].in)
    BY <1>4 DEF SessionOf
  <2>. QED
    BY <1>1, <2>1, <2>2 DEF IInv
<1>6. /\ session'[s].state = "ready" /\ session'[s].out = n + 1 /\ session'[s].in = session[s].in
  BY <1>5 DEF SessionOf
<1>7. Queued(s) = n + 1 /\ Queued(s)' = n + 2
  BY <1>1, <1>3, <1>4, <1>6 DEF Queued
<1>8. Frame(session[s], sent[s] + 1) = Message(s, n + 2)
  <2>1. session[s].keys.egress = Keys(s).egress
    BY <1>4 DEF SessionOf
  <2>2. n + 2 # 1 /\ n + 2 - 2 = n /\ n = sent[s] + 1
    BY <1>4
  <2>. QED
    <3>1. Frame(session[s], sent[s] + 1) =
            [type |-> "frame", key |-> Keys(s).egress, count |-> n, packet |-> n]
      BY <1>3, <2>1, <2>2 DEF Frame
    <3>2. Message(s, n + 2) =
            [type |-> "frame", key |-> Keys(s).egress, count |-> n + 2 - 2, packet |-> n + 2 - 2]
      BY <2>2 DEF Message
    <3>. QED
      BY <2>2, <3>1, <3>2
<1>9. StreamOK(s)' /\ Taken(s)' = Taken(s)
  <2> DEFINE out == <<Message(s, n + 2)>>
  <2>1. out \in Seq(Messages) /\ Len(out) = 1 /\ out[1] = Message(s, n + 2)
    BY <1>4 DEF Messages
  <2>2. message_queue'[s] = message_queue[s] \o out
    <3>1. message_queue'[s] = Append(message_queue[s], Message(s, n + 2))
      BY <1>1, <1>8 DEF IInv
    <3>2. message_queue[s] \in Seq(Messages) /\ Message(s, n + 2) \in Messages
      BY <1>2, <1>4 DEF StreamOK, Messages
    <3>. QED
      BY <3>1, <3>2, AppendIsConcat
  <2> HIDE DEF out
  <2>3. \A i \in 1 .. Len(out) : out[i] = Message(s, Queued(s) + i)
    <3>1. n + 1 + 1 = n + 2
      BY <1>4
    <3>. QED
      BY <1>7, <2>1, <3>1
  <2>4. Queued(s)' = Queued(s) + Len(out) /\ wire'[s] = wire[s]
    BY <1>1, <1>4, <1>7, <2>1
  <2>. QED
    BY <1>1, <1>2, <2>1, <2>2, <2>3, <2>4, Queueing
<1>10. ASSUME NEW t \in Ends, t # s PROVE StreamOK(t)' /\ Taken(t)' = Taken(t)
  <2>1. message_queue'[t] = message_queue[t] /\ wire'[t] = wire[t] /\ Queued(t)' = Queued(t)
    BY <1>1, <1>5, <1>10 DEF IInv, Queued
  <2>. QED
    BY <1>1, <1>2, <2>1, StreamStays
<1>11. ASSUME NEW t \in Ends PROVE Taken(Other(t))' = Taken(Other(t))
  BY <1>9, <1>10, OtherEnd
<1>12. sent' \in [Ends -> Nat] /\ sent'[s] = sent[s] + 1 /\ DOMAIN message_queue' = Ends
  BY <1>1 DEF IInv
<1>13. SessionOK(s)'
  <2>1. session'[s].out = 1 + sent'[s] /\ session'[s].out \in Nat
    BY <1>4, <1>6, <1>12
  <2>2. session'[s] = SessionOf(s, session'[s].state, session'[s].out, session'[s].in)
    BY <1>5, <1>6
  <2>3. packet_queue'[s] = packet_queue[s]
    BY <1>1
  <2>. QED
    BY <1>1, <1>2, <1>6, <1>11, <2>1, <2>2, <2>3, SameStreams DEF SessionOK
<1>14. ASSUME NEW t \in Ends, t # s PROVE SessionOK(t)'
  <2>1. sent'[t] = sent[t] /\ session'[t] = session[t]
    BY <1>1, <1>5, <1>14 DEF IInv
  <2>. QED
    BY <1>1, <1>2, <1>11, <2>1, SessionStays
<1>. QED
  BY <1>1, <1>5, <1>9, <1>10, <1>12, <1>13, <1>14 DEF IInv

\* What a read returns.
LEMMA SegsRead ==
  ASSUME NEW o \in Ends, StreamOK(o), SessionOK(o), NEW k \in Nat, k <= Len(wire[o]), NEW segs,
         segs = SubSeq(wire[o], 1, k)
  PROVE  /\ segs \in Seq(Pieces) /\ Len(segs) = k
         /\ \A i \in 1 .. k : segs[i] = Segment(o, Taken(o) + i)
<1>1. PICK w : w = wire[o]
  OBVIOUS
<1>2. /\ w \in Seq(Pieces) /\ Len(w) \in Nat /\ k <= Len(w)
      /\ \A i \in 1 .. Len(w) : w[i] = Segment(o, Taken(o) + i)
  BY <1>1 DEF StreamOK
<1>3. \A i \in 1 .. k : w[i] \in Pieces /\ i \in 1 .. Len(w)
  BY <1>2, ElementOfSeq
<1>4. /\ segs \in Seq(Pieces) /\ Len(segs) = (IF 1 <= k THEN k - 1 + 1 ELSE 0)
      /\ \A i \in 1 .. k - 1 + 1 : segs[i] = w[1 + i - 1]
  BY <1>1, <1>3, SubSeqProperties
<1>5. Len(segs) = k
  BY <1>4
<1>6. ASSUME NEW i \in 1 .. k PROVE segs[i] = Segment(o, Taken(o) + i)
  <2>1. i \in 1 .. k - 1 + 1 /\ 1 + i - 1 = i
    OBVIOUS
  <2>. QED
    BY <1>2, <1>3, <1>4, <2>1
<1>. QED
  BY <1>4, <1>5, <1>6

\* A read changes the session and the queues of the reader only.
ReadBy(s, k) ==
  /\ k \in Nat /\ k >= 1 /\ k <= Len(wire[Other(s)])
  /\ UNCHANGED <<dialled, eip8>> /\ sent' = sent
  /\ wire' = [wire EXCEPT ![Other(s)] = SubSeq(@, k + 1, Len(@))]
  /\ DOMAIN session' = Ends /\ session'[Other(s)] = session[Other(s)]
  /\ DOMAIN message_queue' = Ends /\ message_queue'[Other(s)] = message_queue[Other(s)]
  /\ packet_queue' \in [Ends -> Seq(Nat)] /\ packet_queue'[Other(s)] = packet_queue[Other(s)]
  /\ cut \subseteq cut'

\* It keeps the invariant if it keeps what the invariant says of the reader.
LEMMA AfterRead ==
  ASSUME IInv, NEW s \in Ends, NEW k, ReadBy(s, k), StreamOK(s)', Taken(s)' = Taken(s),
         Taken(Other(s))' = Taken(Other(s)) + k => SessionOK(s)'
  PROVE  IInv'
<1>1. PICK o \in Ends : o = Other(s) /\ Other(o) = s /\ o # s /\ \A t \in Ends : t = s \/ t = o
  BY DEF Ends, Other
<1>2. StreamOK(o) /\ SessionOK(o) /\ Queued(o) \in Nat
  BY Counters DEF IInv
<1>3. Queued(o)' = Queued(o)
  BY <1>1 DEF ReadBy, Queued
<1>4. wire'[o] = SubSeq(wire[o], k + 1, Len(wire[o])) /\ DOMAIN wire' = Ends
  BY <1>1 DEF ReadBy, IInv
<1>5. StreamOK(o)' /\ Taken(o)' = Taken(o) + k
  BY <1>1, <1>2, <1>3, <1>4, Reading DEF ReadBy
<1>6. SessionOK(s)'
  BY <1>1, <1>5
<1>7. SessionOK(o)'
  <2>1. sent'[o] = sent[o] /\ Taken(Other(o))' = Taken(Other(o))
    BY <1>1 DEF ReadBy
  <2>. QED
    BY <1>1, <1>2, <2>1, SessionStays DEF ReadBy
<1>8. \A t \in Ends : StreamOK(t)' /\ SessionOK(t)'
  BY <1>1, <1>5, <1>6, <1>7
<1>. QED
  BY <1>4, <1>8 DEF IInv, ReadBy

\* The packets a read completes follow those received before.
LEMMA Received ==
  ASSUME NEW m \in Nat, NEW n \in Nat, NEW p \in Seq(Nat), NEW g \in Seq(Nat),
         Len(p) = m, \A i \in 1 .. Len(p) : p[i] = i - 1,
         Len(g) = n - m, \A i \in 1 .. Len(g) : g[i] = m + i - 1
  PROVE  /\ p \o g \in Seq(Nat) /\ Len(p \o g) = n
         /\ \A i \in 1 .. Len(p \o g) : (p \o g)[i] = i - 1
<1>1. /\ p \o g \in Seq(Nat) /\ Len(p \o g) = Len(p) + Len(g)
      /\ \A i \in 1 .. Len(p) + Len(g) : (p \o g)[i] = IF i <= Len(p) THEN p[i] ELSE g[i - Len(p)]
  BY ConcatProperties
<1>2. Len(p \o g) = n
  BY <1>1
<1>3. ASSUME NEW i \in 1 .. Len(p \o g) PROVE (p \o g)[i] = i - 1
  <2>1. CASE i <= Len(p)
    BY <1>1, <2>1
  <2>2. CASE ~ (i <= Len(p))
    <3>1. i - Len(p) \in 1 .. Len(g) /\ m + (i - Len(p)) - 1 = i - 1
      BY <1>1, <2>2
    <3>. QED
      BY <1>1, <2>2, <3>1
  <2>. QED
    BY <2>1, <2>2
<1>. QED
  BY <1>1, <1>2, <1>3

\* A session that has the secrets reads what comes next.
LEMMA PostHandshake ==
  ASSUME IInv, NEW s \in Ends, NEW k \in 1 .. MaxRead, Ingress(s, k), session[s].state = "ready"
  PROVE  IInv'
<1>1. PICK o \in Ends : o = Other(s) /\ Other(o) = s /\ o # s
  BY OtherEnd
<1>2. k \in Nat /\ k >= 1
  BY SessionAssumption
<1>3. PICK segs, d : segs = SubSeq(wire[o], 1, k) /\ d = Decode(session[s], decoding[s], segs)
  OBVIOUS
<1>4. /\ k <= Len(wire[o]) /\ UNCHANGED <<dialled, eip8>> /\ sent' = sent /\ cut' = cut
      /\ wire' = [wire EXCEPT ![o] = SubSeq(@, k + 1, Len(@))]
      /\ session' = [session EXCEPT ![s] = d.ss]
      /\ packet_queue' = [packet_queue EXCEPT ![s] = @ \o d.got]
      /\ message_queue' = message_queue
  BY <1>1, <1>3 DEF Ingress, post_handshake
<1>5. \A t \in Ends : StreamOK(t) /\ SessionOK(t) /\ Queued(t) \in Nat /\ Taken(t) \in Nat
  BY Counters DEF IInv
<1>6. PICK T, out : T = Taken(o) /\ out = session[s].out
  OBVIOUS
<1>7. /\ T \in Nat /\ T >= 2 /\ out \in Nat /\ out = 1 + sent[s] /\ dialled = "responder"
      /\ session[s].in = Frames(T)
      /\ session[s] = SessionOf(s, "ready", out, Frames(T))
  BY <1>1, <1>5, <1>6 DEF SessionOK, Frames
<1>8. segs \in Seq(Pieces) /\ Len(segs) = k /\ \A i \in 1 .. k : segs[i] = Segment(o, T + i)
  BY <1>2, <1>3, <1>4, <1>5, <1>6, SegsRead
<1>9. Decoded(d, o, out, T, T + k)
  <2>1. /\ Len(segs) \in Nat
        /\ \A i \in 1 .. Len(segs) : segs[i] = Segment(o, T + i)
        /\ d = Decode(SessionOf(Other(o), "ready", out, Frames(T)), decoding[s], segs)
    BY <1>1, <1>2, <1>3, <1>7, <1>8
  <2>2. Decoded(d, o, out, T, T + Len(segs))
    BY <1>7, <2>1, DecodeFrames
  <2>. QED
    BY <1>8, <2>2
<1>10. session'[s] = SessionOf(s, "ready", out, Frames(T + k)) /\ session'[o] = session[o] /\ DOMAIN session' = Ends
  BY <1>1, <1>4, <1>9 DEF Decoded, IInv
<1>11. session'[s].state = "ready" /\ session'[s].out = out /\ session'[s].in = Frames(T + k)
  BY <1>10 DEF SessionOf
<1>12. Frames(T) \in Nat /\ Frames(T + k) \in Nat
  BY <1>2, <1>7 DEF Frames
<1>13. PICK p, g : p = packet_queue[s] /\ g = d.got
  OBVIOUS
<1>14. /\ p \in Seq(Nat) /\ Len(p) = Frames(T) /\ \A i \in 1 .. Len(p) : p[i] = i - 1
       /\ g \in Seq(Nat) /\ Len(g) = Frames(T + k) - Frames(T)
       /\ \A i \in 1 .. Len(g) : g[i] = Frames(T) + i - 1
  BY <1>5, <1>7, <1>9, <1>13 DEF Decoded, SessionOK
<1>15. /\ p \o g \in Seq(Nat) /\ Len(p \o g) = Frames(T + k)
       /\ \A i \in 1 .. Len(p \o g) : (p \o g)[i] = i - 1
  BY <1>12, <1>14, Received
<1>16. /\ packet_queue'[s] = p \o g /\ packet_queue'[o] = packet_queue[o]
       /\ packet_queue' \in [Ends -> Seq(Nat)]
  BY <1>1, <1>4, <1>13, <1>15 DEF IInv
<1>17. ReadBy(s, k)
  BY <1>1, <1>2, <1>4, <1>10, <1>16 DEF ReadBy, IInv
<1>18. StreamOK(s)' /\ Taken(s)' = Taken(s)
  <2>1. wire'[s] = wire[s] /\ Queued(s)' = Queued(s)
    BY <1>1, <1>4, <1>6, <1>11 DEF IInv, Queued
  <2>. QED
    BY <1>4, <1>5, <2>1, StreamStays
<1>19. ASSUME Taken(o)' = T + k PROVE SessionOK(s)'
  <2>1. session'[s] = SessionOf(s, session'[s].state, session'[s].out, session'[s].in)
    BY <1>10, <1>11
  <2>2. session'[s].in = (Taken(o)' - 2) \div 2 /\ Taken(o)' >= 2
    BY <1>2, <1>7, <1>11, <1>19 DEF Frames
  <2>3. /\ session'[s].out \in Nat /\ session'[s].in \in Nat /\ session'[s].out = 1 + sent'[s]
        /\ dialled' = "responder"
    BY <1>4, <1>7, <1>11, <1>12
  <2>4. /\ packet_queue'[s] \in Seq(Nat) /\ Len(packet_queue'[s]) = session'[s].in
        /\ \A i \in 1 .. Len(packet_queue'[s]) : packet_queue'[s][i] = i - 1
    BY <1>11, <1>15, <1>16
  <2>5. Other(s)' = o
    BY <1>1 DEF Other
  <2>. QED
    BY <1>1, <1>4, <1>11, <2>1, <2>2, <2>3, <2>4, SameStreams DEF SessionOK
<1>. QED
  BY <1>1, <1>6, <1>17, <1>18, <1>19, AfterRead

\* A handshake is given up.
LEMMA Failing ==
  ASSUME IInv, NEW s \in Ends, NEW k \in 1 .. MaxRead, Ingress(s, k),
         session[s].state = "handshake", NEW why, Fails(s, why),
         why # {} \/ dialled = "another"
  PROVE  IInv'
<1>1. k \in Nat /\ k >= 1 /\ Other(s) \in Ends /\ Other(s) # s
  BY SessionAssumption, OtherEnd
<1>2. /\ k <= Len(wire[Other(s)]) /\ UNCHANGED <<dialled, eip8>> /\ sent' = sent
      /\ wire' = [wire EXCEPT ![Other(s)] = SubSeq(@, k + 1, Len(@))]
      /\ session' = [session EXCEPT ![s].state = "failed"]
      /\ cut' = cut \cup why /\ message_queue' = message_queue /\ packet_queue' = packet_queue
  BY DEF Ingress, Fails
<1>3. \A t \in Ends : StreamOK(t) /\ SessionOK(t) /\ Queued(t) \in Nat
  BY Counters DEF IInv
<1>4. /\ session[s] = SessionOf(s, "handshake", 0, 0) /\ session[s].out = 0 /\ session[s].in = 0
  BY <1>3 DEF SessionOK
<1>5. session'[s] = SessionOf(s, "failed", 0, 0) /\ session'[Other(s)] = session[Other(s)] /\ DOMAIN session' = Ends
  <2>1. session'[s] = [session[s] EXCEPT !.state = "failed"]
    BY <1>2 DEF IInv
  <2>2. [session[s] EXCEPT !.state = "failed"] = SessionOf(s, "failed", 0, 0)
    BY <1>4 DEF SessionOf
  <2>. QED
    BY <1>1, <1>2, <2>1, <2>2 DEF IInv
<1>6. session'[s].state = "failed" /\ session'[s].out = 0 /\ session'[s].in = 0
  BY <1>5 DEF SessionOf
<1>7. ReadBy(s, k)
  BY <1>1, <1>2, <1>5 DEF ReadBy, IInv
<1>8. StreamOK(s)' /\ Taken(s)' = Taken(s)
  <2>1. wire'[s] = wire[s]
    BY <1>1, <1>2 DEF IInv
  <2>2. Queued(s)' = Queued(s)
    BY <1>4, <1>6 DEF Queued
  <2>. QED
    BY <1>2, <1>3, <2>1, <2>2, StreamStays
<1>9. SessionOK(s)'
  <2>1. session'[s] = SessionOf(s, session'[s].state, session'[s].out, session'[s].in)
    BY <1>5, <1>6
  <2>2. /\ packet_queue'[s] \in Seq(Nat) /\ Len(packet_queue'[s]) = session'[s].in
        /\ \A i \in 1 .. Len(packet_queue'[s]) : packet_queue'[s][i] = i - 1
    BY <1>2, <1>3, <1>4, <1>6 DEF SessionOK
  <2>3. cut' # {} \/ dialled' = "another"
    BY <1>2
  <2>. QED
    BY <1>2, <1>6, <2>1, <2>2, <2>3, SameStreams DEF SessionOK
<1>. QED
  BY <1>7, <1>8, <1>9, AfterRead

\* A handshake ends: what the read holds behind it is decoded, and the hello
\* follows what the handshake still had to send.
LEMMA Completing ==
  ASSUME IInv, NEW s \in Ends, NEW k \in 1 .. MaxRead, Ingress(s, k),
         session[s].state = "handshake", dialled = "responder", k >= 2,
         NEW segs, segs = SubSeq(wire[Other(s)], 1, k),
         NEW first \in Seq(Messages), Queued(s) + Len(first) = 1,
         \A i \in 1 .. Len(first) : first[i] = Message(s, Queued(s) + i),
         Complete(s, SessionOf(s, "ready", 0, 0), SubSeq(segs, 3, Len(segs)), first)
  PROVE  IInv'
<1>1. PICK o \in Ends : o = Other(s) /\ Other(o) = s /\ o # s
  BY OtherEnd
<1>2. k \in Nat /\ k >= 1 /\ k <= Len(wire[o])
  BY <1>1, SessionAssumption DEF Ingress
<1>3. PICK rest, open, d : /\ rest = SubSeq(segs, 3, Len(segs)) /\ open = FALSE
                           /\ d = Decode(SessionOf(s, "ready", 0, 0), open, rest)
  OBVIOUS
<1>4. \A t \in Ends : StreamOK(t) /\ SessionOK(t) /\ Queued(t) \in Nat
  BY Counters DEF IInv
<1>5. /\ session[s].out = 0 /\ session[s].in = 0 /\ sent[s] = 0 /\ Taken(o) = 0
      /\ packet_queue[s] \in Seq(Nat) /\ Len(packet_queue[s]) = 0
      /\ \A i \in 1 .. Len(packet_queue[s]) : packet_queue[s][i] = i - 1
  BY <1>1, <1>4 DEF SessionOK
<1>6. segs \in Seq(Pieces) /\ Len(segs) = k /\ \A i \in 1 .. k : segs[i] = Segment(o, i)
  <2>1. segs \in Seq(Pieces) /\ Len(segs) = k /\ \A i \in 1 .. k : segs[i] = Segment(o, Taken(o) + i)
    BY <1>1, <1>2, <1>4, SegsRead
  <2>. QED
    BY <1>5, <2>1
<1>7. Len(rest) = k - 2 /\ \A i \in 1 .. k - 2 : rest[i] = Segment(o, 2 + i)
  <2>1. /\ Len(rest) = IF 3 <= k THEN k - 3 + 1 ELSE 0
        /\ \A i \in 1 .. k - 3 + 1 : rest[i] = segs[3 + i - 1]
    <3>1. \A i \in 3 .. k : segs[i] \in Pieces
      BY <1>6, ElementOfSeq
    <3>. QED
      BY <1>2, <1>3, <1>6, <3>1, SubSeqProperties
  <2>2. Len(rest) = k - 2
    BY <1>2, <2>1
  <2>3. ASSUME NEW i \in 1 .. k - 2 PROVE rest[i] = Segment(o, 2 + i)
    <3>1. i \in 1 .. k - 3 + 1 /\ 3 + i - 1 = 2 + i /\ 2 + i \in 1 .. k
      BY <1>2
    <3>. QED
      BY <1>6, <2>1, <3>1
  <2>. QED
    BY <2>2, <2>3
<1>8. Decoded(d, o, 0, 2, k)
  <2>1. Len(rest) \in Nat /\ Frames(2) = 0 /\ 2 + Len(rest) = k
    BY <1>2, <1>7 DEF Frames
  <2>2. d = Decode(SessionOf(Other(o), "ready", 0, Frames(2)), open, rest)
    BY <1>1, <1>3, <2>1
  <2>3. \A i \in 1 .. Len(rest) : rest[i] = Segment(o, 2 + i)
    BY <1>7
  <2>4. Decoded(d, o, 0, 2, 2 + Len(rest))
    BY <2>1, <2>2, <2>3, DecodeFrames
  <2>. QED
    BY <2>1, <2>4
<1>9. d.ss = SessionOf(s, "ready", 0, Frames(k)) /\ d.ss.state = "ready"
  BY <1>1, <1>8 DEF Decoded, SessionOf
<1>10. /\ session' = [session EXCEPT ![s] = [d.ss EXCEPT !.out = 1]]
       /\ packet_queue' = [packet_queue EXCEPT ![s] = @ \o d.got]
       /\ message_queue' = [message_queue EXCEPT ![s] = @ \o first \o <<Frame(d.ss, Hello)>>]
       /\ cut' = cut
  BY <1>3, <1>9 DEF Complete
<1>11. /\ UNCHANGED <<dialled, eip8>> /\ sent' = sent
       /\ wire' = [wire EXCEPT ![o] = SubSeq(@, k + 1, Len(@))]
  BY <1>1 DEF Ingress
<1>12. session'[s] = SessionOf(s, "ready", 1, Frames(k)) /\ session'[o] = session[o] /\ DOMAIN session' = Ends
  <2>1. [d.ss EXCEPT !.out = 1] = SessionOf(s, "ready", 1, Frames(k))
    BY <1>9 DEF SessionOf
  <2>. QED
    BY <1>1, <1>10, <2>1 DEF IInv
<1>13. session'[s].state = "ready" /\ session'[s].out = 1 /\ session'[s].in = Frames(k) /\ Frames(k) \in Nat
  BY <1>2, <1>12 DEF SessionOf, Frames
<1>14. /\ packet_queue' \in [Ends -> Seq(Nat)] /\ packet_queue'[o] = packet_queue[o]
       /\ packet_queue'[s] \in Seq(Nat) /\ Len(packet_queue'[s]) = Frames(k)
       /\ \A i \in 1 .. Len(packet_queue'[s]) : packet_queue'[s][i] = i - 1
  <2>1. PICK p, g : p = packet_queue[s] /\ g = d.got
    OBVIOUS
  <2>2. /\ p \in Seq(Nat) /\ Len(p) = 0 /\ \A i \in 1 .. Len(p) : p[i] = i - 1
        /\ g \in Seq(Nat) /\ Len(g) = Frames(k) - 0
        /\ \A i \in 1 .. Len(g) : g[i] = 0 + i - 1
    <3>1. Frames(2) = 0
      BY DEF Frames
    <3>. QED
      BY <1>5, <1>8, <2>1, <3>1 DEF Decoded
  <2>3. /\ p \o g \in Seq(Nat) /\ Len(p \o g) = Frames(k)
        /\ \A i \in 1 .. Len(p \o g) : (p \o g)[i] = i - 1
    BY <1>13, <2>2, Received
  <2>. QED
    BY <1>1, <1>10, <2>1, <2>3 DEF IInv
<1>15. Frame(d.ss, Hello) = Message(s, 2) /\ Message(s, 2) \in Messages
  <2>1. d.ss.keys.egress = Keys(s).egress /\ d.ss.out = 0
    BY <1>9 DEF SessionOf
  <2>2. Frame(d.ss, Hello) = [type |-> "frame", key |-> Keys(s).egress, count |-> 0, packet |-> 0]
    BY <2>1 DEF Frame, Hello
  <2>3. Message(s, 2) = [type |-> "frame", key |-> Keys(s).egress, count |-> 2 - 2, packet |-> 2 - 2]
    BY DEF Message
  <2>4. 2 - 2 = 0 /\ 2 \in Nat
    OBVIOUS
  <2>. QED
    BY <2>2, <2>3, <2>4 DEF Messages
<1>16. DOMAIN message_queue' = Ends /\ message_queue'[o] = message_queue[o]
  BY <1>1, <1>10 DEF IInv
<1>17. ReadBy(s, k)
  BY <1>1, <1>2, <1>10, <1>11, <1>12, <1>14, <1>16 DEF ReadBy, IInv
<1>18. StreamOK(s)' /\ Taken(s)' = Taken(s)
  <2>1. PICK n, out : n = Len(first) /\ out = first \o <<Message(s, 2)>>
    OBVIOUS
  <2>2. n \in Nat /\ Queued(s) \in Nat /\ Queued(s) + n = 1
    BY <1>4, <2>1
  <2>3. <<Message(s, 2)>> \in Seq(Messages) /\ Len(<<Message(s, 2)>>) = 1
    BY <1>15
  <2>4. /\ out \in Seq(Messages) /\ Len(out) = n + 1
        /\ \A i \in 1 .. n : out[i] = first[i]
        /\ out[n + 1] = Message(s, 2)
    <3>1. out = Append(first, Message(s, 2))
      BY <1>15, <2>1, AppendIsConcat
    <3>. QED
      BY <1>15, <2>1, <3>1, AppendProperties
  <2>5. ASSUME NEW i \in 1 .. Len(out) PROVE out[i] = Message(s, Queued(s) + i)
    <3>1. CASE i = n + 1
      <4>1. Queued(s) + i = 2
        BY <2>2, <3>1
      <4>. QED
        BY <2>4, <3>1, <4>1
    <3>2. CASE i # n + 1
      <4>1. i \in 1 .. n
        BY <2>2, <2>4, <3>2
      <4>. QED
        BY <2>1, <2>4, <4>1
    <3>. QED
      BY <3>1, <3>2
  <2>6. message_queue'[s] = message_queue[s] \o out
    <3>1. message_queue'[s] = (message_queue[s] \o first) \o <<Message(s, 2)>>
      BY <1>10, <1>15 DEF IInv
    <3>2. message_queue[s] \in Seq(Messages)
      BY <1>4 DEF StreamOK
    <3>3. (message_queue[s] \o first) \o <<Message(s, 2)>> = message_queue[s] \o (first \o <<Message(s, 2)>>)
      <4>1. PICK q, f, h : q = message_queue[s] /\ f = first /\ h = <<Message(s, 2)>>
        OBVIOUS
      <4>2. q \in Seq(Messages) /\ f \in Seq(Messages) /\ h \in Seq(Messages)
        BY <2>3, <3>2, <4>1
      <4>3. (q \o f) \o h = q \o (f \o h)
        BY <4>2, ConcatTwice, SMTT(30)
      <4>. QED
        BY <4>1, <4>3
    <3>. QED
      BY <2>1, <3>1, <3>3
  <2>7. wire'[s] = wire[s]
    BY <1>1, <1>11 DEF IInv
  <2>8. Queued(s)' = 2
    BY <1>13 DEF Queued
  <2>9. Queued(s)' = Queued(s) + Len(out)
    BY <2>2, <2>4, <2>8
  <2>. QED
    BY <1>4, <1>11, <2>4, <2>5, <2>6, <2>7, <2>9, Queueing
<1>19. ASSUME Taken(o)' = Taken(o) + k PROVE SessionOK(s)'
  <2>1. session'[s] = SessionOf(s, session'[s].state, session'[s].out, session'[s].in)
    BY <1>12, <1>13
  <2>2. session'[s].in = (Taken(o)' - 2) \div 2 /\ Taken(o)' >= 2
    BY <1>2, <1>5, <1>13, <1>19 DEF Frames
  <2>3. /\ session'[s].out \in Nat /\ session'[s].in \in Nat /\ session'[s].out = 1 + sent'[s]
        /\ dialled' = "responder"
    BY <1>5, <1>11, <1>13
  <2>4. Len(packet_queue'[s]) = session'[s].in
    BY <1>13, <1>14
  <2>. QED
    BY <1>1, <1>11, <1>13, <1>14, <2>1, <2>2, <2>3, <2>4, SameStreams DEF SessionOK
<1>. QED
  BY <1>1, <1>17, <1>18, <1>19, AfterRead

\* The handshake messages, and what each end makes of the other's.
LEMMA Handshake ==
  /\ Auth.to = dialled /\ Ack.to = "initiator"
  /\ [Fresh EXCEPT !.state = "ready", !.remote_pubkey = Auth.pubkey,
        !.keys = setup_cipher("responder", Auth.ephemeral, Auth.nonce, Ack.nonce, Auth, Ack)]
     = SessionOf("responder", "ready", 0, 0)
  /\ dialled = "responder" =>
     [Fresh EXCEPT !.state = "ready", !.remote_pubkey = dialled,
        !.keys = setup_cipher("initiator", Ack.ephemeral, Auth.nonce, Ack.nonce, Auth, Ack)]
     = SessionOf("initiator", "ready", 0, 0)
<1>1. /\ Auth.to = dialled /\ Auth.pubkey = "initiator" /\ Auth.ephemeral = "eph-initiator"
      /\ Auth.nonce = "nonce-initiator"
  BY DEF Auth, create_auth
<1>2. /\ Ack.to = "initiator" /\ Ack.ephemeral = "eph-responder" /\ Ack.nonce = "nonce-responder"
  BY <1>1 DEF Ack, create_auth_ack
<1>3. /\ setup_cipher("responder", Auth.ephemeral, Auth.nonce, Ack.nonce, Auth, Ack) = Keys("responder")
      /\ setup_cipher("initiator", Ack.ephemeral, Auth.nonce, Ack.nonce, Auth, Ack) = Keys("initiator")
  BY <1>1, <1>2 DEF Keys, Ephemeral, Other
<1>4. PICK auth, ack : auth = Auth /\ ack = Ack
  OBVIOUS
<1>5. PICK ki, kr : ki = Keys("initiator") /\ kr = Keys("responder")
  OBVIOUS
<1>6. ASSUME NEW keys, NEW key
      PROVE  [Fresh EXCEPT !.state = "ready", !.remote_pubkey = key, !.keys = keys]
             = [state |-> "ready", keys |-> keys, remote_pubkey |-> key, out |-> 0, in |-> 0]
  <2>1. PICK fresh, st0, st, none, key0, z :
          /\ fresh = Fresh /\ none = [egress |-> <<>>, ingress |-> <<>>]
          /\ st0 = "handshake" /\ st = "ready" /\ key0 = "unknown" /\ z = 0
    OBVIOUS
  <2>2. fresh = [state |-> st0, keys |-> none, remote_pubkey |-> key0, out |-> z, in |-> z]
    BY <2>1 DEF Fresh
  <2>3. [fresh EXCEPT !.state = st, !.remote_pubkey = key, !.keys = keys]
        = [state |-> st, keys |-> keys, remote_pubkey |-> key, out |-> z, in |-> z]
    <3>1. PICK r1 : r1 = [fresh EXCEPT !.state = st]
      OBVIOUS
    <3>2. PICK r2 : r2 = [r1 EXCEPT !.remote_pubkey = key]
      OBVIOUS
    <3>3. [fresh EXCEPT !.state = st, !.remote_pubkey = key, !.keys = keys] = [r2 EXCEPT !.keys = keys]
      BY <3>1, <3>2
    <3>4. r1 = [state |-> st, keys |-> none, remote_pubkey |-> key0, out |-> z, in |-> z]
      BY <2>2, <3>1
    <3>5. r2 = [state |-> st, keys |-> none, remote_pubkey |-> key, out |-> z, in |-> z]
      BY <3>2, <3>4
    <3>6. [r2 EXCEPT !.keys = keys]
          = [state |-> st, keys |-> keys, remote_pubkey |-> key, out |-> z, in |-> z]
      BY <3>5
    <3>. QED
      BY <3>3, <3>6
  <2>. QED
    BY <2>1, <2>3, Zenon
<1>7. Other("responder") = "initiator" /\ Other("initiator") = "responder"
  BY DEF Other
<1>8. /\ SessionOf("responder", "ready", 0, 0)
         = [state |-> "ready", keys |-> kr, remote_pubkey |-> "initiator", out |-> 0, in |-> 0]
      /\ SessionOf("initiator", "ready", 0, 0)
         = [state |-> "ready", keys |-> ki, remote_pubkey |-> "responder", out |-> 0, in |-> 0]
  BY <1>5, <1>7 DEF SessionOf
<1>9. [Fresh EXCEPT !.state = "ready", !.remote_pubkey = Auth.pubkey,
          !.keys = setup_cipher("responder", Auth.ephemeral, Auth.nonce, Ack.nonce, Auth, Ack)]
       = SessionOf("responder", "ready", 0, 0)
  <2>1. PICK keys, key :
          /\ keys = setup_cipher("responder", Auth.ephemeral, Auth.nonce, Ack.nonce, Auth, Ack)
          /\ key = Auth.pubkey
    OBVIOUS
  <2>2. keys = kr /\ key = "initiator"
    BY <1>1, <1>3, <1>5, <2>1
  <2>3. [Fresh EXCEPT !.state = "ready", !.remote_pubkey = key, !.keys = keys]
        = [state |-> "ready", keys |-> keys, remote_pubkey |-> key, out |-> 0, in |-> 0]
    BY <1>6, Zenon
  <2>4. SessionOf("responder", "ready", 0, 0)
        = [state |-> "ready", keys |-> keys, remote_pubkey |-> key, out |-> 0, in |-> 0]
    BY <1>8, <2>2
  <2>. QED
    BY <2>1, <2>3, <2>4, Zenon
<1>10. ASSUME dialled = "responder"
       PROVE  [Fresh EXCEPT !.state = "ready", !.remote_pubkey = dialled,
                 !.keys = setup_cipher("initiator", Ack.ephemeral, Auth.nonce, Ack.nonce, Auth, Ack)]
              = SessionOf("initiator", "ready", 0, 0)
  <2>1. PICK keys, key :
          /\ keys = setup_cipher("initiator", Ack.ephemeral, Auth.nonce, Ack.nonce, Auth, Ack)
          /\ key = dialled
    OBVIOUS
  <2>2. keys = ki /\ key = "responder"
    BY <1>3, <1>5, <1>10, <2>1
  <2>3. [Fresh EXCEPT !.state = "ready", !.remote_pubkey = key, !.keys = keys]
        = [state |-> "ready", keys |-> keys, remote_pubkey |-> key, out |-> 0, in |-> 0]
    BY <1>6, Zenon
  <2>4. SessionOf("initiator", "ready", 0, 0)
        = [state |-> "ready", keys |-> keys, remote_pubkey |-> key, out |-> 0, in |-> 0]
    BY <1>8, <2>2
  <2>. QED
    BY <2>1, <2>3, <2>4, Zenon
<1>. QED
  BY <1>1, <1>2, <1>9, <1>10

\* The first segment of a stream is the start of the handshake.
LEMMA FirstSegment ==
  ASSUME NEW o
  PROVE  Segment(o, 1).msg = IF o = "initiator" THEN Auth ELSE Ack
<1>1. (1 + 1) \div 2 = 1
  OBVIOUS
<1>. QED
  BY <1>1 DEF Segment, Message

\* The responder reads the auth: nothing can be behind it yet.
LEMMA ReadAuth ==
  ASSUME IInv, NEW k \in 1 .. MaxRead, Ingress("responder", k),
         session["responder"].state = "handshake"
  PROVE  IInv'
<1> DEFINE s == "responder"
           o == "initiator"
<1>1. s \in Ends /\ o \in Ends /\ Other(s) = o /\ Other(o) = s
  BY DEF Ends, Other
<1>2. PICK segs, auth, ready, rest :
        /\ segs = SubSeq(wire[o], 1, k) /\ auth = segs[1].msg
        /\ ready = [Fresh EXCEPT !.state = "ready", !.remote_pubkey = auth.pubkey,
             !.keys = setup_cipher(s, auth.ephemeral, auth.nonce, create_auth_ack(auth).nonce,
                                   auth, create_auth_ack(auth))]
        /\ rest = SubSeq(segs, 3, Len(segs))
  OBVIOUS
<1>3. /\ k <= Len(wire[o]) /\ k \in Nat /\ k >= 1
      /\ \/ ~ Whole(segs, "auth") /\ Fails(s, {"auth cut"})
         \/ auth.to # "responder" /\ Fails(s, {})
         \/ /\ Whole(segs, "auth") /\ auth.to = "responder"
            /\ Complete(s, ready, rest, <<create_auth_ack(auth)>>)
  <2>1. k <= Len(wire[o]) /\ k \in Nat /\ k >= 1
    BY <1>1, SessionAssumption DEF Ingress
  <2>2. decode_authentication(segs)
    BY <1>1, <1>2 DEF Ingress
  <2>3. decode_authentication(segs) =
          IF ~ Whole(segs, "auth") THEN Fails(s, {"auth cut"})
          ELSE IF auth.to # "responder" THEN Fails(s, {})
          ELSE Complete(s, ready, rest, <<create_auth_ack(auth)>>)
    BY <1>2, Zenon DEF decode_authentication
  <2>. QED
    BY <2>1, <2>2, <2>3
<1>4. \A t \in Ends : StreamOK(t) /\ SessionOK(t) /\ Queued(t) \in Nat /\ Taken(t) \in Nat
  BY Counters DEF IInv
<1>5. Taken(o) = 0 /\ session[s].out = 0
  BY <1>1, <1>4 DEF SessionOK
<1>6. segs[1] = Segment(o, 1) /\ Len(segs) = k
  <2>1. Len(segs) = k /\ \A i \in 1 .. k : segs[i] = Segment(o, Taken(o) + i)
    BY <1>1, <1>2, <1>3, <1>4, SegsRead
  <2>2. 1 \in 1 .. k
    BY SessionAssumption
  <2>3. Taken(o) + 1 = 1
    BY <1>5
  <2>. QED
    BY <2>1, <2>2, <2>3
<1>7. auth = Auth /\ create_auth_ack(auth) = Ack
  BY <1>2, <1>6, FirstSegment DEF Ack
<1>8. CASE Fails(s, {"auth cut"})
  BY <1>1, <1>8, Failing
<1>9. CASE auth.to # "responder" /\ Fails(s, {})
  <2>1. dialled = "another"
    BY <1>7, <1>9, Handshake DEF IInv
  <2>. QED
    BY <1>1, <1>9, <2>1, Failing
<1>10. CASE Whole(segs, "auth") /\ auth.to = "responder" /\ Complete(s, ready, rest, <<create_auth_ack(auth)>>)
  <2>1. ready = SessionOf(s, "ready", 0, 0) /\ dialled = "responder"
    BY <1>2, <1>7, <1>10, Handshake
  <2>2. k >= 2
    BY <1>6, <1>10 DEF Whole
  <2>3. Queued(s) = 0
    BY <1>5 DEF Queued
  <2>4. PICK first : first = <<create_auth_ack(auth)>>
    OBVIOUS
  <2>5. Message(s, 1) = Ack /\ Message(s, 1) \in Messages
    BY <1>1 DEF Message, Messages
  <2>6. /\ first \in Seq(Messages) /\ Len(first) = 1 /\ first[1] = Message(s, 1)
    BY <1>7, <2>4, <2>5
  <2>7. /\ Queued(s) + Len(first) = 1
        /\ \A i \in 1 .. Len(first) : first[i] = Message(s, Queued(s) + i)
    BY <2>3, <2>6
  <2>8. Complete(s, SessionOf(s, "ready", 0, 0), SubSeq(segs, 3, Len(segs)), first)
    BY <1>2, <1>10, <2>1, <2>4
  <2>9. segs = SubSeq(wire[Other(s)], 1, k)
    BY <1>1, <1>2
  <2> HIDE DEF s
  <2>. QED
    BY <1>1, <2>1, <2>2, <2>6, <2>7, <2>8, <2>9, Completing DEF s
<1>. QED
  BY <1>3, <1>8, <1>9, <1>10

\* The initiator reads the ack, and possibly the hello and packets behind it.
LEMMA ReadAck ==
  ASSUME IInv, NEW k \in 1 .. MaxRead, Ingress("initiator", k),
         session["initiator"].state = "handshake"
  PROVE  IInv'
<1> DEFINE s == "initiator"
           o == "responder"
<1>1. s \in Ends /\ o \in Ends /\ Other(s) = o /\ Other(o) = s
  BY DEF Ends, Other
<1>2. PICK segs, ack, ready, rest, why :
        /\ segs = SubSeq(wire[o], 1, k) /\ ack = segs[1].msg
        /\ ready = [Fresh EXCEPT !.state = "ready", !.remote_pubkey = dialled,
             !.keys = setup_cipher(s, ack.ephemeral, Auth.nonce, ack.nonce, Auth, ack)]
        /\ rest = SubSeq(segs, 3, Len(segs))
        /\ why = {IF eip8 THEN "eip8 ack not alone" ELSE "ack cut"}
  OBVIOUS
<1>3. /\ k <= Len(wire[o]) /\ k \in Nat /\ k >= 1
      /\ \/ Fails(s, why)
         \/ ack.to # "initiator" /\ Fails(s, {})
         \/ Whole(segs, "ack") /\ Complete(s, ready, rest, <<>>)
  <2>1. k <= Len(wire[o]) /\ k \in Nat /\ k >= 1
    BY <1>1, SessionAssumption DEF Ingress
  <2>2. decode_auth_ack_message(segs)
    BY <1>1, <1>2 DEF Ingress
  <2>3. decode_auth_ack_message(segs) =
          IF ~ Whole(segs, "ack") THEN Fails(s, why)
          ELSE IF ack.to # "initiator" THEN Fails(s, {})
          ELSE Complete(s, ready, rest, <<>>)
    BY <1>2, Zenon DEF decode_auth_ack_message, Auth
  <2>. QED
    BY <2>1, <2>2, <2>3
<1>4. \A t \in Ends : StreamOK(t) /\ SessionOK(t) /\ Queued(t) \in Nat /\ Taken(t) \in Nat
  BY Counters DEF IInv
<1>5. Taken(o) = 0 /\ session[s].out = 0
  BY <1>1, <1>4 DEF SessionOK
<1>6. segs[1] = Segment(o, 1) /\ Len(segs) = k
  <2>1. Len(segs) = k /\ \A i \in 1 .. k : segs[i] = Segment(o, Taken(o) + i)
    BY <1>1, <1>2, <1>3, <1>4, SegsRead
  <2>2. 1 \in 1 .. k
    BY SessionAssumption
  <2>3. Taken(o) + 1 = 1
    BY <1>5
  <2>. QED
    BY <2>1, <2>2, <2>3
<1>7. ack = Ack
  <2>1. Segment(o, 1).msg = Ack
    BY FirstSegment
  <2>. QED
    BY <1>2, <1>6, <2>1
<1>8. dialled = "responder"
  <2>1. Queued(o) >= 1
    <3>1. Len(wire[o]) \in Nat /\ Len(wire[o]) >= 1 /\ Len(message_queue[o]) \in Nat
      BY <1>1, <1>3, <1>4 DEF StreamOK
    <3>2. 0 = 2 * Queued(o) - 2 * Len(message_queue[o]) - Len(wire[o])
      BY <1>5 DEF Taken
    <3>. QED
      BY <1>1, <1>4, <3>1, <3>2
  <2>2. session[o].state = "ready"
    BY <1>1, <1>4, <2>1 DEF Queued, SessionOK
  <2>. QED
    BY <1>1, <1>4, <2>2 DEF SessionOK
<1>9. CASE Fails(s, why)
  <2>1. why # {}
    BY <1>2
  <2>. QED
    BY <1>1, <1>9, <2>1, Failing
<1>10. CASE ack.to # "initiator" /\ Fails(s, {})
  BY <1>7, <1>10, Handshake
<1>11. CASE Whole(segs, "ack") /\ Complete(s, ready, rest, <<>>)
  <2>1. ready = SessionOf(s, "ready", 0, 0)
    BY <1>2, <1>7, <1>8, Handshake
  <2>2. k >= 2
    BY <1>6, <1>11 DEF Whole
  <2>3. Queued(s) = 1
    BY <1>5 DEF Queued
  <2>4. PICK first : first = <<>>
    OBVIOUS
  <2>5. first \in Seq(Messages) /\ Len(first) = 0
    BY <2>4
  <2>6. /\ Queued(s) + Len(first) = 1
        /\ \A i \in 1 .. Len(first) : first[i] = Message(s, Queued(s) + i)
    BY <2>3, <2>5
  <2>7. Complete(s, SessionOf(s, "ready", 0, 0), SubSeq(segs, 3, Len(segs)), first)
    BY <1>2, <1>11, <2>1, <2>4
  <2>8. segs = SubSeq(wire[Other(s)], 1, k)
    BY <1>1, <1>2
  <2> HIDE DEF s
  <2>. QED
    BY <1>1, <1>8, <2>2, <2>5, <2>6, <2>7, <2>8, Completing DEF s
<1>. QED
  BY <1>3, <1>9, <1>10, <1>11

\* Every step keeps the invariant.
LEMMA NextInv == IInv /\ [Next]_vars => IInv'
<1> SUFFICES ASSUME IInv, [Next]_vars PROVE IInv'
  OBVIOUS
<1>1. ASSUME NEW s \in Ends, Egress(s) PROVE IInv'
  BY <1>1, EgressInv
<1>2. ASSUME NEW s \in Ends, add_packet(s) PROVE IInv'
  BY <1>2, AddInv
<1>3. ASSUME NEW s \in Ends, NEW k \in 1 .. MaxRead, Ingress(s, k) PROVE IInv'
  <2>1. CASE session[s].state = "ready"
    BY <1>3, <2>1, PostHandshake
  <2>2. CASE session[s].state # "ready"
    <3>1. session[s].state = "handshake"
      BY <1>3, <2>2 DEF Ingress, IInv, SessionOK
    <3>. QED
      BY <1>3, <3>1, ReadAuth, ReadAck DEF Ends
  <2>. QED
    BY <2>1, <2>2
<1>4. CASE UNCHANGED vars
  <2>1. \A t \in Ends : Queued(t)' = Queued(t)
    BY <1>4 DEF vars, Queued
  <2>2. \A t \in Ends : StreamOK(t)' /\ Taken(t)' = Taken(t)
    BY <1>4, <2>1, StreamStays DEF vars, IInv
  <2>3. \A t \in Ends : SessionOK(t)'
    BY <1>4, <2>2, OtherEnd, SessionStays DEF vars, IInv
  <2>. QED
    BY <1>4, <2>2, <2>3 DEF vars, IInv
<1>. QED
  BY <1>1, <1>2, <1>3, <1>4 DEF Next

\* What each conjunct of the invariant says of one end, in terms of its state.
LEMMA WhatIsKnown ==
  ASSUME IInv, NEW s \in Ends
  PROVE  /\ session[s].state = "ready" =>
              /\ dialled = "responder"
              /\ session[s].keys = Keys(s) /\ session[s].remote_pubkey = Other(s)
         /\ session[s].state = "failed" => cut # {} \/ dialled = "another"
<1>1. SessionOK(s)
  BY DEF IInv
<1>2. session[s].state = "ready" =>
        session[s].keys = Keys(s) /\ session[s].remote_pubkey = Other(s)
  BY <1>1 DEF SessionOK, SessionOf
<1>. QED
  BY <1>1, <1>2 DEF SessionOK

LEMMA InvSecrets == IInv => SecretsAgree
<1> SUFFICES ASSUME IInv PROVE SecretsAgree
  OBVIOUS
<1>1. \A s \in Ends : session[s].state = "ready" => dialled = "responder"
  BY WhatIsKnown
<1>2. ASSUME \A s \in Ends : session[s].state = "ready"
      PROVE  /\ session["initiator"].keys.egress = session["responder"].keys.ingress
             /\ session["initiator"].keys.ingress = session["responder"].keys.egress
             /\ \A s \in Ends : session[s].remote_pubkey = Other(s)
  <2>1. \A s \in Ends : session[s].keys = Keys(s) /\ session[s].remote_pubkey = Other(s)
    BY <1>2, WhatIsKnown
  <2>2. "initiator" \in Ends /\ "responder" \in Ends /\ Other("initiator") = "responder"
    BY DEF Ends, Other
  <2>. QED
    BY <2>1, <2>2, KeysMatch
<1>. QED
  BY <1>1, <1>2 DEF SecretsAgree

LEMMA InvFailure == IInv => FailsOnlyInHandshake
BY WhatIsKnown DEF FailsOnlyInHandshake

LEMMA InvPackets == IInv => HelloThenPackets
<1> SUFFICES ASSUME IInv, NEW s \in Ends, packet_queue[s] # <<>>
             PROVE  /\ Head(packet_queue[s]) = Hello
                    /\ \A i \in 2 .. Len(packet_queue[s]) : packet_queue[s][i] = i - 1
                    /\ Len(packet_queue[s]) <= 1 + sent[Other(s)]
  BY DEF HelloThenPackets
<1>1. PICK o \in Ends : o = Other(s)
  BY OtherEnd
<1>2. \A t \in Ends : StreamOK(t) /\ SessionOK(t) /\ Queued(t) \in Nat /\ Taken(t) \in Nat
  BY Counters DEF IInv
<1>3. PICK p : p = packet_queue[s]
  OBVIOUS
<1>4. p \in Seq(Nat) /\ Len(p) \in Nat /\ Len(p) # 0 /\ \A i \in 1 .. Len(p) : p[i] = i - 1
  BY <1>2, <1>3, EmptySeq DEF SessionOK
<1>5. Head(p) = 0 /\ \A i \in 2 .. Len(p) : p[i] = i - 1
  <2>1. Head(p) = p[1] /\ 1 \in 1 .. Len(p)
    BY <1>3, <1>4
  <2>. QED
    BY <1>4, <2>1
<1>6. PICK T, q : T = Taken(o) /\ q = sent[o]
  OBVIOUS
<1>7. T \in Nat /\ q \in Nat /\ Len(p) = (T - 2) \div 2
  BY <1>1, <1>2, <1>3, <1>4, <1>6 DEF IInv, SessionOK
<1>8. T <= 2 * Queued(o)
  <2>1. Len(message_queue[o]) \in Nat /\ Len(wire[o]) \in Nat
    BY <1>2, Counters
  <2>. QED
    BY <1>2, <1>6, <2>1 DEF Taken
<1>9. Queued(o) <= 1 \/ Queued(o) = 2 + q
  <2>1. session[o].state = "ready" => Queued(o) = 2 + q
    <3>1. session[o].state = "ready" => session[o].out = 1 + q
      BY <1>2, <1>6 DEF SessionOK
    <3>. QED
      BY <1>7, <3>1 DEF Queued
  <2>2. session[o].state # "ready" => Queued(o) <= 1
    <3>1. session[o].state # "ready" => session[o].out = 0
      BY <1>2 DEF SessionOK
    <3>. QED
      BY <3>1 DEF Queued
  <2>. QED
    BY <2>1, <2>2
<1>10. Len(p) <= 1 + q
  <2>1. CASE Queued(o) <= 1
    <3>1. T <= 2
      BY <1>2, <1>7, <1>8, <2>1
    <3>2. (T - 2) \div 2 <= 0
      BY <1>7, <3>1
    <3>. QED
      BY <1>7, <3>2
  <2>2. CASE Queued(o) = 2 + q
    <3>1. T - 2 <= 2 * (1 + q)
      BY <1>7, <1>8, <2>2
    <3>2. (T - 2) \div 2 <= 1 + q
      BY <1>7, <3>1
    <3>. QED
      BY <1>7, <3>2
  <2>. QED
    BY <1>9, <2>1, <2>2
<1>. QED
  BY <1>1, <1>3, <1>5, <1>6, <1>10 DEF Hello

-----------------------------------------------------------------------------
\* Every reachable state is a pair of positions in two known streams.
THEOREM SessionInvariant == Spec => []IInv
BY InitInv, NextInv, PTL DEF Spec

\* setup_cipher: two ends that finished the handshake hold the same secrets,
\* each one's egress mac being the other's ingress mac, and each knows who the
\* other is; a node dialled under another key never finishes it.
THEOREM SecretsAlwaysAgree == Spec => []SecretsAgree
<1>1. Spec => []IInv
  BY SessionInvariant
<1>. QED
  BY <1>1, InvSecrets, PTL

\* _add_message_during_handshake, decode_header and decode_body: a session is
\* given up only over a handshake message that came in pieces or run together,
\* or over a wrong key; no mac check on a frame ever fails, for any number of
\* packets and wherever TCP cuts them.
THEOREM FramesNeverRefused == Spec => []FailsOnlyInHandshake
<1>1. Spec => []IInv
  BY SessionInvariant
<1>. QED
  BY <1>1, InvFailure, PTL

\* add_message and add_packet: what an end received is the other's hello and
\* then its packets in order, without a gap, none of them made up.
THEOREM PacketsInOrder == Spec => []HelloThenPackets
<1>1. Spec => []IInv
  BY SessionInvariant
<1>. QED
  BY <1>1, InvPackets, PTL
===============================================================================
