----------------------------- MODULE GossipProofs -----------------------------
(***************************************************************************)
(* The gossip baseline, for every network size, routing table and          *)
(* interleaving of its datagrams.  In push mode a datagram has lost at     *)
(* most as much of its time to live as nodes have forwarded its broadcast, *)
(* and the broadcast walks around the ring of successors.  In pull mode a  *)
(* request never reaches a node that cannot answer it, and a content       *)
(* passes from each holder to its successor unless a trial or the network  *)
(* failed between the two.                                                 *)
(***************************************************************************)
EXTENDS Gossip, FiniteSetTheorems, WellFoundedInduction, TLAPS

\* What every step of the gossip preserves.
GossipInv == TypeOK /\ HopsBounded

\* The nodes that forwarded a broadcast are a finite set of at most N nodes.
LEMMA SeenFinite ==
  ASSUME NEW b
  PROVE  /\ IsFiniteSet(SeenBy(b))
         /\ Cardinality(SeenBy(b)) \in Nat
         /\ Cardinality(SeenBy(b)) <= N
<1>1. IsFiniteSet(Node) /\ Cardinality(Node) = N
  BY FS_Interval, GossipAssumption DEF Node
<1>2. SeenBy(b) \subseteq Node
  BY DEF SeenBy
<1>. QED
  BY <1>1, <1>2, FS_Subset, FS_CardinalityType

\* What broadcast sends are well-formed datagrams with the given time-to-live.
LEMMA ForwardType ==
  ASSUME NEW n \in Node, NEW b \in Bid, NEW ttl \in 0 .. TTL,
         NEW I \in Draws, NEW trial \in BOOLEAN
  PROVE  /\ Forward(n, b, ttl, I, trial) \subseteq Message
         /\ \A m \in Forward(n, b, ttl, I, trial) : m.bid = b /\ m.ttl = ttl
<1>1. \A i \in I \cup {0} : Table[n][i] \in Node
  <2>1. I \subseteq 1 .. TableSize - 1
    BY DEF Draws
  <2>. QED
    BY <2>1, GossipAssumption
<1>2. ASSUME NEW m \in Forward(n, b, ttl, I, trial)
      PROVE  m \in Message /\ m.bid = b /\ m.ttl = ttl
  <2>1. PICK i \in I \cup {0} :
          m = [from |-> n, to |-> Table[n][i], bid |-> b, ttl |-> ttl]
    BY <1>2 DEF Forward
  <2>. QED
    BY <1>1, <2>1 DEF Message
<1>. QED
  BY <1>2

\* The invariant holds before anything was sent.
LEMMA InitGossip == Init => GossipInv
BY GossipAssumption DEF Init, GossipInv, TypeOK, HopsBounded, Message, Node, Bid

\* Each step keeps the types.
LEMMA NextType == TypeOK /\ [Next]_vars => TypeOK'
<1> SUFFICES ASSUME TypeOK, [Next]_vars PROVE TypeOK'
  OBVIOUS
<1> USE DEF TypeOK
<1>1. ASSUME NEW n \in Origins, Broadcast(n) PROVE TypeOK'
  <2>1. PICK I \in Draws, trial \in BOOLEAN :
          /\ net' = net \cup Forward(n, <<n, broadcasted_msgs[n]>>, TTL, I, trial)
          /\ skipped' = IF trial THEN skipped ELSE skipped \cup {<<n, broadcasted_msgs[n]>>}
    BY <1>1 DEF Broadcast
  <2>2. <<n, broadcasted_msgs[n]>> \in Bid /\ n \in Node
    BY <1>1, GossipAssumption DEF Broadcast, Bid
  <2>3. TTL \in 0 .. TTL
    BY GossipAssumption
  <2>4. net' \subseteq Message
    BY <2>1, <2>2, <2>3, ForwardType
  <2>5. broadcasted_msgs' \in [Origins -> 0 .. MaxBroadcasts]
    BY <1>1, GossipAssumption DEF Broadcast
  <2>6. skipped' \subseteq Bid
    BY <2>1, <2>2
  <2>. QED
    BY <1>1, <2>4, <2>5, <2>6 DEF Broadcast
<1>2. ASSUME NEW m \in net, Expire(m) PROVE TypeOK'
  BY <1>2 DEF Expire
<1>3. ASSUME NEW m \in net, Ignore(m) PROVE TypeOK'
  BY <1>3 DEF Ignore
<1>4. ASSUME NEW m \in net, Relay(m) PROVE TypeOK'
  <2>1. m.to \in Node /\ m.bid \in Bid /\ m.ttl - 1 \in 0 .. TTL
    BY <1>4, GossipAssumption DEF Message, Relay
  <2>2. PICK I \in Draws, trial \in BOOLEAN :
          /\ net' = (net \ {m}) \cup Forward(m.to, m.bid, m.ttl - 1, I, trial)
          /\ skipped' = IF trial THEN skipped ELSE skipped \cup {m.bid}
    BY <1>4 DEF Relay
  <2>3. net' \subseteq Message
    BY <2>1, <2>2, ForwardType
  <2>4. seen' \in [Node -> SUBSET Bid]
    BY <1>4, <2>1 DEF Relay
  <2>5. skipped' \subseteq Bid
    BY <2>1, <2>2
  <2>. QED
    BY <1>4, <2>3, <2>4, <2>5 DEF Relay
<1>5. ASSUME NEW m \in net, Drop(m) PROVE TypeOK'
  BY <1>5 DEF Drop
<1>6. CASE UNCHANGED vars
  BY <1>6 DEF vars
<1>. QED
  BY <1>1, <1>2, <1>3, <1>4, <1>5, <1>6 DEF Next, ReceiveAny

\* Each step keeps the bound: a relay lowers the time-to-live by one, and is
\* the first one of its node, so one more node has seen the broadcast.
LEMMA NextHops == GossipInv /\ [Next]_vars => HopsBounded'
<1> SUFFICES ASSUME GossipInv, [Next]_vars PROVE HopsBounded'
  OBVIOUS
<1> USE DEF GossipInv, TypeOK
<1>0. ASSUME UNCHANGED seen, \A m \in net' : m \in net \/ m.ttl = TTL
      PROVE  HopsBounded'
  <2>1. \A m \in net' : SeenBy(m.bid)' = SeenBy(m.bid)
    BY <1>0 DEF SeenBy
  <2>2. \A m \in net' : TTL - m.ttl <= Cardinality(SeenBy(m.bid))
    BY <1>0, SeenFinite, GossipAssumption DEF HopsBounded
  <2>. QED
    BY <2>1, <2>2 DEF HopsBounded
<1>1. ASSUME NEW n \in Origins, Broadcast(n) PROVE HopsBounded'
  <2>1. PICK I \in Draws, trial \in BOOLEAN :
          net' = net \cup Forward(n, <<n, broadcasted_msgs[n]>>, TTL, I, trial)
    BY <1>1 DEF Broadcast
  <2>2. \A m \in net' : m \in net \/ m.ttl = TTL
    BY <2>1 DEF Forward
  <2>. QED
    BY <1>0, <1>1, <2>2 DEF Broadcast
<1>2. ASSUME NEW m \in net, Expire(m) PROVE HopsBounded'
  BY <1>0, <1>2 DEF Expire
<1>3. ASSUME NEW m \in net, Ignore(m) PROVE HopsBounded'
  BY <1>0, <1>3 DEF Ignore
<1>4. ASSUME NEW m \in net, Relay(m) PROVE HopsBounded'
  <2>1. m.to \in Node /\ m.bid \in Bid /\ m.ttl \in 1 .. TTL
    BY <1>4, GossipAssumption DEF Message, Relay
  <2>2. PICK I \in Draws, trial \in BOOLEAN :
          net' = (net \ {m}) \cup Forward(m.to, m.bid, m.ttl - 1, I, trial)
    BY <1>4 DEF Relay
  <2>3. SeenBy(m.bid)' = SeenBy(m.bid) \cup {m.to} /\ m.to \notin SeenBy(m.bid)
    BY <1>4, <2>1 DEF Relay, SeenBy
  <2>4. Cardinality(SeenBy(m.bid)') = Cardinality(SeenBy(m.bid)) + 1
    BY <2>3, SeenFinite, FS_AddElement
  <2>5. \A b : b # m.bid => SeenBy(b)' = SeenBy(b)
    BY <1>4, <2>1 DEF Relay, SeenBy
  <2>6. ASSUME NEW k \in net' PROVE TTL - k.ttl <= Cardinality(SeenBy(k.bid)')
    <3>1. CASE k \in net
      <4>1. TTL - k.ttl <= Cardinality(SeenBy(k.bid)) /\ k.ttl \in 0 .. TTL
        BY <3>1 DEF HopsBounded, Message
      <4>2. Cardinality(SeenBy(k.bid)) <= Cardinality(SeenBy(k.bid)')
        BY <2>4, <2>5, SeenFinite
      <4>3. Cardinality(SeenBy(k.bid)) \in Nat /\ Cardinality(SeenBy(k.bid)') \in Nat
        BY <2>4, <2>5, SeenFinite
      <4>. QED
        BY <4>1, <4>2, <4>3, GossipAssumption
    <3>2. CASE k \notin net
      <4>1. k.bid = m.bid /\ k.ttl = m.ttl - 1
        BY <2>1, <2>2, <3>2 DEF Forward
      <4>2. TTL - m.ttl <= Cardinality(SeenBy(m.bid))
        BY DEF HopsBounded
      <4>. QED
        BY <2>1, <2>4, <4>1, <4>2, SeenFinite, GossipAssumption
    <3>. QED
      BY <3>1, <3>2
  <2>. QED
    BY <2>6 DEF HopsBounded
<1>5. ASSUME NEW m \in net, Drop(m) PROVE HopsBounded'
  BY <1>0, <1>5 DEF Drop
<1>6. CASE UNCHANGED vars
  BY <1>0, <1>6 DEF vars
<1>. QED
  BY <1>1, <1>2, <1>3, <1>4, <1>5, <1>6 DEF Next, ReceiveAny

\* The gossip keeps its types and the bound on the time-to-live, whatever the
\* network, the tables and the random choices of PeerManagerETH::broadcast.
THEOREM GossipInvariant == Spec => []GossipInv
<1>1. GossipInv /\ [Next]_vars => GossipInv'
  BY NextType, NextHops DEF GossipInv
<1>. QED
  BY InitGossip, <1>1, PTL DEF Spec

\* In particular the time-to-live only pays for first forwards.
THEOREM GossipHopsBounded == Spec => []HopsBounded
BY GossipInvariant, PTL DEF GossipInv

\* A TTL_ETH above the number of nodes never makes receive throw a datagram
\* away.
THEOREM GossipNeverExpires == Spec => []NeverExpires
<1>1. GossipInv => NeverExpires
  <2> SUFFICES ASSUME GossipInv, TTL > N, NEW m \in net PROVE m.ttl > 0
    BY DEF NeverExpires
  <2>1. TTL - m.ttl <= Cardinality(SeenBy(m.bid)) /\ m.ttl \in 0 .. TTL
    BY DEF GossipInv, HopsBounded, TypeOK, Message
  <2>. QED
    BY <2>1, SeenFinite, GossipAssumption
<1>. QED
  BY <1>1, GossipInvariant, PTL
-----------------------------------------------------------------------------
(* Coverage.                                                               *)

Succ(n) == (n + 1) % N

\* No forward of b left out its successor, no datagram of b was dropped.
Untouched(b) == b \notin skipped /\ \A m \in dropped : m.bid # b

\* The nodes that sent b on.
Senders(b) == SeenBy(b) \cup {b[1]}

\* n has forwarded b, or is about to.
Reached(b, n) == b \in seen[n] \/ \E m \in net : m.bid = b /\ m.to = n

\* The successor of a sender is reached, or b has used up its time-to-live.
Covered(b) == Cardinality(SeenBy(b)) >= TTL \/ \A n \in Senders(b) : Reached(b, Succ(n))

\* What coverage rests on: nothing is known of a broadcast before it began.
CoverInv ==
  /\ GossipInv
  /\ \A m \in net : Begun(m.bid)
  /\ \A n \in Node : \A b \in seen[n] : Begun(b)
  /\ \A b \in Bid : Begun(b) /\ Untouched(b) => Covered(b)

\* Every non-empty set of naturals has a least element.
LEMMA LeastNat ==
  ASSUME NEW T, T \subseteq Nat, T # {}
  PROVE  \E x \in T : \A y \in T : x <= y
<1>1. PICK x \in T : \A y \in T : ~ (<<y, x>> \in OpToRel(<, Nat))
  BY NatLessThanWellFounded, WFMin
<1>2. \A y \in T : ~ (y < x)
  BY <1>1 DEF OpToRel
<1>. QED
  BY <1>2

\* A set of nodes that contains the successors of its members is all or nothing.
LEMMA AllAround ==
  ASSUME NEW S, S \subseteq Node, S # {}, \A n \in S : Succ(n) \in S
  PROVE  S = Node
<1>0. N \in Nat /\ N >= 1
  BY GossipAssumption
<1>1. ASSUME NEW x \in S PROVE \A k \in x .. N - 1 : k \in S
  <2> DEFINE T == {k \in x .. N - 1 : k \notin S}
  <2>1. x \in Nat /\ x < N
    BY <1>0 DEF Node
  <2>2. ASSUME T # {} PROVE FALSE
    <3>1. T \subseteq Nat
      BY <1>0, <2>1
    <3>2. PICK k \in T : \A l \in T : k <= l
      BY <2>2, <3>1, LeastNat
    <3>3. k # x /\ k - 1 \in x .. N - 1 /\ k - 1 \notin T
      BY <1>0, <2>1, <3>2
    <3>4. k - 1 \in S /\ Succ(k - 1) = k
      BY <1>0, <2>1, <3>2, <3>3 DEF Succ
    <3>. QED
      BY <3>2, <3>4
  <2>. QED
    BY <2>2
<1>2. PICK x \in S : TRUE
  OBVIOUS
<1>3. x \in Nat /\ x <= N - 1
  BY <1>0 DEF Node
<1>4. N - 1 \in S
  BY <1>0, <1>1, <1>3
<1>5. Succ(N - 1) = 0
  BY <1>0 DEF Succ
<1>6. 0 \in S
  BY <1>4, <1>5
<1>. QED
  BY <1>1, <1>6 DEF Node

\* The successor of a node is one.
LEMMA SuccNode == ASSUME NEW n \in Node PROVE Succ(n) \in Node
BY GossipAssumption DEF Succ, Node

\* b stays covered when nobody is forgotten and whoever sends it on for the
\* first time reaches the successor.
LEMMA CoveredStays ==
  ASSUME NEW b, Covered(b),
         SeenBy(b) \subseteq SeenBy(b)',
         \A n : Reached(b, n) => Reached(b, n)',
         \A n \in SeenBy(b)' \ SeenBy(b) : Reached(b, Succ(n))'
  PROVE  Covered(b)'
<1>1. CASE Cardinality(SeenBy(b)) >= TTL
  <2>0. IsFiniteSet(Node) /\ SeenBy(b)' \subseteq Node
    <3>1. IsFiniteSet(0 .. N - 1)
      BY FS_Interval, GossipAssumption
    <3>. QED
      BY <3>1 DEF Node, SeenBy
  <2>1. IsFiniteSet(SeenBy(b)')
    BY <2>0, FS_Subset
  <2>2. Cardinality(SeenBy(b)) <= Cardinality(SeenBy(b)')
    BY <2>1, FS_Subset
  <2>3. Cardinality(SeenBy(b)) \in Nat /\ Cardinality(SeenBy(b)') \in Nat
    BY <2>1, SeenFinite, FS_CardinalityType
  <2>. QED
    BY <1>1, <2>2, <2>3, GossipAssumption DEF Covered
<1>2. CASE \A n \in Senders(b) : Reached(b, Succ(n))
  BY <1>2 DEF Covered, Senders
<1>. QED
  BY <1>1, <1>2 DEF Covered

\* Nothing is known of any broadcast before the first.
LEMMA InitCover == Init => CoverInv
BY InitGossip, GossipAssumption DEF Init, CoverInv, Begun, Bid

\* Each step keeps the coverage.
LEMMA NextCover == CoverInv /\ [Next]_vars => CoverInv'
<1> SUFFICES ASSUME CoverInv, [Next]_vars PROVE CoverInv'
  OBVIOUS
<1>0. TypeOK /\ GossipInv'
  BY NextType, NextHops DEF CoverInv, GossipInv
\* A step that forwards nothing, and takes from the wire only what is expired,
\* forwarded already or dropped.
<1>1. ASSUME NEW m \in net, net' = net \ {m},
             UNCHANGED <<broadcasted_msgs, seen, skipped>>, dropped \subseteq dropped',
             \/ Cardinality(SeenBy(m.bid)) >= TTL
             \/ m.bid \in seen[m.to]
             \/ m \in dropped'
      PROVE  CoverInv'
  <2>1. \A b : Begun(b)' = Begun(b) /\ SeenBy(b)' = SeenBy(b)
    BY <1>1 DEF Begun, SeenBy
  <2>2. ASSUME NEW b \in Bid, Begun(b)', Untouched(b)' PROVE Covered(b)'
    <3>1. Covered(b)
      BY <1>1, <2>1, <2>2 DEF CoverInv, Untouched
    <3>2. CASE m.bid = b /\ Cardinality(SeenBy(b)) >= TTL
      BY <2>1, <3>2 DEF Covered
    <3>3. CASE m.bid # b \/ b \in seen[m.to]
      <4>1. \A n : Reached(b, n) => Reached(b, n)'
        BY <1>1, <3>3 DEF Reached
      <4>. QED
        BY <2>1, <3>1, <4>1, CoveredStays
    <3>. QED
      BY <1>1, <2>2, <3>2, <3>3 DEF Untouched
  <2>3. \A k \in net' : Begun(k.bid)'
    BY <1>1, <2>1 DEF CoverInv
  <2>4. \A n \in Node : \A b \in seen'[n] : Begun(b)'
    BY <1>1, <2>1 DEF CoverInv
  <2>. QED
    BY <1>0, <2>2, <2>3, <2>4 DEF CoverInv
<1>2. ASSUME NEW n \in Origins, Broadcast(n) PROVE CoverInv'
  <2>0. PICK b0 : b0 = <<n, broadcasted_msgs[n]>>
    OBVIOUS
  <2>1. PICK I \in Draws, trial \in BOOLEAN :
          /\ net' = net \cup Forward(n, b0, TTL, I, trial)
          /\ skipped' = IF trial THEN skipped ELSE skipped \cup {b0}
    BY <1>2, <2>0 DEF Broadcast
  <2>2. b0 \in Bid /\ n \in Node /\ b0[1] = n /\ b0[2] = broadcasted_msgs[n]
    BY <1>0, <1>2, <2>0, GossipAssumption DEF Broadcast, Bid, TypeOK
  <2>3. ~ Begun(b0) /\ Begun(b0)'
    <3>1. broadcasted_msgs[n] \in Nat /\ broadcasted_msgs'[n] = broadcasted_msgs[n] + 1
      BY <1>0, <1>2, GossipAssumption DEF Broadcast, TypeOK
    <3>. QED
      BY <2>2, <3>1 DEF Begun
  <2>4. ASSUME NEW b \in Bid, Begun(b) PROVE Begun(b)'
    BY <1>0, <1>2, <2>4 DEF Broadcast, Begun, TypeOK, Bid
  <2>5. ASSUME NEW b \in Bid, Begun(b)', b # b0 PROVE Begun(b)
    BY <1>0, <1>2, <2>0, <2>5 DEF Broadcast, Begun, TypeOK, Bid
  <2>6. \A b : SeenBy(b)' = SeenBy(b)
    BY <1>2 DEF Broadcast, SeenBy
  <2>7. \A k \in net' : Begun(k.bid)'
    <3>1. \A k \in net : k.bid \in Bid
      BY <1>0 DEF TypeOK, Message
    <3>2. \A k \in Forward(n, b0, TTL, I, trial) : k.bid = b0
      BY DEF Forward
    <3>3. \A k \in net : Begun(k.bid)'
      BY <2>4, <3>1 DEF CoverInv
    <3>4. \A k \in Forward(n, b0, TTL, I, trial) : Begun(k.bid)'
      BY <2>3, <3>2
    <3>. QED
      BY <2>1, <3>3, <3>4
  <2>8. \A k \in Node : \A b \in seen'[k] : Begun(b)'
    BY <1>0, <1>2, <2>4 DEF Broadcast, CoverInv, TypeOK
  <2>9. ASSUME NEW b \in Bid, Begun(b)', Untouched(b)' PROVE Covered(b)'
    <3>1. \A k : Reached(b, k) => Reached(b, k)'
      BY <1>2, <2>1 DEF Broadcast, Reached
    <3>2. CASE b = b0
      <4>1. SeenBy(b) = {}
        BY <2>3, <3>2 DEF CoverInv, SeenBy
      <4>2. trial = TRUE
        BY <2>1, <2>9, <3>2 DEF Untouched
      <4>3. \E k \in net' : k.bid = b0 /\ k.to = Succ(n)
        <5>1. [from |-> n, to |-> Table[n][0], bid |-> b0, ttl |-> TTL] \in net'
          BY <2>1, <4>2 DEF Forward
        <5>2. Table[n][0] = Succ(n)
          BY <2>2, GossipAssumption DEF Succ
        <5>. QED
          BY <5>1, <5>2
      <4>4. Senders(b)' = {n}
        BY <2>2, <2>6, <3>2, <4>1 DEF Senders
      <4>. QED
        BY <3>2, <4>3, <4>4 DEF Covered, Reached
    <3>3. CASE b # b0
      <4>1. Untouched(b)
        BY <1>2, <2>1, <2>9 DEF Broadcast, Untouched
      <4>2. Covered(b)
        BY <2>5, <2>9, <3>3, <4>1 DEF CoverInv
      <4>. QED
        BY <2>6, <3>1, <4>2, CoveredStays
    <3>. QED
      BY <3>2, <3>3
  <2>. QED
    BY <1>0, <2>7, <2>8, <2>9 DEF CoverInv
<1>3. ASSUME NEW m \in net, Expire(m) PROVE CoverInv'
  <2>1. TTL - m.ttl <= Cardinality(SeenBy(m.bid))
    BY DEF CoverInv, GossipInv, HopsBounded
  <2>2. Cardinality(SeenBy(m.bid)) >= TTL
    BY <1>3, <2>1, SeenFinite, GossipAssumption DEF Expire
  <2>. QED
    BY <1>1, <1>3, <2>2 DEF Expire
<1>4. ASSUME NEW m \in net, Ignore(m) PROVE CoverInv'
  BY <1>1, <1>4 DEF Ignore
<1>5. ASSUME NEW m \in net, Relay(m) PROVE CoverInv'
  <2>1. m.to \in Node /\ m.bid \in Bid
    BY <1>0 DEF TypeOK, Message
  <2>2. PICK I \in Draws, trial \in BOOLEAN :
          /\ net' = (net \ {m}) \cup Forward(m.to, m.bid, m.ttl - 1, I, trial)
          /\ skipped' = IF trial THEN skipped ELSE skipped \cup {m.bid}
    BY <1>5 DEF Relay
  <2>3. \A b : Begun(b)' = Begun(b)
    BY <1>5 DEF Relay, Begun
  <2>4. \A k \in net' : Begun(k.bid)'
    <3>1. \A k \in Forward(m.to, m.bid, m.ttl - 1, I, trial) : k.bid = m.bid
      BY DEF Forward
    <3>. QED
      BY <2>2, <2>3, <3>1 DEF CoverInv
  <2>5. \A k \in Node : \A b \in seen'[k] : Begun(b)'
    BY <1>0, <1>5, <2>1, <2>3 DEF Relay, CoverInv, TypeOK
  <2>6. ASSUME NEW b \in Bid, Begun(b)', Untouched(b)' PROVE Covered(b)'
    <3>1. Covered(b)
      BY <1>5, <2>2, <2>3, <2>6 DEF Relay, CoverInv, Untouched
    <3>2. \A k : b \in seen[k] => b \in seen'[k]
      BY <1>0, <1>5 DEF Relay, TypeOK
    <3>3. SeenBy(b) \subseteq SeenBy(b)'
      BY <3>2 DEF SeenBy
    <3>4. m.bid \in seen'[m.to]
      BY <1>0, <1>5, <2>1 DEF Relay, TypeOK
    <3>5. \A k : Reached(b, k) => Reached(b, k)'
      BY <2>2, <3>2, <3>4 DEF Reached
    <3>6. ASSUME NEW k \in SeenBy(b)' \ SeenBy(b) PROVE Reached(b, Succ(k))'
      <4>1. k = m.to /\ b = m.bid
        BY <1>0, <1>5, <2>1, <3>6 DEF Relay, TypeOK, SeenBy
      <4>2. trial = TRUE
        BY <2>2, <2>6, <4>1 DEF Untouched
      <4>3. \E j \in net' : j.bid = m.bid /\ j.to = Succ(m.to)
        <5>1. [from |-> m.to, to |-> Table[m.to][0], bid |-> m.bid, ttl |-> m.ttl - 1] \in net'
          BY <2>2, <4>2 DEF Forward
        <5>2. Table[m.to][0] = Succ(m.to)
          BY <2>1, GossipAssumption DEF Succ
        <5>. QED
          BY <5>1, <5>2
      <4>. QED
        BY <4>1, <4>3 DEF Reached
    <3>. QED
      BY <3>1, <3>3, <3>5, <3>6, CoveredStays
  <2>. QED
    BY <1>0, <2>4, <2>5, <2>6 DEF CoverInv
<1>6. ASSUME NEW m \in net, Drop(m) PROVE CoverInv'
  BY <1>1, <1>6 DEF Drop
<1>7. CASE UNCHANGED vars
  BY <1>0, <1>7 DEF vars, CoverInv, Begun, Untouched, Covered, Senders, Reached, SeenBy
<1>. QED
  BY <1>2, <1>3, <1>4, <1>5, <1>6, <1>7 DEF Next, ReceiveAny

\* A broadcast at rest whose successors were all tried and none of whose
\* datagrams was dropped went around the ring, or as far as TTL_ETH allows.
THEOREM GossipSuccessorsCover == Spec => []SuccessorsCover
<1>1. CoverInv => SuccessorsCover
  <2> SUFFICES ASSUME CoverInv, NEW b \in Bid, AtRest(b), Untouched(b),
                      ~ (Cardinality(SeenBy(b)) >= TTL)
               PROVE  SeenBy(b) = Node
    BY DEF SuccessorsCover, Untouched
  <2>1. \A n \in Senders(b) : Reached(b, Succ(n))
    BY DEF CoverInv, AtRest, Covered
  <2>2. b[1] \in Node /\ SeenBy(b) \subseteq Node
    BY GossipAssumption DEF Bid, SeenBy
  <2>3. \A n \in Senders(b) : Succ(n) \in SeenBy(b)
    BY <2>1, <2>2, SuccNode DEF AtRest, Reached, Senders, SeenBy
  <2>4. b[1] \in Senders(b) /\ SeenBy(b) \subseteq Senders(b)
    BY DEF Senders
  <2>. QED
    BY <2>2, <2>3, <2>4, AllAround
<1>. QED
  BY <1>1, InitCover, NextCover, PTL DEF Spec

-----------------------------------------------------------------------------
(* Pull mode.                                                              *)

\* Whoever is addressed is a node, and who offers holds what it offers: the
\* request for it goes back to the offerer.
Sound(m) ==
  /\ m.from \in Pull!Node /\ m.to \in Pull!Node
  /\ m.type = "inv" => m.content \in data_map[m.from]
  /\ m.type = "request" => m.content \in data_map[m.to]

PullInv ==
  /\ data_map \in [Pull!Node -> SUBSET Pull!Content]
  /\ pending \subseteq Pull!Node \X Pull!Content
  /\ \A m \in Pull!BagToSet(pull_net) : m.content \in Pull!Content /\ Sound(m)

\* Taking a datagram adds none; sending adds those sent.
LEMMA Wire ==
  ASSUME NEW m, NEW S, NEW B
  PROVE  /\ Pull!BagToSet(Pull!Taken(m)) \subseteq Pull!BagToSet(pull_net)
         /\ Pull!BagToSet(Pull!Sent(B, S)) = Pull!BagToSet(B) \cup S
<1>1. Pull!BagToSet(Pull!Taken(m)) \subseteq Pull!BagToSet(pull_net)
  BY DEF Pull!Taken, Pull!BagToSet, Pull!(-)
<1>2. Pull!BagToSet(Pull!Sent(B, S)) = Pull!BagToSet(B) \cup S
  BY DEF Pull!BagToSet, Pull!Sent, Pull!(+), Pull!SetToBag
<1>. QED
  BY <1>1, <1>2

\* The receivers of an offer are nodes.
LEMMA OfferFacts ==
  ASSUME Pull!PullAssumption, NEW n \in Pull!Node, NEW c \in Pull!Content, NEW I \in Pull!Draws, NEW trial \in BOOLEAN,
         NEW m \in Pull!Offer(n, c, I, trial)
  PROVE  m.from = n /\ m.to \in Pull!Node /\ m.type = "inv" /\ m.content = c
<1>1. PICK i \in IF trial THEN I \cup {0} ELSE I : m = Pull!Msg(n, PullTable[n][i], "inv", c)
  BY DEF Pull!Offer
<1>2. i \in 0 .. PullTableSize - 1
  <2>1. I \subseteq 1 .. PullTableSize - 1 /\ PullTableSize \in Nat \ {0}
    BY DEF Pull!Draws, Pull!PullAssumption
  <2>. QED
    BY <2>1
<1>3. PullTable[n][i] \in Pull!Node
  BY <1>2 DEF Pull!PullAssumption
<1>. QED
  BY <1>1, <1>3 DEF Pull!Msg

\* Nothing a node holds is dropped: data_map only grows.
LEMMA SoundStays ==
  ASSUME PullInv, NEW m \in Pull!BagToSet(pull_net), \A n \in Pull!Node : data_map[n] \subseteq data_map'[n]
  PROVE  m.content \in Pull!Content /\ Sound(m)'
  BY DEF PullInv, Sound

\* A node offers what it has just stored.
LEMMA OfferKeeps ==
  ASSUME Pull!PullAssumption, PullInv, NEW n \in Pull!Node, NEW c \in Pull!Content, NEW B,
         Pull!BagToSet(B) \subseteq Pull!BagToSet(pull_net), Pull!OfferAll(n, c, B),
         data_map' = [data_map EXCEPT ![n] = @ \cup {c}], pending' \subseteq pending
  PROVE  PullInv'
<1>1. PICK I \in Pull!Draws, trial \in BOOLEAN : pull_net' = Pull!Sent(B, Pull!Offer(n, c, I, trial))
  BY DEF Pull!OfferAll
<1>2. Pull!BagToSet(pull_net') = Pull!BagToSet(B) \cup Pull!Offer(n, c, I, trial)
  BY <1>1, Wire
<1>3. /\ data_map' \in [Pull!Node -> SUBSET Pull!Content] /\ c \in data_map'[n]
      /\ \A k \in Pull!Node : data_map[k] \subseteq data_map'[k]
  BY DEF PullInv
<1>4. ASSUME NEW m \in Pull!BagToSet(pull_net') PROVE m.content \in Pull!Content /\ Sound(m)'
  <2>1. CASE m \in Pull!BagToSet(pull_net)
    BY <1>3, <2>1, SoundStays
  <2>2. CASE m \in Pull!Offer(n, c, I, trial)
    <3>1. m.from = n /\ m.to \in Pull!Node /\ m.type = "inv" /\ m.content = c
      BY <2>2, OfferFacts
    <3>. QED
      BY <1>3, <3>1 DEF Sound
  <2>. QED
    BY <1>2, <1>4, <2>1, <2>2
<1>. QED
  BY <1>3, <1>4 DEF PullInv, Pull!BagToSet

\* Reading a datagram and answering it with at most one other.
LEMMA AnswerKeeps ==
  ASSUME PullInv, UNCHANGED <<data_map, pending>>, NEW m, NEW r,
         r.content \in Pull!Content /\ Sound(r),
         pull_net' = Pull!Taken(m) \/ pull_net' = Pull!Sent(Pull!Taken(m), {r})
  PROVE  PullInv'
<1>1. Pull!BagToSet(pull_net') \subseteq Pull!BagToSet(pull_net) \cup {r}
  <2>1. CASE pull_net' = Pull!Taken(m)
    BY <2>1, Wire
  <2>2. CASE pull_net' = Pull!Sent(Pull!Taken(m), {r})
    BY <2>2, Wire
  <2>. QED
    BY <2>1, <2>2
<1>2. Sound(r)'
  BY DEF Sound
<1>3. ASSUME NEW k \in Pull!BagToSet(pull_net') PROVE k.content \in Pull!Content /\ Sound(k)'
  BY <1>1, <1>2, <1>3 DEF PullInv, Sound
<1>. QED
  BY <1>3 DEF PullInv, Pull!BagToSet

\* Every step of the network.
LEMMA NextPull ==
  ASSUME Pull!PullAssumption, PullInv, [Pull!Next]_pull_vars
  PROVE  PullInv'
<1>1. ASSUME NEW w \in pending, Pull!Broadcast(w) PROVE PullInv'
  <2>1. w[1] \in Pull!Node /\ w[2] \in Pull!Content
    BY DEF PullInv
  <2>2. /\ data_map' = [data_map EXCEPT ![w[1]] = @ \cup {w[2]}] /\ pending' \subseteq pending
        /\ Pull!OfferAll(w[1], w[2], pull_net)
    BY <1>1 DEF Pull!Broadcast
  <2>. QED
    BY <2>1, <2>2, OfferKeeps
<1>2. ASSUME NEW m \in Pull!BagToSet(pull_net), Pull!OnInv(m) PROVE PullInv'
  <2> DEFINE r == Pull!Msg(m.to, m.from, "request", m.content)
  <2>1. r.content \in Pull!Content /\ Sound(r)
    BY <1>2 DEF PullInv, Sound, Pull!OnInv, Pull!Msg
  <2>2. /\ pull_net' = Pull!Taken(m) \/ pull_net' = Pull!Sent(Pull!Taken(m), {r})
        /\ UNCHANGED <<data_map, pending>>
    BY <1>2 DEF Pull!OnInv
  <2> HIDE DEF r
  <2>. QED
    BY <2>1, <2>2, AnswerKeeps
<1>3. ASSUME NEW m \in Pull!BagToSet(pull_net), Pull!OnRequest(m) PROVE PullInv'
  <2> DEFINE r == Pull!Msg(m.to, m.from, "data", m.content)
  <2>1. r.content \in Pull!Content /\ Sound(r)
    BY <1>3 DEF PullInv, Sound, Pull!Msg
  <2>2. /\ pull_net' = Pull!Sent(Pull!Taken(m), {r})
        /\ UNCHANGED <<data_map, pending>>
    BY <1>3 DEF Pull!OnRequest
  <2> HIDE DEF r
  <2>. QED
    BY <2>1, <2>2, AnswerKeeps
<1>4. ASSUME NEW m \in Pull!BagToSet(pull_net), Pull!OnData(m) PROVE PullInv'
  <2>1. m.to \in Pull!Node /\ m.content \in Pull!Content
    BY <1>4 DEF PullInv, Sound
  <2>2. /\ data_map' = [data_map EXCEPT ![m.to] = @ \cup {m.content}] /\ pending' \subseteq pending
        /\ Pull!OfferAll(m.to, m.content, Pull!Taken(m))
    BY <1>4 DEF Pull!OnData
  <2>3. Pull!BagToSet(Pull!Taken(m)) \subseteq Pull!BagToSet(pull_net)
    BY Wire
  <2>. QED
    BY <2>1, <2>2, <2>3, OfferKeeps
<1>5. ASSUME NEW m \in Pull!BagToSet(pull_net), Pull!Drop(m) PROVE PullInv'
  <2>1. m.content \in Pull!Content /\ Sound(m)
    BY <1>5 DEF PullInv
  <2>2. pull_net' = Pull!Taken(m) /\ UNCHANGED <<data_map, pending>>
    BY <1>5 DEF Pull!Drop
  <2>. QED
    BY <2>1, <2>2, AnswerKeeps
<1>6. CASE UNCHANGED pull_vars
  BY <1>6 DEF pull_vars, PullInv, Sound, Pull!BagToSet
<1>. QED
  BY <1>1, <1>2, <1>3, <1>4, <1>5, <1>6 DEF Pull!Next, Pull!ReceiveAny

\* Before anything was sent.
LEMMA InitPull == ASSUME Pull!PullAssumption, Pull!Init PROVE PullInv
<1>1. Pull!BagToSet(pull_net) = {}
  BY DEF Pull!Init, Pull!EmptyBag, Pull!SetToBag, Pull!BagToSet
<1>2. pending \subseteq Pull!Node \X Pull!Content
  BY DEF Pull!Init, Pull!PullAssumption
<1>. QED
  BY <1>1, <1>2 DEF Pull!Init, PullInv

\* A step of the gossip is one of either mode, and leaves the other as it is.
LEMMA ModeSteps ==
  [GossipNext]_<<mode, vars, pull_vars>> => [Next]_vars /\ [Pull!Next]_pull_vars
BY DEF GossipNext, vars

\* A network of nodes that were built for one mode is a network of push mode
\* and one of pull mode, of which the other stays idle: what holds in each mode
\* holds of the composed gossip.
THEOREM GossipImplementsModes == GossipSpec => Spec /\ Pull!Spec
<1>1. GossipInit => Init /\ Pull!Init
  BY DEF GossipInit
<1>. QED
  BY <1>1, ModeSteps, PTL DEF GossipSpec, Spec, Pull!Spec, pull_vars, Pull!vars

-----------------------------------------------------------------------------
\* on_receive never reads past the end of data_map: a request comes back to a
\* node that offered the data, and no node gives data up.
THEOREM PullRequestAnswerable == GossipSpec => []RequestAnswerable
<1>1. GossipInit => PullInv
  BY InitPull, PullNetworkAssumption DEF GossipInit
<1>2. PullInv /\ [GossipNext]_<<mode, vars, pull_vars>> => PullInv'
  BY ModeSteps, NextPull, PullNetworkAssumption
<1>3. PullInv => RequestAnswerable
  BY DEF PullInv, Sound, RequestAnswerable, Pull!RequestAnswerable
<1>. QED
  BY <1>1, <1>2, <1>3, PTL DEF GossipSpec
-----------------------------------------------------------------------------
(* Coverage.                                                               *)

PullSucc(n) == (n + 1) % PullN

\* m is a datagram of the exchange in which n passes c on to its successor.
Between(m, c, n) ==
  /\ m.content = c
  /\ \/ m.from = n /\ m.to = PullSucc(n) /\ m.type \in {"inv", "data"}
     \/ m.from = PullSucc(n) /\ m.to = n /\ m.type = "request"

\* The network or a trial kept c from passing from n to its successor.
Failed(c, n) ==
  \/ c \in pull_skipped
  \/ \E m \in Pull!Lost(c) : {m.from, m.to} = {n, PullSucc(n)}

\* What n holds its successor holds too, or the exchange is under way or failed.
Passed(c, n) ==
  \/ c \notin data_map[n]
  \/ c \in data_map[PullSucc(n)]
  \/ \E m \in Pull!BagToSet(pull_net) : Between(m, c, n)
  \/ Failed(c, n)

PullCoverInv ==
  /\ PullInv
  /\ Pull!IsABag(pull_net)
  /\ \A c \in Pull!Content, n \in Pull!Node : Passed(c, n)

\* The wire stays a bag, and a datagram that is taken is the only one missed.
LEMMA WireBag ==
  ASSUME NEW m, Pull!IsABag(pull_net)
  PROVE  /\ Pull!IsABag(Pull!Taken(m))
         /\ Pull!BagToSet(pull_net) \ {m} \subseteq Pull!BagToSet(Pull!Taken(m))
<1>1. \A e \in DOMAIN pull_net : pull_net[e] \in Nat /\ pull_net[e] > 0
  BY DEF Pull!IsABag
<1>. QED
  BY <1>1 DEF Pull!IsABag, Pull!Taken, Pull!BagToSet, Pull!(-), Pull!SetToBag

\* Sending to a bag gives one.
LEMMA SendBag ==
  ASSUME NEW B, Pull!IsABag(B), NEW S
  PROVE  Pull!IsABag(Pull!Sent(B, S))
<1>1. \A e \in DOMAIN B : B[e] \in Nat /\ B[e] > 0
  BY DEF Pull!IsABag
<1>. QED
  BY <1>1 DEF Pull!IsABag, Pull!Sent, Pull!(+), Pull!SetToBag, Pull!BagToSet

\* The successor of a node is one.
LEMMA PullSuccNode == ASSUME Pull!PullAssumption, NEW n \in Pull!Node PROVE PullSucc(n) \in Pull!Node
BY DEF Pull!PullAssumption, PullSucc, Pull!Node

\* An offer reaches the wire to the successor, or the trial failed.
LEMMA OfferReaches ==
  ASSUME Pull!PullAssumption, NEW n \in Pull!Node, NEW c, NEW B, Pull!OfferAll(n, c, B)
  PROVE  c \in pull_skipped' \/ \E m \in Pull!BagToSet(pull_net') : Between(m, c, n)
<1>1. PICK I \in Pull!Draws, trial \in BOOLEAN :
        /\ pull_net' = Pull!Sent(B, Pull!Offer(n, c, I, trial))
        /\ pull_skipped' = IF trial THEN pull_skipped ELSE pull_skipped \cup {c}
  BY DEF Pull!OfferAll
<1>2. CASE trial = TRUE
  <2> DEFINE m == Pull!Msg(n, PullTable[n][0], "inv", c)
  <2>1. m \in Pull!Offer(n, c, I, trial)
    BY <1>2 DEF Pull!Offer
  <2>2. m \in Pull!BagToSet(pull_net')
    BY <1>1, <2>1, Wire
  <2>3. Between(m, c, n)
    BY DEF Between, Pull!Msg, Pull!PullAssumption, PullSucc
  <2>. QED
    BY <2>2, <2>3
<1>3. CASE trial = FALSE
  BY <1>1, <1>3
<1>. QED
  BY <1>2, <1>3

\* The exchanges go on when only m is taken from the wire, the exchange m was
\* part of goes on, and who stores a content passes it on.
LEMMA PassedStays ==
  ASSUME Pull!PullAssumption, NEW R, Pull!BagToSet(pull_net) \ R \subseteq Pull!BagToSet(pull_net'),
         NEW c \in Pull!Content, NEW n \in Pull!Node, Passed(c, n),
         \A k \in Pull!Node : data_map[k] \subseteq data_map'[k],
         Failed(c, n) => Failed(c, n)',
         c \in data_map'[n] \ data_map[n] => Passed(c, n)',
         \A m \in R : Between(m, c, n) => Passed(c, n)'
  PROVE  Passed(c, n)'
<1>1. CASE c \notin data_map[n]
  BY <1>1 DEF Passed
<1>2. CASE c \in data_map[PullSucc(n)]
  BY <1>2, PullSuccNode DEF Passed
<1>3. ASSUME NEW m \in Pull!BagToSet(pull_net), Between(m, c, n) PROVE Passed(c, n)'
  <2>1. CASE m \in R
    BY <1>3, <2>1
  <2>2. CASE m \notin R
    BY <1>3, <2>2 DEF Passed, Between, Pull!BagToSet, PullSucc
  <2>. QED
    BY <2>1, <2>2
<1>4. CASE Failed(c, n)
  BY <1>4 DEF Passed
<1>. QED
  BY <1>1, <1>2, <1>3, <1>4 DEF Passed
\* A node that stores c and offers it keeps the rest.
LEMMA StoreCovers ==
  ASSUME Pull!PullAssumption, PullCoverInv, NEW n \in Pull!Node, NEW c \in Pull!Content, NEW B, NEW R, Pull!IsABag(B),
         Pull!OfferAll(n, c, B), data_map' = [data_map EXCEPT ![n] = @ \cup {c}],
         Pull!BagToSet(pull_net) \ R \subseteq Pull!BagToSet(B), UNCHANGED pull_dropped,
         \A m \in R : m.content = c /\ m.type = "data" /\ m.to = n
  PROVE  /\ Pull!IsABag(pull_net')
         /\ \A d \in Pull!Content, k \in Pull!Node : Passed(d, k)'
<1>1. PICK I \in Pull!Draws, trial \in BOOLEAN :
        /\ pull_net' = Pull!Sent(B, Pull!Offer(n, c, I, trial))
        /\ pull_skipped' = IF trial THEN pull_skipped ELSE pull_skipped \cup {c}
  BY DEF Pull!OfferAll
<1>2. Pull!IsABag(pull_net') /\ Pull!BagToSet(pull_net) \ R \subseteq Pull!BagToSet(pull_net')
  BY <1>1, SendBag, Wire
<1>3. /\ c \in data_map'[n]
      /\ \A k \in Pull!Node : data_map[k] \subseteq data_map'[k]
      /\ \A d : \A k \in Pull!Node : d \in data_map'[k] \ data_map[k] => k = n /\ d = c
  BY DEF PullCoverInv, PullInv
<1>4. Passed(c, n)'
  BY OfferReaches DEF Passed, Failed, Between, PullSucc, Pull!BagToSet
<1>5. ASSUME NEW d \in Pull!Content, NEW k \in Pull!Node PROVE Passed(d, k)'
  <2>1. Passed(d, k)
    BY DEF PullCoverInv
  <2>2. Failed(d, k) => Failed(d, k)'
    BY <1>1 DEF Failed, Pull!Lost, PullSucc
  <2>3. d \in data_map'[k] \ data_map[k] => Passed(d, k)'
    BY <1>3, <1>4
  <2>4. ASSUME NEW m \in R, Between(m, d, k) PROVE Passed(d, k)'
    <3>1. d = c /\ PullSucc(k) = n
      BY <2>4 DEF Between
    <3>. QED
      BY <1>3, <3>1 DEF Passed, PullSucc
  <2>. QED
    BY <1>2, <1>3, <2>1, <2>2, <2>3, <2>4, PassedStays
<1>. QED
  BY <1>2, <1>5

\* Reading m, and answering it with at most one other, covers what m was for.
LEMMA AnswerCovers ==
  ASSUME Pull!PullAssumption, PullCoverInv, NEW m, NEW r, UNCHANGED <<data_map, pull_skipped>>,
         pull_net' = Pull!Taken(m) \/ pull_net' = Pull!Sent(Pull!Taken(m), {r}),
         \A c : Pull!Lost(c) \subseteq Pull!Lost(c)',
         \A c \in Pull!Content, n \in Pull!Node : Between(m, c, n) => Passed(c, n)'
  PROVE  /\ Pull!IsABag(pull_net')
         /\ \A c \in Pull!Content, n \in Pull!Node : Passed(c, n)'
<1>1. Pull!IsABag(Pull!Taken(m)) /\ Pull!BagToSet(pull_net) \ {m} \subseteq Pull!BagToSet(Pull!Taken(m))
  BY WireBag DEF PullCoverInv
<1>2. Pull!IsABag(pull_net') /\ Pull!BagToSet(pull_net) \ {m} \subseteq Pull!BagToSet(pull_net')
  <2>1. CASE pull_net' = Pull!Taken(m)
    BY <1>1, <2>1
  <2>2. CASE pull_net' = Pull!Sent(Pull!Taken(m), {r})
    BY <1>1, <2>2, SendBag, Wire
  <2>. QED
    BY <2>1, <2>2
<1>3. ASSUME NEW c \in Pull!Content, NEW n \in Pull!Node PROVE Passed(c, n)'
  <2>1. Passed(c, n)
    BY DEF PullCoverInv
  <2>2. Failed(c, n) => Failed(c, n)'
    BY DEF Failed, PullSucc
  <2>3. \A k \in {m} : Between(k, c, n) => Passed(c, n)'
    OBVIOUS
  <2>4. /\ \A k \in Pull!Node : data_map[k] \subseteq data_map'[k]
        /\ c \notin data_map'[n] \ data_map[n]
    OBVIOUS
  <2>. QED
    BY <1>2, <2>1, <2>2, <2>3, <2>4, PassedStays
<1>. QED
  BY <1>2, <1>3

\* Each step keeps the coverage.
LEMMA PullNextCover ==
  ASSUME Pull!PullAssumption, PullCoverInv, [Pull!Next]_pull_vars
  PROVE  PullCoverInv'
<1>0. PullInv'
  BY NextPull DEF PullCoverInv
<1>1. ASSUME NEW w \in pending, Pull!Broadcast(w) PROVE PullCoverInv'
  <2>1. w[1] \in Pull!Node /\ w[2] \in Pull!Content
    BY DEF PullCoverInv, PullInv
  <2>2. /\ Pull!IsABag(pull_net) /\ Pull!OfferAll(w[1], w[2], pull_net) /\ UNCHANGED pull_dropped
        /\ data_map' = [data_map EXCEPT ![w[1]] = @ \cup {w[2]}]
    BY <1>1 DEF Pull!Broadcast, PullCoverInv
  <2> DEFINE R == {}
  <2>3. /\ Pull!BagToSet(pull_net) \ R \subseteq Pull!BagToSet(pull_net)
        /\ \A m \in R : m.content = w[2] /\ m.type = "data" /\ m.to = w[1]
    OBVIOUS
  <2> HIDE DEF R
  <2>4. Pull!IsABag(pull_net') /\ \A c \in Pull!Content, n \in Pull!Node : Passed(c, n)'
    BY <2>1, <2>2, <2>3, StoreCovers
  <2>. QED
    BY <1>0, <2>4 DEF PullCoverInv
<1>2. ASSUME NEW m \in Pull!BagToSet(pull_net), Pull!OnInv(m) PROVE PullCoverInv'
  <2> DEFINE r == Pull!Msg(m.to, m.from, "request", m.content)
  <2>1. pull_net' = Pull!Taken(m) \/ pull_net' = Pull!Sent(Pull!Taken(m), {r})
    BY <1>2 DEF Pull!OnInv
  <2>2. ASSUME NEW c \in Pull!Content, NEW n \in Pull!Node, Between(m, c, n) PROVE Passed(c, n)'
    <3>1. m.content = c /\ m.from = n /\ m.to = PullSucc(n)
      BY <1>2, <2>2 DEF Pull!OnInv, Between
    <3>2. CASE c \in data_map[PullSucc(n)]
      BY <1>2, <3>2 DEF Pull!OnInv, Passed, PullSucc
    <3>3. CASE c \notin data_map[PullSucc(n)]
      <4>1. r \in Pull!BagToSet(pull_net')
        BY <1>2, <3>1, <3>3, Wire DEF Pull!OnInv
      <4>2. Between(r, c, n)
        BY <3>1 DEF Between, Pull!Msg
      <4>. QED
        BY <4>1, <4>2 DEF Passed, Between, PullSucc, Pull!BagToSet
    <3>. QED
      BY <3>2, <3>3
  <2>3. UNCHANGED <<data_map, pull_skipped, pull_dropped>>
    BY <1>2 DEF Pull!OnInv
  <2> HIDE DEF r
  <2>. QED
    BY <1>0, <2>1, <2>2, <2>3, AnswerCovers DEF PullCoverInv, Pull!Lost
<1>3. ASSUME NEW m \in Pull!BagToSet(pull_net), Pull!OnRequest(m) PROVE PullCoverInv'
  <2> DEFINE r == Pull!Msg(m.to, m.from, "data", m.content)
  <2>1. pull_net' = Pull!Sent(Pull!Taken(m), {r})
    BY <1>3 DEF Pull!OnRequest
  <2>2. ASSUME NEW c \in Pull!Content, NEW n \in Pull!Node, Between(m, c, n) PROVE Passed(c, n)'
    <3>1. r \in Pull!BagToSet(pull_net')
      BY <2>1, Wire
    <3>2. Between(r, c, n)
      BY <1>3, <2>2 DEF Pull!OnRequest, Between, Pull!Msg
    <3>. QED
      BY <3>1, <3>2 DEF Passed, Between, PullSucc, Pull!BagToSet
  <2>3. UNCHANGED <<data_map, pull_skipped, pull_dropped>>
    BY <1>3 DEF Pull!OnRequest
  <2> HIDE DEF r
  <2>. QED
    BY <1>0, <2>1, <2>2, <2>3, AnswerCovers DEF PullCoverInv, Pull!Lost
<1>4. ASSUME NEW m \in Pull!BagToSet(pull_net), Pull!OnData(m) PROVE PullCoverInv'
  <2>1. m.to \in Pull!Node /\ m.content \in Pull!Content /\ m.type = "data"
    BY <1>4 DEF PullCoverInv, PullInv, Sound, Pull!OnData
  <2>2. /\ Pull!OfferAll(m.to, m.content, Pull!Taken(m)) /\ UNCHANGED pull_dropped
        /\ data_map' = [data_map EXCEPT ![m.to] = @ \cup {m.content}]
    BY <1>4 DEF Pull!OnData
  <2>3. Pull!IsABag(Pull!Taken(m)) /\ Pull!BagToSet(pull_net) \ {m} \subseteq Pull!BagToSet(Pull!Taken(m))
    BY WireBag DEF PullCoverInv
  <2>4. PICK B, R, n, c : B = Pull!Taken(m) /\ R = {m} /\ n = m.to /\ c = m.content
    OBVIOUS
  <2>5. /\ Pull!OfferAll(n, c, B) /\ data_map' = [data_map EXCEPT ![n] = @ \cup {c}]
        /\ Pull!IsABag(B) /\ Pull!BagToSet(pull_net) \ R \subseteq Pull!BagToSet(B)
        /\ \A k \in R : k.content = c /\ k.type = "data" /\ k.to = n
    BY <2>1, <2>2, <2>3, <2>4
  <2>6. n \in Pull!Node /\ c \in Pull!Content
    BY <2>1, <2>4
  <2>7. Pull!IsABag(pull_net') /\ \A d \in Pull!Content, k \in Pull!Node : Passed(d, k)'
    BY <2>2, <2>5, <2>6, StoreCovers
  <2>. QED
    BY <1>0, <2>7 DEF PullCoverInv
<1>5. ASSUME NEW m \in Pull!BagToSet(pull_net), Pull!Drop(m) PROVE PullCoverInv'
  <2>1. pull_net' = Pull!Taken(m) /\ UNCHANGED <<data_map, pull_skipped>>
    BY <1>5 DEF Pull!Drop
  <2>2. Pull!BagToSet(pull_dropped') = Pull!BagToSet(pull_dropped) \cup {m}
    BY <1>5, Wire DEF Pull!Drop
  <2>3. \A c : Pull!Lost(c) \subseteq Pull!Lost(c)'
    BY <2>2 DEF Pull!Lost, Pull!BagToSet
  <2>4. ASSUME NEW c \in Pull!Content, NEW n \in Pull!Node, Between(m, c, n) PROVE Passed(c, n)'
    <3>1. m.content = c /\ {m.from, m.to} = {n, PullSucc(n)}
      BY <2>4 DEF Between
    <3>. QED
      BY <2>2, <3>1 DEF Passed, Failed, Pull!Lost, Pull!BagToSet, PullSucc
  <2>. QED
    BY <1>0, <2>1, <2>3, <2>4, AnswerCovers DEF PullCoverInv
<1>6. CASE UNCHANGED pull_vars
  BY <1>0, <1>6 DEF pull_vars, PullCoverInv, Passed, Failed, Pull!Lost, Pull!IsABag, Pull!BagToSet, PullSucc
<1>. QED
  BY <1>1, <1>2, <1>3, <1>4, <1>5, <1>6 DEF Pull!Next, Pull!ReceiveAny

\* At rest, a node misses a content that its predecessor holds only after a
\* trial of broadcast failed for it, or UDP dropped a datagram between the two.
THEOREM PullMissExplained == GossipSpec => []MissExplained
<1>1. GossipInit => PullCoverInv
  <2>1. SUFFICES ASSUME Pull!Init PROVE PullCoverInv
    BY DEF GossipInit
  <2>2. Pull!IsABag(pull_net)
    BY <2>1 DEF Pull!Init, Pull!EmptyBag, Pull!SetToBag, Pull!IsABag
  <2>3. \A c \in Pull!Content, n \in Pull!Node : Passed(c, n)
    BY <2>1 DEF Pull!Init, Passed
  <2>. QED
    BY <2>1, <2>2, <2>3, InitPull, PullNetworkAssumption DEF PullCoverInv
<1>2. PullCoverInv /\ [GossipNext]_<<mode, vars, pull_vars>> => PullCoverInv'
  BY ModeSteps, PullNextCover, PullNetworkAssumption
<1>3. PullCoverInv => MissExplained
  BY DEF MissExplained, PullCoverInv, Passed, Failed, Between, Pull!MissExplained, Pull!Quiet, PullSucc
<1>. QED
  BY <1>1, <1>2, <1>3, PTL DEF GossipSpec
===============================================================================
