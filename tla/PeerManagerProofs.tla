--------------------------- MODULE PeerManagerProofs ---------------------------
(***************************************************************************)
(* The decisions of the peer managers, for any number of nodes, any limits *)
(* and any number of connections, stops and drops: no manager agrees to    *)
(* more peers than its limit or to two connections with one node.  And     *)
(* safe_to_read, for any number of connections, messages of any length and *)
(* any capacity: whoever stops a peer, its readers and the broadcasts that *)
(* wait for it find the event set again, as long as it is not stopped.     *)
(***************************************************************************)
EXTENDS PeerManager, PeerFlow, FiniteSetTheorems, SequenceTheorems, TLAPS

\* How far a peer is, and what peers write to each other.
Stages == {"none", "accepted", "keyed", "agreed", "refused", "stopped"}
Messages == {"auth", "ack", "hello", "disconnect"}

-----------------------------------------------------------------------------
(* Sequences                                                               *)

\* A list without one of its positions keeps every element but that one.
LEMMA RemoveAtFacts ==
  ASSUME NEW S, NEW s \in Seq(S), NEW k \in 1 .. Len(s)
  PROVE  /\ RemoveAt(s, k) \in Seq(S)
         /\ ToSet(RemoveAt(s, k)) \subseteq ToSet(s)
         /\ \A d \in ToSet(s) : d # s[k] => d \in ToSet(RemoveAt(s, k))
<1> DEFINE r == SubSeq(s, 1, k - 1) \o SubSeq(s, k + 1, Len(s))
<1>1. RemoveAt(s, k) = r
  BY DEF RemoveAt
<1>a. k \in Nat /\ 1 <= k /\ k <= Len(s) /\ Len(s) \in Nat
  OBVIOUS
<1> DEFINE a == SubSeq(s, 1, k - 1)
           b == SubSeq(s, k + 1, Len(s))
<1>b. a \in Seq(S) /\ Len(a) = k - 1 /\ \A i \in 1 .. k - 1 : a[i] = s[i]
  BY <1>a
<1>c. b \in Seq(S) /\ Len(b) = Len(s) - k /\ \A i \in 1 .. Len(s) - k : b[i] = s[k + i]
  BY <1>a
<1>d. r = a \o b
  OBVIOUS
<1> HIDE DEF a, b, r
<1>e. a \o b \in Seq(S) /\ Len(a \o b) = Len(a) + Len(b)
  BY <1>b, <1>c, ConcatProperties
<1>2. r \in Seq(S) /\ Len(r) = Len(s) - 1
  BY <1>a, <1>b, <1>c, <1>d, <1>e
<1>3. \A i \in 1 .. Len(s) - 1 : r[i] = IF i < k THEN s[i] ELSE s[i + 1]
  <2>1. SUFFICES ASSUME NEW i \in 1 .. Len(s) - 1 PROVE r[i] = IF i < k THEN s[i] ELSE s[i + 1]
    OBVIOUS
  <2>2. CASE i < k
    BY <1>a, <1>b, <1>c, <1>d, <2>2
  <2>3. CASE i >= k
    <3>1. i - (k - 1) \in 1 .. Len(s) - k /\ k + (i - (k - 1)) = i + 1
      BY <1>a, <2>3
    <3>2. r[i] = b[i - (k - 1)]
      BY <1>a, <1>b, <1>c, <1>d, <2>3
    <3>. QED
      BY <1>a, <1>c, <2>3, <3>1, <3>2
  <2>. QED
    BY <1>a, <2>2, <2>3
<1>4. ToSet(r) \subseteq ToSet(s)
  <2>1. SUFFICES ASSUME NEW i \in 1 .. Len(s) - 1 PROVE r[i] \in ToSet(s)
    BY <1>2 DEF ToSet
  <2>. QED
    BY <1>3 DEF ToSet
<1>5. ASSUME NEW d \in ToSet(s), d # s[k] PROVE d \in ToSet(r)
  <2>1. PICK i \in 1 .. Len(s) : s[i] = d
    BY DEF ToSet
  <2>2. CASE i < k
    BY <1>2, <1>3, <2>1, <2>2 DEF ToSet
  <2>3. CASE i > k
    <3>1. i - 1 \in 1 .. Len(s) - 1 /\ r[i - 1] = s[i]
      BY <1>3, <2>3
    <3>. QED
      BY <1>2, <2>1, <3>1 DEF ToSet
  <2>. QED
    BY <1>5, <2>1, <2>2, <2>3
<1>. QED
  BY <1>1, <1>2, <1>4, <1>5

\* list.remove leaves every other element in the list and adds none.
LEMMA WithoutFacts ==
  ASSUME NEW S, NEW s \in Seq(S), NEW c
  PROVE  /\ Without(s, c) \in Seq(S)
         /\ ToSet(Without(s, c)) \subseteq ToSet(s)
         /\ \A d \in ToSet(s) : d # c => d \in ToSet(Without(s, c))
<1>1. CASE c \notin ToSet(s)
  BY <1>1 DEF Without
<1>2. CASE c \in ToSet(s)
  <2> DEFINE k == CHOOSE i \in DOMAIN s : s[i] = c
  <2>1. \E i \in DOMAIN s : s[i] = c
    BY <1>2 DEF ToSet
  <2>2. k \in DOMAIN s /\ s[k] = c
    BY <2>1
  <2>3. Without(s, c) = RemoveAt(s, k)
    BY <1>2 DEF Without
  <2> HIDE DEF k
  <2>4. k \in 1 .. Len(s)
    BY <2>2
  <2>. QED
    BY <2>2, <2>3, <2>4, RemoveAtFacts
<1>. QED
  BY <1>1, <1>2

\* A sequence has at most as many elements as its length.
LEMMA ToSetCardinality ==
  ASSUME NEW S, NEW s \in Seq(S)
  PROVE  IsFiniteSet(ToSet(s)) /\ Cardinality(ToSet(s)) <= Len(s)
<1>0. Len(s) \in Int /\ 1 \in Int /\ Len(s) >= 0
  OBVIOUS
<1>1. IsFiniteSet(1 .. Len(s)) /\ Cardinality(1 .. Len(s)) = Len(s)
  BY <1>0, FS_Interval
<1>2. s \in Surjection(1 .. Len(s), ToSet(s))
  BY DEF Surjection, ToSet
<1>. QED
  BY <1>1, <1>2, FS_Surjection

\* Appending adds just the new element.
LEMMA AppendFacts ==
  ASSUME NEW S, NEW s \in Seq(S), NEW x \in S
  PROVE  /\ Append(s, x) \in Seq(S)
         /\ Len(Append(s, x)) = Len(s) + 1
         /\ \A i \in 1 .. Len(s) : Append(s, x)[i] = s[i]
         /\ Append(s, x)[Len(s) + 1] = x
         /\ ToSet(Append(s, x)) = ToSet(s) \cup {x}
<1>1. \A i \in 1 .. Len(s) : Append(s, x)[i] = s[i]
  OBVIOUS
<1>. QED
  BY <1>1 DEF ToSet

\* Changing one element keeps the length and the others.
LEMMA ExceptFacts ==
  ASSUME NEW S, NEW s \in Seq(S), NEW i \in 1 .. Len(s), NEW x \in S
  PROVE  /\ [s EXCEPT ![i] = x] \in Seq(S)
         /\ Len([s EXCEPT ![i] = x]) = Len(s)
         /\ \A j \in 1 .. Len(s) : [s EXCEPT ![i] = x][j] = IF j = i THEN x ELSE s[j]
  OBVIOUS

\* What connect puts on a new connection.
LEMMA NewConnection ==
  /\ [e \in Ends |-> IF e = "from" THEN "accepted" ELSE "none"] \in [Ends -> Stages]
  /\ [e \in Ends |-> IF e = "from" THEN <<>> ELSE <<"auth">>] \in [Ends -> Seq(Messages)]
<1>1. \A e \in Ends : (IF e = "from" THEN "accepted" ELSE "none") \in Stages
  BY DEF Stages
<1>2. <<"auth">> \in Seq(Messages)
  BY DEF Messages
<1>3. <<>> \in Seq(Messages)
  OBVIOUS
<1>4. \A e \in Ends : (IF e = "from" THEN <<>> ELSE <<"auth">>) \in Seq(Messages)
  BY <1>2, <1>3
<1>. QED
  BY <1>1, <1>4

-----------------------------------------------------------------------------
(* The inductive invariant                                                 *)

\* The peer at the other end of connection c, seen from n.
Peer(c, n) == IF conns[c].from = n THEN conns[c].to ELSE conns[c].from

WireType ==
    /\ conns \in Seq([from : Nodes, to : Nodes])
    /\ stage \in Seq([Ends -> Stages]) /\ Len(stage) = Len(conns)
    /\ inbox \in Seq([Ends -> Seq(Messages)]) /\ Len(inbox) = Len(conns)
    /\ peers \in [Nodes -> Seq(Nat)]

DialType ==
    /\ dialling \in [Nodes -> [Greenlets -> Nodes \cup {None}]]
    /\ \A n \in Nodes, g \in Greenlets : dialling[n][g] # n

\* No connection leads back to its node.
TwoEnds == \A c \in 1 .. Len(conns) : conns[c].from # conns[c].to

\* A list of peers holds connections.
ListsHold == \A n \in Nodes : \A c \in ToSet(peers[n]) : c \in 1 .. Len(conns)

\* A peer that runs is in the list of its manager: what on_hello_received
\* counts and compares misses none of those that agreed before.
LiveListed == \A c \in 1 .. Len(conns), e \in Ends : Live(c, e) => c \in ToSet(peers[Owner(c, e)])

\* The first message to a listener is the auth message: by the hello it
\* knows who is calling.
AuthFirst ==
    \A c \in 1 .. Len(conns) :
        stage[c]["to"] \in {"none", "accepted"} => inbox[c]["to"] # <<>> /\ Head(inbox[c]["to"]) = "auth"

OnePeer == \A n \in Nodes : \A c, d \in AgreedPeers(n) : c # d => Peer(c, n) # Peer(d, n)

Shape == WireType /\ TwoEnds /\ ListsHold /\ LiveListed /\ AuthFirst
Decisions == AgreedBounded /\ OnePeer
IInv == Shape /\ DialType /\ Decisions

\* The parts of one connection.
LEMMA Parts ==
  ASSUME WireType, NEW c \in 1 .. Len(conns)
  PROVE  /\ conns[c] \in [from : Nodes, to : Nodes]
         /\ conns[c].from \in Nodes /\ conns[c].to \in Nodes
         /\ stage[c] \in [Ends -> Stages] /\ inbox[c] \in [Ends -> Seq(Messages)]
         /\ \A e \in Ends : Owner(c, e) \in Nodes /\ stage[c][e] \in Stages /\ inbox[c][e] \in Seq(Messages)
<1>1. conns[c] \in [from : Nodes, to : Nodes]
  BY ElementOfSeq DEF WireType
<1>2. stage[c] \in [Ends -> Stages]
  BY ElementOfSeq DEF WireType
<1>3. inbox[c] \in [Ends -> Seq(Messages)]
  BY ElementOfSeq DEF WireType
<1>. QED
  BY <1>1, <1>2, <1>3 DEF Owner

-----------------------------------------------------------------------------
(* Steps that agree to nothing                                             *)

\* A manager has finitely many connections.
LEMMA AgreedFinite ==
  ASSUME WireType, NEW n \in Nodes
  PROVE  IsFiniteSet(AgreedPeers(n)) /\ AgreedPeers(n) \subseteq 1 .. Len(conns)
<1>1. Len(conns) \in Nat /\ DOMAIN conns = 1 .. Len(conns)
  BY DEF WireType
<1>2. IsFiniteSet(1 .. Len(conns))
  BY <1>1, FS_Interval
<1>. QED
  BY <1>1, <1>2, FS_Subset DEF AgreedPeers

\* A manager for which no connection is newly agreed to, when no connection
\* changes its ends, has decided right after the step as before.
LEMMA DecisionsKeptAt ==
  ASSUME WireType, Decisions, NEW n \in Nodes,
         AgreedPeers(n)' \subseteq AgreedPeers(n),
         \A c \in 1 .. Len(conns) : conns'[c] = conns[c]
  PROVE  /\ Cardinality(AgreedPeers(n)') <= max_peers[n]
         /\ \A c, d \in AgreedPeers(n)' : c # d => Peer(c, n)' # Peer(d, n)'
<1>1. Cardinality(AgreedPeers(n)') <= max_peers[n]
  <2>1. IsFiniteSet(AgreedPeers(n)) /\ AgreedPeers(n)' \subseteq AgreedPeers(n)
    BY AgreedFinite
  <2>2. /\ IsFiniteSet(AgreedPeers(n)') /\ Cardinality(AgreedPeers(n)') \in Nat
        /\ Cardinality(AgreedPeers(n)) \in Nat
        /\ Cardinality(AgreedPeers(n)') <= Cardinality(AgreedPeers(n))
    BY <2>1, FS_Subset, FS_CardinalityType
  <2>3. Cardinality(AgreedPeers(n)) <= max_peers[n] /\ max_peers[n] \in Nat
    BY ManagerAssumption DEF Decisions, AgreedBounded
  <2>. QED
    BY <2>2, <2>3
<1>2. ASSUME NEW c \in AgreedPeers(n)', NEW d \in AgreedPeers(n)', c # d
      PROVE  Peer(c, n)' # Peer(d, n)'
  <2>1. c \in AgreedPeers(n) /\ d \in AgreedPeers(n)
    BY <1>2
  <2>2. c \in 1 .. Len(conns) /\ d \in 1 .. Len(conns)
    BY <2>1, AgreedFinite
  <2>3. Peer(c, n) # Peer(d, n)
    BY <1>2, <2>1 DEF Decisions, OnePeer
  <2>. QED
    BY <2>2, <2>3 DEF Peer
<1>. QED
  BY <1>1, <1>2

\* The same for every manager.
LEMMA DecisionsKept ==
  ASSUME WireType, Decisions,
         \A n \in Nodes : AgreedPeers(n)' \subseteq AgreedPeers(n),
         \A c \in 1 .. Len(conns) : conns'[c] = conns[c]
  PROVE  Decisions'
  BY DecisionsKeptAt DEF Decisions, AgreedBounded, OnePeer

\* Peer.stop keeps the invariant, whichever peer it stops.
LEMMA StopKeeps ==
  ASSUME Shape, Decisions, NEW c \in 1 .. Len(conns), NEW e \in Ends, StopPeer(c, e), UNCHANGED conns
  PROVE  Shape' /\ Decisions'
<1> DEFINE n == Owner(c, e)
<1>0. WireType /\ TwoEnds /\ ListsHold /\ LiveListed /\ AuthFirst
  BY DEF Shape
<1>b. DOMAIN conns = 1 .. Len(conns)
  BY <1>0 DEF WireType
<1>1. /\ n \in Nodes
      /\ stage[c] \in [Ends -> Stages] /\ inbox[c] \in [Ends -> Seq(Messages)]
      /\ conns[c] \in [from : Nodes, to : Nodes]
  BY <1>0, Parts
<1>2. /\ [stage[c] EXCEPT ![e] = "stopped"] \in [Ends -> Stages]
      /\ [inbox[c] EXCEPT ![e] = <<>>] \in [Ends -> Seq(Messages)]
  <2>1. "stopped" \in Stages /\ <<>> \in Seq(Messages)
    BY DEF Stages
  <2>. QED
    BY <1>1, <2>1
<1>3. /\ stage' = [stage EXCEPT ![c] = [stage[c] EXCEPT ![e] = "stopped"]]
      /\ inbox' = [inbox EXCEPT ![c] = [inbox[c] EXCEPT ![e] = <<>>]]
      /\ peers' = [peers EXCEPT ![n] = Without(peers[n], c)]
  BY DEF StopPeer
<1>4. /\ stage' \in Seq([Ends -> Stages]) /\ Len(stage') = Len(conns)
      /\ \A d \in 1 .. Len(conns) : \A f \in Ends :
             stage'[d][f] = IF d = c /\ f = e THEN "stopped" ELSE stage[d][f]
  BY <1>0, <1>1, <1>2, <1>3, ExceptFacts DEF WireType
<1>5. /\ inbox' \in Seq([Ends -> Seq(Messages)]) /\ Len(inbox') = Len(conns)
      /\ \A d \in 1 .. Len(conns) : \A f \in Ends :
             inbox'[d][f] = IF d = c /\ f = e THEN <<>> ELSE inbox[d][f]
  BY <1>0, <1>1, <1>2, <1>3, ExceptFacts DEF WireType
<1>6. /\ peers' \in [Nodes -> Seq(Nat)]
      /\ \A m \in Nodes : ToSet(peers'[m]) \subseteq ToSet(peers[m])
      /\ \A m \in Nodes : \A d \in ToSet(peers[m]) : d # c \/ m # n => d \in ToSet(peers'[m])
  <2>1. peers[n] \in Seq(Nat)
    BY <1>0, <1>1 DEF WireType
  <2>2. /\ Without(peers[n], c) \in Seq(Nat)
        /\ ToSet(Without(peers[n], c)) \subseteq ToSet(peers[n])
        /\ \A d \in ToSet(peers[n]) : d # c => d \in ToSet(Without(peers[n], c))
    BY <2>1, WithoutFacts
  <2>. HIDE DEF n
  <2>. QED
    BY <1>0, <1>1, <1>3, <2>2 DEF WireType
<1>7. \A d \in 1 .. Len(conns), f \in Ends : Owner(d, f)' = Owner(d, f) /\ Owner(d, f) \in Nodes
  BY <1>0, Parts DEF Owner
<1>8. WireType'
  BY <1>0, <1>4, <1>5, <1>6 DEF WireType
<1>9. TwoEnds' /\ ListsHold'
  BY <1>0, <1>6 DEF TwoEnds, ListsHold
<1>10. LiveListed'
  <2>1. SUFFICES ASSUME NEW d \in 1 .. Len(conns), NEW f \in Ends, Live(d, f)'
                 PROVE  d \in ToSet(peers'[Owner(d, f)])
    BY <1>7 DEF LiveListed
  <2>2. ~ (d = c /\ f = e) /\ Live(d, f)
    BY <1>4, <2>1 DEF Live
  <2>3. d \in ToSet(peers[Owner(d, f)])
    BY <1>0, <2>2 DEF LiveListed
  <2>4. d # c \/ Owner(d, f) # n
    BY <1>0, <2>2 DEF TwoEnds, Owner, Ends
  <2>. QED
    BY <1>6, <1>7, <2>3, <2>4
<1>11. AuthFirst'
  BY <1>0, <1>4, <1>5 DEF AuthFirst, Ends
<1>12. Decisions'
  <2>1. \A m \in Nodes : AgreedPeers(m)' \subseteq AgreedPeers(m)
    BY <1>4, <1>7, <1>b DEF AgreedPeers
  <2>. QED
    BY <1>0, <2>1, DecisionsKept
<1>. QED
  BY <1>8, <1>9, <1>10, <1>11, <1>12 DEF Shape

\* connect adds a connection whose auth message is on its way.
LEMMA ConnectKeeps ==
  ASSUME IInv, NEW n \in Nodes, NEW g \in Greenlets, connect(n, g)
  PROVE  Shape' /\ Decisions'
<1> DEFINE m == dialling[n][g]
           k == Len(conns) + 1
           x == [from |-> n, to |-> m]
           st == [e \in Ends |-> IF e = "from" THEN "accepted" ELSE "none"]
           ib == [e \in Ends |-> IF e = "from" THEN <<>> ELSE <<"auth">>]
<1>a. WireType /\ TwoEnds /\ ListsHold /\ LiveListed /\ AuthFirst /\ DialType /\ Decisions
  BY DEF IInv, Shape
<1>1. m \in Nodes /\ m # n
  BY <1>a DEF connect, DialType
<1>2. /\ conns' = Append(conns, x) /\ stage' = Append(stage, st) /\ inbox' = Append(inbox, ib)
      /\ peers' = [peers EXCEPT ![n] = Append(peers[n], k)]
  BY DEF connect
<1>0. Len(conns) \in Nat /\ k \in Nat /\ k = Len(conns) + 1 /\ Len(stage) = Len(conns) /\ Len(inbox) = Len(conns)
  BY <1>a DEF WireType
<1>3. x \in [from : Nodes, to : Nodes] /\ st \in [Ends -> Stages] /\ ib \in [Ends -> Seq(Messages)]
  <2>1. x \in [from : Nodes, to : Nodes]
    BY <1>1
  <2>. QED
    BY <2>1, NewConnection
<1>4. /\ x.from = n /\ x.to = m
      /\ st["from"] = "accepted" /\ st["to"] = "none"
      /\ ib["to"] # <<>> /\ Head(ib["to"]) = "auth"
  BY DEF Ends
<1> HIDE DEF m, k, x, st, ib
<1>5. /\ conns' \in Seq([from : Nodes, to : Nodes]) /\ Len(conns') = k
      /\ conns'[k] = x /\ \A c \in 1 .. Len(conns) : conns'[c] = conns[c]
  BY <1>a, <1>0, <1>2, <1>3, AppendFacts DEF WireType
<1>6. /\ stage' \in Seq([Ends -> Stages]) /\ Len(stage') = k
      /\ stage'[k] = st /\ \A c \in 1 .. Len(conns) : stage'[c] = stage[c]
  <2>1. stage \in Seq([Ends -> Stages])
    BY <1>a DEF WireType
  <2>. QED
    BY <1>0, <1>2, <1>3, <2>1, AppendFacts
<1>7. /\ inbox' \in Seq([Ends -> Seq(Messages)]) /\ Len(inbox') = k
      /\ inbox'[k] = ib /\ \A c \in 1 .. Len(conns) : inbox'[c] = inbox[c]
  BY <1>a, <1>0, <1>2, <1>3, AppendFacts DEF WireType
<1>8. /\ peers' \in [Nodes -> Seq(Nat)]
      /\ ToSet(peers'[n]) = ToSet(peers[n]) \cup {k}
      /\ \A p \in Nodes : p # n => peers'[p] = peers[p]
  <2>1. peers[n] \in Seq(Nat)
    BY <1>a DEF WireType
  <2>2. Append(peers[n], k) \in Seq(Nat) /\ ToSet(Append(peers[n], k)) = ToSet(peers[n]) \cup {k}
    BY <1>0, <2>1, AppendFacts
  <2>. QED
    BY <1>a, <1>2, <2>2 DEF WireType
<1>9. Len(conns) \in Nat /\ Len(conns') \in Nat
      /\ \A c \in 1 .. Len(conns') : c \in 1 .. Len(conns) \/ c = k
  BY <1>0, <1>5
<1>10. \A c \in 1 .. Len(conns), e \in Ends : Owner(c, e)' = Owner(c, e) /\ Owner(c, e) \in Nodes
  BY <1>a, <1>5, Parts DEF Owner
<1>11. WireType'
  BY <1>5, <1>6, <1>7, <1>8 DEF WireType
<1>12. TwoEnds'
  BY <1>a, <1>1, <1>4, <1>5, <1>9 DEF TwoEnds
<1>13. ListsHold'
  <2>1. ASSUME NEW p \in Nodes, NEW c \in ToSet(peers'[p]) PROVE c \in 1 .. Len(conns')
    <3>1. c \in ToSet(peers[p]) \/ c = k
      BY <1>8, <2>1
    <3>2. c \in ToSet(peers[p]) => c \in 1 .. Len(conns)
      BY <1>a DEF ListsHold
    <3>. QED
      BY <1>0, <1>5, <3>1, <3>2
  <2>. QED
    BY <2>1 DEF ListsHold
<1>14. LiveListed'
  <2>1. ASSUME NEW c \in 1 .. Len(conns'), NEW e \in Ends, Live(c, e)'
        PROVE  c \in ToSet(peers'[Owner(c, e)'])
    <3>1. CASE c \in 1 .. Len(conns)
      <4>1. Live(c, e)
        BY <1>6, <2>1, <3>1 DEF Live
      <4>. QED
        BY <1>a, <1>8, <1>10, <3>1, <4>1 DEF LiveListed
    <3>2. CASE c = k
      <4>1. e = "from" /\ Owner(c, e)' = n
        BY <1>4, <1>5, <1>6, <2>1, <3>2 DEF Live, Ends, Owner
      <4>. QED
        BY <1>8, <3>2, <4>1
    <3>. QED
      BY <1>9, <3>1, <3>2
  <2>. QED
    BY <2>1 DEF LiveListed
<1>15. AuthFirst'
  BY <1>a, <1>4, <1>5, <1>6, <1>7, <1>9 DEF AuthFirst
<1>16. Decisions'
  <2>1. ASSUME NEW p \in Nodes, NEW c \in AgreedPeers(p)' PROVE c \in AgreedPeers(p)
    <3>1. PICK e \in Ends : Owner(c, e)' = p /\ stage'[c][e] = "agreed"
      BY DEF AgreedPeers
    <3>2. c \in 1 .. Len(conns')
      BY <1>5 DEF AgreedPeers
    <3>3. c # k
      BY <1>4, <1>6, <3>1 DEF Ends
    <3>4. c \in 1 .. Len(conns) /\ DOMAIN conns = 1 .. Len(conns)
      BY <1>a, <1>9, <3>2, <3>3 DEF WireType
    <3>. QED
      BY <1>6, <1>10, <3>1, <3>4 DEF AgreedPeers
  <2>. QED
    BY <1>a, <1>5, <2>1, DecisionsKept
<1>. QED
  BY <1>11, <1>12, <1>13, <1>14, <1>15, <1>16 DEF Shape

\* _on_new_connection lists the peer it starts.
LEMMA AcceptKeeps ==
  ASSUME Shape, Decisions, NEW c \in 1 .. Len(conns), _on_new_connection(c)
  PROVE  Shape' /\ Decisions'
<1> DEFINE n == conns[c].to
           v == IF n \in listening THEN "accepted" ELSE "stopped"
<1>0. WireType /\ TwoEnds /\ ListsHold /\ LiveListed /\ AuthFirst
  BY DEF Shape
<1>1. n \in Nodes /\ stage[c] \in [Ends -> Stages] /\ c \in Nat /\ DOMAIN conns = 1 .. Len(conns)
  BY <1>0, Parts DEF WireType
<1>2. /\ stage[c]["to"] = "none"
      /\ stage' = [stage EXCEPT ![c] = [stage[c] EXCEPT !["to"] = v]]
      /\ peers' = IF n \in listening THEN [peers EXCEPT ![n] = Append(peers[n], c)] ELSE peers
      /\ conns' = conns /\ inbox' = inbox
  BY DEF _on_new_connection
<1>3. [stage[c] EXCEPT !["to"] = v] \in [Ends -> Stages]
  BY <1>1 DEF Stages
<1>4. /\ stage' \in Seq([Ends -> Stages]) /\ Len(stage') = Len(conns)
      /\ \A d \in 1 .. Len(conns) : \A f \in Ends :
             stage'[d][f] = IF d = c /\ f = "to" THEN v ELSE stage[d][f]
  <2>1. stage \in Seq([Ends -> Stages]) /\ Len(stage) = Len(conns)
    BY <1>0 DEF WireType
  <2>. HIDE DEF v
  <2>. QED
    BY <1>1, <1>2, <1>3, <2>1, ExceptFacts
<1>5. /\ peers' \in [Nodes -> Seq(Nat)]
      /\ \A m \in Nodes : ToSet(peers[m]) \subseteq ToSet(peers'[m])
      /\ \A m \in Nodes : ToSet(peers'[m]) \subseteq ToSet(peers[m]) \cup {c}
      /\ n \in listening => c \in ToSet(peers'[n])
  <2>1. peers \in [Nodes -> Seq(Nat)] /\ peers[n] \in Seq(Nat)
    BY <1>0, <1>1 DEF WireType
  <2>2. Append(peers[n], c) \in Seq(Nat) /\ ToSet(Append(peers[n], c)) = ToSet(peers[n]) \cup {c}
    BY <1>1, <2>1, AppendFacts
  <2>. HIDE DEF n
  <2>. QED
    BY <1>1, <1>2, <2>1, <2>2
<1>6. \A d \in 1 .. Len(conns), f \in Ends : Owner(d, f)' = Owner(d, f) /\ Owner(d, f) \in Nodes
  BY <1>0, <1>2, Parts DEF Owner
<1>7. WireType'
  BY <1>0, <1>2, <1>4, <1>5 DEF WireType
<1>8. TwoEnds' /\ ListsHold'
  BY <1>0, <1>2, <1>5 DEF TwoEnds, ListsHold
<1>9. LiveListed'
  <2>1. SUFFICES ASSUME NEW d \in 1 .. Len(conns), NEW f \in Ends, Live(d, f)'
                 PROVE  d \in ToSet(peers'[Owner(d, f)])
    BY <1>2, <1>6 DEF LiveListed
  <2>2. CASE d = c /\ f = "to"
    <3>1. n \in listening
      BY <1>4, <2>1, <2>2 DEF Live
    <3>. QED
      BY <1>5, <2>2, <3>1 DEF Owner
  <2>3. CASE ~ (d = c /\ f = "to")
    <3>1. Live(d, f)
      BY <1>4, <2>1, <2>3 DEF Live
    <3>. QED
      BY <1>0, <1>5, <1>6, <3>1 DEF LiveListed
  <2>. QED
    BY <2>2, <2>3
<1>10. AuthFirst'
  BY <1>0, <1>2, <1>4 DEF AuthFirst, Ends
<1>11. Decisions'
  <2>1. \A m \in Nodes : AgreedPeers(m)' \subseteq AgreedPeers(m)
    BY <1>1, <1>2, <1>4, <1>6 DEF AgreedPeers
  <2>. QED
    BY <1>0, <1>2, <2>1, DecisionsKept
<1>. QED
  BY <1>7, <1>8, <1>9, <1>10, <1>11 DEF Shape

\* The peer that read a message is past the first one, and what it answers
\* comes behind what its remote has not read yet.
LEMMA AnswerKeeps ==
  ASSUME Shape, NEW c \in 1 .. Len(conns), NEW e \in Ends,
         NEW v \in Stages \ {"none", "accepted"}, NEW out \in Seq(Messages),
         Live(c, e), inbox[c][e] # <<>>,
         stage' = [stage EXCEPT ![c][e] = v], Answer(c, e, out), UNCHANGED <<conns, peers>>
  PROVE  /\ Shape'
         /\ \A d \in 1 .. Len(conns) : \A f \in Ends :
                stage'[d][f] = IF d = c /\ f = e THEN v ELSE stage[d][f]
         /\ \A d \in 1 .. Len(conns), f \in Ends : Owner(d, f)' = Owner(d, f) /\ Owner(d, f) \in Nodes
<1> DEFINE o == Other(e)
           q == [inbox[c] EXCEPT ![e] = Tail(inbox[c][e]),
                                 ![o] = IF stage[c][o] = "stopped" THEN inbox[c][o] ELSE inbox[c][o] \o out]
<1>0. WireType /\ TwoEnds /\ ListsHold /\ LiveListed /\ AuthFirst
  BY DEF Shape
<1>1. /\ o \in Ends /\ o # e
      /\ stage[c] \in [Ends -> Stages] /\ inbox[c] \in [Ends -> Seq(Messages)]
      /\ inbox[c][e] \in Seq(Messages) /\ inbox[c][o] \in Seq(Messages)
  BY <1>0, Parts DEF Other, Ends
<1>2. /\ stage \in Seq([Ends -> Stages]) /\ Len(stage) = Len(conns)
      /\ inbox \in Seq([Ends -> Seq(Messages)]) /\ Len(inbox) = Len(conns)
  BY <1>0 DEF WireType
<1> HIDE DEF o
<1>3. inbox' = [inbox EXCEPT ![c] = q]
  BY <1>1, <1>2 DEF Answer, o
<1>4. /\ Tail(inbox[c][e]) \in Seq(Messages)
      /\ inbox[c][o] \o out \in Seq(Messages)
      /\ inbox[c][o] # <<>> => (inbox[c][o] \o out # <<>> /\ Head(inbox[c][o] \o out) = Head(inbox[c][o]))
  <2>1. Tail(inbox[c][e]) \in Seq(Messages)
    BY <1>1, HeadTailProperties
  <2>2. /\ inbox[c][o] \o out \in Seq(Messages)
        /\ Len(inbox[c][o] \o out) = Len(inbox[c][o]) + Len(out)
        /\ \A i \in 1 .. Len(inbox[c][o]) + Len(out) :
               (inbox[c][o] \o out)[i] = IF i <= Len(inbox[c][o]) THEN inbox[c][o][i] ELSE out[i - Len(inbox[c][o])]
    BY <1>1, ConcatProperties
  <2>3. ASSUME inbox[c][o] # <<>>
        PROVE  inbox[c][o] \o out # <<>> /\ Head(inbox[c][o] \o out) = Head(inbox[c][o])
    <3>1. Len(inbox[c][o]) \in Nat \ {0} /\ Len(out) \in Nat
      BY <1>1, <2>3, EmptySeq
    <3>2. Len(inbox[c][o] \o out) # 0 /\ (inbox[c][o] \o out)[1] = inbox[c][o][1]
      BY <2>2, <3>1
    <3>. QED
      BY <1>1, <2>2, <2>3, <3>2, HeadTailProperties, EmptySeq
  <2>. QED
    BY <2>1, <2>2, <2>3
<1>5. /\ q \in [Ends -> Seq(Messages)]
      /\ q[e] = Tail(inbox[c][e])
      /\ q[o] = IF stage[c][o] = "stopped" THEN inbox[c][o] ELSE inbox[c][o] \o out
  BY <1>1, <1>4
<1> HIDE DEF q
<1>6. /\ inbox' \in Seq([Ends -> Seq(Messages)]) /\ Len(inbox') = Len(conns)
      /\ \A d \in 1 .. Len(conns) : inbox'[d] = IF d = c THEN q ELSE inbox[d]
  BY <1>2, <1>3, <1>5, ExceptFacts
<1>7. /\ stage' \in Seq([Ends -> Stages]) /\ Len(stage') = Len(conns)
      /\ \A d \in 1 .. Len(conns) : \A f \in Ends :
             stage'[d][f] = IF d = c /\ f = e THEN v ELSE stage[d][f]
  <2>1. [stage[c] EXCEPT ![e] = v] \in [Ends -> Stages]
    BY <1>1
  <2>2. stage' = [stage EXCEPT ![c] = [stage[c] EXCEPT ![e] = v]]
    OBVIOUS
  <2>. QED
    BY <1>1, <1>2, <2>1, <2>2, ExceptFacts
<1>8. \A d \in 1 .. Len(conns), f \in Ends : Owner(d, f)' = Owner(d, f) /\ Owner(d, f) \in Nodes
  BY <1>0, Parts DEF Owner
<1>9. WireType' /\ TwoEnds' /\ ListsHold'
  BY <1>0, <1>6, <1>7 DEF WireType, TwoEnds, ListsHold
<1>10. LiveListed'
  BY <1>0, <1>7, <1>8 DEF LiveListed, Live
<1>11. AuthFirst'
  <2>1. SUFFICES ASSUME NEW d \in 1 .. Len(conns), stage'[d]["to"] \in {"none", "accepted"}
                 PROVE  inbox'[d]["to"] # <<>> /\ Head(inbox'[d]["to"]) = "auth"
    BY DEF AuthFirst
  <2>2. stage[d]["to"] \in {"none", "accepted"} /\ ~ (d = c /\ e = "to")
    BY <1>7, <2>1 DEF Ends
  <2>3. inbox[d]["to"] # <<>> /\ Head(inbox[d]["to"]) = "auth"
    BY <1>0, <2>2 DEF AuthFirst
  <2>4. CASE d = c
    <3>1. o = "to"
      BY <2>2, <2>4 DEF o, Other, Ends
    <3>. QED
      BY <1>4, <1>5, <1>6, <2>3, <2>4, <3>1
  <2>. QED
    BY <1>6, <2>3, <2>4
<1>. QED
  BY <1>7, <1>8, <1>9, <1>10, <1>11 DEF Shape

\* A peer that is agreed to, or that has read more than the auth message, knows
\* its remote.
LEMMA RemoteKnown ==
  ASSUME NEW c, NEW e \in Ends, NEW n, Owner(c, e) = n, stage[c][e] # "accepted"
  PROVE  remote_pubkey(c, n) = Peer(c, n)
  BY DEF remote_pubkey, Peer, Owner, Ends

\* on_hello_received agrees to a connection only if there is room for it and no
\* other one with the same node.
LEMMA HelloKeeps ==
  ASSUME Shape, Decisions, NEW c \in 1 .. Len(conns), NEW e \in Ends,
         Live(c, e), inbox[c][e] # <<>>, Head(inbox[c][e]) = "hello",
         on_hello_received(Owner(c, e), c),
         stage' = [stage EXCEPT ![c][e] = "agreed"], Answer(c, e, <<>>), UNCHANGED <<conns, peers>>
  PROVE  Shape' /\ Decisions'
<1> DEFINE n == Owner(c, e)
<1>0. WireType /\ TwoEnds /\ ListsHold /\ LiveListed /\ AuthFirst
  BY DEF Shape
<1>1. /\ Shape'
      /\ \A d \in 1 .. Len(conns) : \A f \in Ends :
             stage'[d][f] = IF d = c /\ f = e THEN "agreed" ELSE stage[d][f]
      /\ \A d \in 1 .. Len(conns), f \in Ends : Owner(d, f)' = Owner(d, f) /\ Owner(d, f) \in Nodes
  <2>1. "agreed" \in Stages \ {"none", "accepted"} /\ <<>> \in Seq(Messages)
    BY DEF Stages
  <2>. QED
    BY <2>1, AnswerKeeps
<1>2. n \in Nodes /\ DOMAIN conns = 1 .. Len(conns) /\ DOMAIN conns' = 1 .. Len(conns)
  BY <1>0, <1>1 DEF WireType
<1>3. ASSUME NEW m \in Nodes, NEW d \in AgreedPeers(m)'
      PROVE  /\ d \in 1 .. Len(conns) /\ d \in ToSet(peers[m])
             /\ d # c \/ m # n => d \in AgreedPeers(m)
  <2>1. PICK f \in Ends : d \in 1 .. Len(conns) /\ Owner(d, f)' = m /\ stage'[d][f] = "agreed"
    BY <1>2 DEF AgreedPeers
  <2>2. Owner(d, f) = m
    BY <1>1, <2>1
  <2>3. d \in ToSet(peers[m])
    <3>1. LiveListed' /\ Live(d, f)'
      BY <1>1, <2>1 DEF Shape, Live
    <3>. QED
      BY <2>1, <3>1 DEF LiveListed
  <2>4. ASSUME d # c \/ m # n PROVE d \in AgreedPeers(m)
    BY <1>1, <1>2, <2>1, <2>2, <2>4 DEF AgreedPeers
  <2>. QED
    BY <2>1, <2>3, <2>4
<1>4. ASSUME NEW m \in Nodes
      PROVE  /\ Cardinality(AgreedPeers(m)') <= max_peers[m]
             /\ \A d1, d2 \in AgreedPeers(m)' : d1 # d2 => Peer(d1, m)' # Peer(d2, m)'
  <2>1. CASE m # n
    <3>1. AgreedPeers(m)' \subseteq AgreedPeers(m)
      BY <1>3, <2>1
    <3>. QED
      BY <1>0, <3>1, DecisionsKeptAt
  <2>2. CASE m = n
    <3>1. Cardinality(AgreedPeers(m)') <= max_peers[m]
      <4>1. peers[m] \in Seq(Nat) /\ Len(peers[m]) \in Nat /\ max_peers[m] \in Nat
        BY <1>0, ManagerAssumption DEF WireType
      <4>2. IsFiniteSet(ToSet(peers[m])) /\ Cardinality(ToSet(peers[m])) <= Len(peers[m])
        BY <4>1, ToSetCardinality
      <4>3. AgreedPeers(m)' \subseteq ToSet(peers[m])
        BY <1>3
      <4>4. /\ Cardinality(AgreedPeers(m)') \in Nat /\ Cardinality(ToSet(peers[m])) \in Nat
            /\ Cardinality(AgreedPeers(m)') <= Cardinality(ToSet(peers[m]))
        BY <4>2, <4>3, FS_Subset, FS_CardinalityType
      <4>5. Len(peers[m]) <= max_peers[m]
        BY <2>2 DEF on_hello_received
      <4>. QED
        BY <4>1, <4>2, <4>4, <4>5
    <3>2. ASSUME NEW d \in AgreedPeers(m)', d # c PROVE Peer(d, m) # Peer(c, m)
      <4>1. d \in AgreedPeers(m) /\ d \in ToSet(peers[m]) \ {c}
        BY <1>3, <3>2
      <4>2. remote_pubkey(d, m) # remote_pubkey(c, m)
        BY <2>2, <4>1 DEF on_hello_received
      <4>3. remote_pubkey(d, m) = Peer(d, m)
        BY <4>1, RemoteKnown DEF AgreedPeers
      <4>4. remote_pubkey(c, m) = Peer(c, m)
        <5>1. stage[c]["to"] # "accepted" \/ e # "to"
          BY <1>0 DEF AuthFirst
        <5>. QED
          BY <2>2, <5>1 DEF remote_pubkey, Peer, Owner, Ends
      <4>. QED
        BY <4>2, <4>3, <4>4
    <3>3. ASSUME NEW d1 \in AgreedPeers(m)', NEW d2 \in AgreedPeers(m)', d1 # d2
          PROVE  Peer(d1, m) # Peer(d2, m)
      <4>1. CASE d1 # c /\ d2 # c
        BY <1>3, <3>3, <4>1 DEF Decisions, OnePeer
      <4>. QED
        BY <3>2, <3>3, <4>1
    <3>4. \A d : Peer(d, m)' = Peer(d, m)
      BY DEF Peer
    <3>. QED
      BY <3>1, <3>3, <3>4
  <2>. QED
    BY <2>1, <2>2
<1>. QED
  BY <1>1, <1>4 DEF Decisions, AgreedBounded, OnePeer

\* Whatever message is read.
LEMMA ReceiveKeeps ==
  ASSUME Shape, Decisions, NEW c \in 1 .. Len(conns), NEW e \in Ends, Receive(c, e)
  PROVE  Shape' /\ Decisions'
<1>0. WireType /\ UNCHANGED conns /\ Live(c, e) /\ inbox[c][e] # <<>>
  BY DEF Shape, Receive
<1>1. ASSUME NEW v \in {"keyed", "refused"}, NEW out \in Seq(Messages),
             stage' = [stage EXCEPT ![c][e] = v], Answer(c, e, out), UNCHANGED peers
      PROVE  Shape' /\ Decisions'
  <2>1. v \in Stages \ {"none", "accepted"} /\ v # "agreed"
    BY DEF Stages
  <2>2. /\ Shape'
        /\ \A d \in 1 .. Len(conns) : \A f \in Ends :
               stage'[d][f] = IF d = c /\ f = e THEN v ELSE stage[d][f]
        /\ \A d \in 1 .. Len(conns), f \in Ends : Owner(d, f)' = Owner(d, f) /\ Owner(d, f) \in Nodes
    BY <1>0, <1>1, <2>1, AnswerKeeps
  <2>3. DOMAIN conns = 1 .. Len(conns)
    BY <1>0 DEF WireType
  <2>4. \A m \in Nodes : AgreedPeers(m)' \subseteq AgreedPeers(m)
    BY <1>0, <2>1, <2>2, <2>3 DEF AgreedPeers
  <2>. QED
    BY <1>0, <2>2, <2>4, DecisionsKept
<1>2. <<"ack", "hello">> \in Seq(Messages) /\ <<"hello">> \in Seq(Messages) /\ <<"disconnect">> \in Seq(Messages)
  BY DEF Messages
<1>3. CASE stage' = [stage EXCEPT ![c][e] = "keyed"] /\ Answer(c, e, <<"ack", "hello">>) /\ UNCHANGED peers
  BY <1>1, <1>2, <1>3
<1>4. CASE stage' = [stage EXCEPT ![c][e] = "keyed"] /\ Answer(c, e, <<"hello">>) /\ UNCHANGED peers
  BY <1>1, <1>2, <1>4
<1>5. CASE /\ Head(inbox[c][e]) = "hello" /\ on_hello_received(Owner(c, e), c)
           /\ stage' = [stage EXCEPT ![c][e] = "agreed"] /\ Answer(c, e, <<>>) /\ UNCHANGED peers
  BY <1>0, <1>5, HelloKeeps
<1>6. CASE stage' = [stage EXCEPT ![c][e] = "refused"] /\ Answer(c, e, <<"disconnect">>) /\ UNCHANGED peers
  BY <1>1, <1>2, <1>6
<1>7. CASE StopPeer(c, e)
  BY <1>0, <1>7, StopKeeps
<1>. QED
  BY <1>3, <1>4, <1>5, <1>6, <1>7 DEF Receive

-----------------------------------------------------------------------------
(* The invariant holds                                                     *)

\* A node dials others only.
LEMMA DialKeeps ==
  ASSUME IInv, [Next]_vars
  PROVE  DialType'
<1>0. DialType
  BY DEF IInv
<1>1. ASSUME NEW n \in Nodes, NEW g \in Greenlets, NEW m \in Nodes \cup {None}, m # n \/ m = None,
             dialling' = [dialling EXCEPT ![n][g] = m]
      PROVE  DialType'
  <2>1. m # n
    BY <1>1, ManagerAssumption
  <2>2. dialling' \in [Nodes -> [Greenlets -> Nodes \cup {None}]]
    BY <1>0, <1>1 DEF DialType
  <2>. QED
    BY <1>0, <1>1, <2>1, <2>2 DEF DialType
<1>2. CASE dialling' = dialling
  BY <1>0, <1>2 DEF DialType
<1>3. ASSUME NEW n \in Nodes, _bootstrap(n) PROVE DialType'
  <2>1. PICK m \in bootstrap_nodes[n] : dialling' = [dialling EXCEPT ![n]["bootstrap"] = m]
    BY <1>3 DEF _bootstrap
  <2>2. m \in Nodes /\ m # n /\ "bootstrap" \in Greenlets
    BY ManagerAssumption DEF Greenlets
  <2>. QED
    BY <1>1, <2>1, <2>2
<1>4. ASSUME NEW n \in Nodes, _discovery_loop(n) PROVE DialType'
  <2>1. PICK m \in Nodes \ ({n} \cup remote_pubkeys(n)) : dialling' = [dialling EXCEPT ![n]["discovery"] = m]
    BY <1>4 DEF _discovery_loop
  <2>2. "discovery" \in Greenlets
    BY DEF Greenlets
  <2>. QED
    BY <1>1, <2>1, <2>2
<1>5. ASSUME NEW n \in Nodes, NEW g \in Greenlets, connect(n, g) \/ connect_fails(n, g) PROVE DialType'
  <2>1. dialling' = [dialling EXCEPT ![n][g] = None]
    BY <1>5 DEF connect, connect_fails
  <2>. QED
    BY <1>1, <2>1
<1>6. ASSUME NEW n \in Nodes, StopBegins(n) \/ StopNext(n) \/ StopEnds(n) PROVE dialling' = dialling
  BY <1>6 DEF StopBegins, StopNext, StopEnds
<1>7. ASSUME NEW c \in DOMAIN conns, NEW e \in Ends,
             \/ _on_new_connection(c) \/ Receive(c, e)
             \/ DeferredStop(c, e) \/ RemoteGone(c, e) \/ Drop(c, e)
      PROVE  dialling' = dialling
  BY <1>7 DEF _on_new_connection, Receive, DeferredStop, RemoteGone, Drop
<1>8. CASE UNCHANGED vars
  BY <1>2, <1>8 DEF vars
<1>9. Ends # {}
  BY DEF Ends
<1>. QED
  BY <1>2, <1>3, <1>4, <1>5, <1>6, <1>7, <1>8, <1>9 DEF Next

\* A step that changes no connection and no list keeps the decisions.
LEMMA WireUnchanged ==
  ASSUME IInv, UNCHANGED Wire
  PROVE  Shape' /\ Decisions'
<1>1. UNCHANGED <<conns, stage, inbox, peers>>
  BY DEF Wire
<1>2. Shape'
  BY <1>1 DEF IInv, Shape, WireType, TwoEnds, ListsHold, LiveListed, AuthFirst, Live, Owner
<1>3. Decisions'
  BY <1>1 DEF IInv, Decisions, AgreedBounded, OnePeer, AgreedPeers, Peer, Owner
<1>. QED
  BY <1>2, <1>3

\* No connection, no decision.
LEMMA InitIInv ==
  Init => IInv
<1>1. SUFFICES ASSUME Init PROVE IInv
  OBVIOUS
<1>2. conns = <<>> /\ Len(conns) = 0 /\ stage = <<>> /\ inbox = <<>> /\ DOMAIN conns = {}
  BY <1>1 DEF Init
<1>3. WireType
  BY <1>1, <1>2 DEF Init, WireType
<1>4. DialType
  BY <1>1, ManagerAssumption DEF Init, DialType
<1>5. TwoEnds /\ LiveListed /\ AuthFirst
  BY <1>2 DEF TwoEnds, LiveListed, AuthFirst
<1>6. ListsHold
  BY <1>1 DEF Init, ListsHold, ToSet
<1>7. \A n \in Nodes : AgreedPeers(n) = {}
  BY <1>2 DEF AgreedPeers
<1>8. Decisions
  <2>1. max_peers \in [Nodes -> Nat]
    BY ManagerAssumption
  <2>2. Cardinality({}) = 0
    BY FS_EmptySet
  <2>. QED
    BY <1>7, <2>1, <2>2 DEF Decisions, AgreedBounded, OnePeer
<1>. QED
  BY <1>3, <1>4, <1>5, <1>6, <1>8 DEF IInv, Shape

\* Every action of the managers and of the peers, stop() included.
LEMMA NextIInv ==
  IInv /\ [Next]_vars => IInv'
<1>1. SUFFICES ASSUME IInv, [Next]_vars PROVE IInv'
  OBVIOUS
<1>2. DialType'
  BY <1>1, DialKeeps
<1>3. /\ Shape /\ Decisions /\ DOMAIN conns = 1 .. Len(conns)
      /\ \A n \in Nodes : peers[n] \in Seq(Nat) /\ \A c \in ToSet(peers[n]) : c \in 1 .. Len(conns)
  BY <1>1 DEF IInv, Shape, WireType, ListsHold
<1>4. ASSUME NEW n \in Nodes,
             _bootstrap(n) \/ _discovery_loop(n) \/ StopBegins(n) \/ StopEnds(n)
      PROVE  Shape' /\ Decisions'
  <2>1. UNCHANGED Wire
    BY <1>4 DEF _bootstrap, _discovery_loop, StopBegins, StopEnds, Wire
  <2>. QED
    BY <1>1, <2>1, WireUnchanged
<1>5. ASSUME NEW n \in Nodes, NEW g \in Greenlets, connect(n, g) PROVE Shape' /\ Decisions'
  BY <1>1, <1>5, ConnectKeeps
<1>6. ASSUME NEW n \in Nodes, NEW g \in Greenlets, connect_fails(n, g) PROVE Shape' /\ Decisions'
  <2>1. UNCHANGED Wire
    BY <1>6 DEF connect_fails, Wire
  <2>. QED
    BY <1>1, <2>1, WireUnchanged
<1>7. ASSUME NEW n \in Nodes, StopNext(n) PROVE Shape' /\ Decisions'
  <2>1. /\ cursor[n] \in 1 .. Len(peers[n]) /\ UNCHANGED conns
        /\ StopPeer(peers[n][cursor[n]], EndOf(peers[n][cursor[n]], n))
    BY <1>7 DEF StopNext
  <2>2. peers[n][cursor[n]] \in 1 .. Len(conns)
    BY <1>3, <2>1 DEF ToSet
  <2>3. EndOf(peers[n][cursor[n]], n) \in Ends
    BY DEF EndOf, Ends
  <2>. QED
    BY <1>3, <2>1, <2>2, <2>3, StopKeeps
<1>8. ASSUME NEW c \in DOMAIN conns, _on_new_connection(c) PROVE Shape' /\ Decisions'
  BY <1>3, <1>8, AcceptKeeps
<1>9. ASSUME NEW c \in DOMAIN conns, NEW e \in Ends, Receive(c, e) PROVE Shape' /\ Decisions'
  BY <1>3, <1>9, ReceiveKeeps
<1>10. ASSUME NEW c \in DOMAIN conns, NEW e \in Ends, DeferredStop(c, e) \/ RemoteGone(c, e) \/ Drop(c, e)
       PROVE  Shape' /\ Decisions'
  <2>1. StopPeer(c, e) /\ UNCHANGED conns
    BY <1>10 DEF DeferredStop, RemoteGone, Drop
  <2>. QED
    BY <1>3, <2>1, StopKeeps
<1>11. ASSUME UNCHANGED vars PROVE Shape' /\ Decisions'
  <2>1. UNCHANGED Wire
    BY <1>11 DEF vars, Wire
  <2>. QED
    BY <1>1, <2>1, WireUnchanged
<1>12. Shape' /\ Decisions'
  <2>. "from" \in Ends
    BY DEF Ends
  <2>. QED
    BY <1>1, <1>4, <1>5, <1>6, <1>7, <1>8, <1>9, <1>10, <1>11 DEF Next
<1>. QED
  BY <1>2, <1>12 DEF IInv

\* The inductive invariant holds in every behaviour.
THEOREM SpecIInv == Spec => []IInv
<1>. QED
  BY InitIInv, NextIInv, PTL DEF Spec

\* However many connections arrive at once, on_hello_received agrees to at most
\* max_peers of them.
THEOREM SpecAgreedBounded == Spec => []AgreedBounded
<1>1. IInv => AgreedBounded
  BY DEF IInv, Decisions
<1>. QED
  BY <1>1, SpecIInv, PTL

\* Nodes that dial each other at the same time end up with at most one agreed
\* connection: on_hello_received compares the remote_pubkeys, and by then each
\* is known.
THEOREM SpecOneConnectionPerNode == Spec => []OneConnectionPerNode
<1>1. ASSUME NEW n \in Nodes, NEW c \in AgreedPeers(n) PROVE remote_pubkey(c, n) = Peer(c, n)
  BY <1>1, RemoteKnown DEF AgreedPeers
<1>2. IInv => OneConnectionPerNode
  BY <1>1 DEF IInv, Decisions, OnePeer, OneConnectionPerNode
<1>. QED
  BY <1>2, SpecIInv, PTL

-----------------------------------------------------------------------------
(* PeerFlow: the event of a peer.                                          *)

Senders == {"idle", "writing", "failing", "gone"}
Lives == {"running", "stopping", "stopped"}

\* What the event, the sender and the life of a peer may be.
FlowType ==
    /\ safe_to_read \in [Peers -> BOOLEAN]
    /\ sender \in [Peers -> Senders]
    /\ life \in [Peers -> Lives]

FlowInv == FlowType /\ EventRestored

\* The event is cleared only together with the sender being in sendall.
LEMMA WriteKeeps ==
  ASSUME FlowInv, NEW p \in Peers, NEW n, Write(p, n), UNCHANGED life
  PROVE  FlowInv'
<1> DEFINE all == Least(n, Capacity - data[p]) = n
<1>1. safe_to_read' = [safe_to_read EXCEPT ![p] = all]
  BY DEF Write
<1>2. \E s \in Senders : sender' = [sender EXCEPT ![p] = s] /\ (all \/ s = "writing")
  BY DEF Write, Senders
<1>3. PICK s \in Senders : sender' = [sender EXCEPT ![p] = s] /\ (all \/ s = "writing")
  BY <1>2
<1>4. all \in BOOLEAN
  OBVIOUS
<1> HIDE DEF all
<1>5. FlowType'
  BY <1>1, <1>3, <1>4 DEF FlowInv, FlowType
<1>6. EventRestored'
  BY <1>1, <1>3, <1>4 DEF FlowInv, FlowType, EventRestored
<1>. QED
  BY <1>5, <1>6 DEF FlowInv

\* A timeout or a write error: the failing sender sets the event in the end.
LEMMA FailKeeps ==
  ASSUME FlowInv, NEW p \in Peers, SendFails(p)
  PROVE  FlowInv'
<1>1. CASE life[p] = "running"
  <2>1. /\ life' = [life EXCEPT ![p] = "stopping"] /\ sender' = [sender EXCEPT ![p] = "failing"]
        /\ safe_to_read' = safe_to_read
    BY <1>1 DEF SendFails
  <2>. QED
    BY <2>1 DEF FlowInv, FlowType, EventRestored, Senders, Lives
<1>2. CASE life[p] # "running"
  <2>1. /\ safe_to_read' = [safe_to_read EXCEPT ![p] = TRUE]
        /\ sender' = [sender EXCEPT ![p] = "gone"] /\ life' = life
    BY <1>2 DEF SendFails
  <2>. QED
    BY <2>1 DEF FlowInv, FlowType, EventRestored, Senders, Lives
<1>. QED
  BY <1>1, <1>2

\* A sender may be killed in the middle of a write, but its peer is stopped then.
LEMMA PeerStopEndsKeeps ==
  ASSUME FlowInv, NEW p \in Peers, PeerStopEnds(p)
  PROVE  FlowInv'
<1> DEFINE b == safe_to_read[p] \/ sender[p] = "failing"
<1>1. /\ life' = [life EXCEPT ![p] = "stopped"] /\ sender' = [sender EXCEPT ![p] = "gone"]
      /\ safe_to_read' = [safe_to_read EXCEPT ![p] = b] /\ b \in BOOLEAN
  BY DEF PeerStopEnds
<1> HIDE DEF b
<1>2. FlowType'
  BY <1>1 DEF FlowInv, FlowType, Senders, Lives
<1>3. EventRestored'
  BY <1>1 DEF FlowInv, FlowType, EventRestored
<1>. QED
  BY <1>2, <1>3 DEF FlowInv

\* Steps that leave the event and the sender alone and stop no peer short of
\* what it was.
LEMMA OthersKeep ==
  ASSUME FlowInv, UNCHANGED <<safe_to_read, sender>>,
         life' \in [Peers -> Lives], \A p \in Peers : life'[p] = "stopped" <=> life[p] = "stopped"
  PROVE  FlowInv'
  BY DEF FlowInv, FlowType, EventRestored

\* At a peer that is not stopped a cleared event has a sender that will set it:
\* the readers of the peer and broadcast wait for a write, never for nothing.
THEOREM SpecEventRestored == FlowSpec => []EventRestored
<1>1. FlowInit => FlowInv
  BY DEF FlowInit, FlowInv, FlowType, EventRestored, Senders, Lives
<1>2. FlowInv /\ [FlowNext]_flow_vars => FlowInv'
  <2>1. SUFFICES ASSUME FlowInv, [FlowNext]_flow_vars PROVE FlowInv'
    OBVIOUS
  <2>2. ASSUME UNCHANGED <<safe_to_read, sender, life>> PROVE FlowInv'
    <3>1. life' \in [Peers -> Lives] /\ \A p \in Peers : life'[p] = "stopped" <=> life[p] = "stopped"
      BY <2>1, <2>2 DEF FlowInv, FlowType
    <3>. QED
      BY <2>1, <2>2, <3>1, OthersKeep
  <2>3. ASSUME NEW p \in Peers, SendPacket(p) \/ EventSet(p) \/ Read(p) PROVE FlowInv'
    BY <2>2, <2>3 DEF SendPacket, EventSet, Read, upload
  <2>4. ASSUME NEW p \in Peers, SendBegins(p) \/ SendContinues(p) PROVE FlowInv'
    BY <2>1, <2>4, WriteKeeps DEF SendBegins, SendContinues
  <2>5. ASSUME NEW p \in Peers, SendFails(p) PROVE FlowInv'
    BY <2>1, <2>5, FailKeeps
  <2>6. ASSUME NEW p \in Peers, PeerStopBegins(p) PROVE FlowInv'
    <3>1. life[p] = "running" /\ life' = [life EXCEPT ![p] = "stopping"] /\ UNCHANGED <<safe_to_read, sender>>
      BY <2>6 DEF PeerStopBegins
    <3>2. life' \in [Peers -> Lives] /\ \A q \in Peers : life'[q] = "stopped" <=> life[q] = "stopped"
      BY <2>1, <3>1 DEF FlowInv, FlowType, Lives
    <3>. QED
      BY <2>1, <3>1, <3>2, OthersKeep
  <2>7. ASSUME NEW p \in Peers, PeerStopEnds(p) PROVE FlowInv'
    BY <2>1, <2>7, PeerStopEndsKeeps
  <2>8. CASE Broadcast \/ Resume
    BY <2>2, <2>8 DEF Broadcast, Resume
  <2>9. CASE UNCHANGED flow_vars
    BY <2>2, <2>9 DEF flow_vars, peer
  <2>. QED
    BY <2>1, <2>3, <2>4, <2>5, <2>6, <2>7, <2>8, <2>9 DEF FlowNext
<1>3. FlowInv => EventRestored
  BY DEF FlowInv
<1>. QED
  BY <1>1, <1>2, <1>3, PTL DEF FlowSpec
===============================================================================
