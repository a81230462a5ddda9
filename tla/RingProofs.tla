------------------------------ MODULE RingProofs ------------------------------
(***************************************************************************)
(* The rings of the overlay: broadcast inside one ring, for every ring     *)
(* size, and the tables from which the nodes know their rings, for every   *)
(* set of command lines, number of processes and order of booting.         *)
(***************************************************************************)
EXTENDS RingBroadcast, HGFRRTopology, WellFoundedInduction, TLAPS

-----------------------------------------------------------------------------
(* Broadcast inside one ring.                                              *)

\* Every non-empty set of naturals has a least element: the induction the
\* other lemmas need, in the form of a minimal counterexample.
LEMMA LeastNat ==
  ASSUME NEW T, T \subseteq Nat, T # {}
  PROVE  \E x \in T : \A y \in T : x <= y
<1>1. PICK x \in T : \A y \in T : ~ (<<y, x>> \in OpToRel(<, Nat))
  BY NatLessThanWellFounded, WFMin
<1>2. \A y \in T : ~ (y < x)
  BY <1>1 DEF OpToRel
<1> QED
  BY <1>2

\* A later power of two is at least twice an earlier one (Pow stands for the
\* pow(2, i) of broadcast_within_ring).
LEMMA PowDoubles ==
  \A j \in 0 .. MaxExp : \A i \in 0 .. j - 1 : 2 * Pow[i] <= Pow[j]
<1> DEFINE Bad == {j \in 0 .. MaxExp : \E i \in 0 .. j - 1 : 2 * Pow[i] > Pow[j]}
<1>1. ASSUME Bad # {} PROVE FALSE
  <2>1. Bad \subseteq Nat
    BY PowAssumption
  <2>2. PICK j \in Bad : \A y \in Bad : j <= y
    BY <1>1, <2>1, LeastNat
  <2>3. PICK i \in 0 .. j - 1 : 2 * Pow[i] > Pow[j]
    BY <2>2
  <2>4. j \in Nat /\ j - 1 \in 0 .. MaxExp /\ j - 1 \in 0 .. MaxExp - 1 /\ MaxExp \in Nat
    BY <2>1, <2>2, <2>3, PowAssumption
  <2>5. Pow[j] = 2 * Pow[j - 1]
    BY <2>4, PowAssumption
  <2>6. Pow[i] \in Nat /\ Pow[j - 1] \in Nat
    BY <2>3, <2>4, PowAssumption
  <2>7. CASE i = j - 1
    BY <2>3, <2>5, <2>6, <2>7
  <2>8. CASE i \in 0 .. (j - 1) - 1
    <3>1. j - 1 \notin Bad
      BY <2>2, <2>4
    <3>2. 2 * Pow[i] <= Pow[j - 1]
      BY <3>1, <2>8, <2>4, <2>6
    <3> QED
      BY <3>2, <2>3, <2>5, <2>6
  <2> QED
    BY <2>3, <2>4, <2>7, <2>8
<1>2. Bad = {}
  BY <1>1
<1>3. \A j \in 0 .. MaxExp : \A i \in 0 .. j - 1 : ~(2 * Pow[i] > Pow[j])
  BY <1>2
<1>4. \A j \in 0 .. MaxExp : \A i \in 0 .. j - 1 :
        2 * Pow[i] \in Nat /\ Pow[j] \in Nat
  BY PowAssumption
<1> QED
  BY <1>3, <1>4

\* Every order below the ring size has a leading power of two.
LEMMA LeadingPow ==
  ASSUME NEW o \in 1 .. N - 1
  PROVE  \E i \in 0 .. MaxExp : Pow[i] <= o /\ o - Pow[i] < Pow[i]
<1> DEFINE Above == {j \in 0 .. MaxExp : o < Pow[j]}
<1>0. N \in Nat /\ MaxExp \in Nat /\ o \in Nat
  BY NAssumption, PowAssumption
<1>1. MaxExp \in Above
  <2>1. Pow[MaxExp] \in Nat
    BY PowAssumption
  <2> QED
    BY <1>0, <2>1, NAssumption
<1>2. PICK j \in Above : \A y \in Above : j <= y
  <2>1. Above \subseteq Nat
    OBVIOUS
  <2> QED
    BY <1>1, <2>1, LeastNat
<1>3. j # 0
  BY <1>2, PowAssumption
<1>4. j - 1 \in 0 .. MaxExp - 1 /\ j - 1 \in 0 .. MaxExp
  BY <1>0, <1>2, <1>3
<1>5. j - 1 \notin Above
  BY <1>2, <1>4
<1>6. Pow[j - 1] \in Nat /\ Pow[j] = 2 * Pow[j - 1]
  BY <1>4, PowAssumption
<1>7. Pow[j - 1] <= o
  BY <1>0, <1>4, <1>5, <1>6
<1>8. o - Pow[j - 1] < Pow[j - 1]
  BY <1>0, <1>2, <1>6
<1> QED
  BY <1>4, <1>7, <1>8

\* Adding the modulus changes no remainder.
LEMMA AddMod ==
  ASSUME NEW r \in Nat, NEW m \in Nat \ {0}
  PROVE  (r + m) % m = r % m
<1> DEFINE a == r \div m
           b == (r + m) \div m
           c == r % m
           d == (r + m) % m
<1>1. r = m * a + c /\ c \in 0 .. m - 1 /\ a \in Int
  OBVIOUS
<1>2. r + m = m * b + d /\ d \in 0 .. m - 1 /\ b \in Int
  OBVIOUS
<1> HIDE DEF a, b, c, d
<1>3. m * (a + 1 - b) = d - c
  BY <1>1, <1>2
<1>4. ~ (a + 1 - b >= 1)
  <2>1. a + 1 - b >= 1 => m * (a + 1 - b) >= m
    BY <1>1, <1>2
  <2> QED
    BY <2>1, <1>1, <1>2, <1>3
<1>5. ~ (a + 1 - b <= -1)
  <2>1. a + 1 - b <= -1 => m * (a + 1 - b) <= -m
    BY <1>1, <1>2
  <2> QED
    BY <2>1, <1>1, <1>2, <1>3
<1>6. a + 1 - b = 0
  BY <1>1, <1>2, <1>4, <1>5
<1> QED
  BY <1>1, <1>2, <1>3, <1>6 DEF c, d

\* No power of two is 0.
LEMMA PowPositive == \A j \in 0 .. MaxExp : Pow[j] \in Nat \ {0}
<1> DEFINE Bad == {j \in 0 .. MaxExp : Pow[j] = 0}
<1>1. ASSUME Bad # {} PROVE FALSE
  <2>0. Bad \subseteq Nat
    OBVIOUS
  <2>1. PICK j \in Bad : \A y \in Bad : j <= y
    BY <1>1, <2>0, LeastNat
  <2>2. j # 0 /\ j - 1 \in 0 .. MaxExp - 1 /\ j - 1 \in 0 .. MaxExp
    BY <2>1, PowAssumption
  <2>3. Pow[j] = 2 * Pow[j - 1] /\ Pow[j - 1] \in Nat
    BY <2>2, PowAssumption
  <2>4. j - 1 \in Bad
    BY <2>1, <2>2, <2>3
  <2> QED
    BY <2>1, <2>4
<1> QED
  BY <1>1, PowAssumption

\* A power of two leaves the bits below it alone: adding one does not change the
\* remainder of division by the same or an earlier one.
LEMMA AddPowMod ==
  ASSUME NEW j \in 0 .. MaxExp
  PROVE  \A k \in j .. MaxExp : \A r \in Nat : (r + Pow[k]) % Pow[j] = r % Pow[j]
<1> DEFINE Bad == {k \in j .. MaxExp : \E r \in Nat : (r + Pow[k]) % Pow[j] # r % Pow[j]}
<1>1. ASSUME Bad # {} PROVE FALSE
  <2>0. Bad \subseteq Nat
    BY PowAssumption
  <2>1. PICK k \in Bad : \A y \in Bad : k <= y
    BY <1>1, <2>0, LeastNat
  <2>2. k # j
    <3>1. \A r \in Nat : (r + Pow[j]) % Pow[j] = r % Pow[j]
      BY AddMod, PowPositive
    <3> QED
      BY <2>1, <3>1
  <2>3. /\ k - 1 \in 0 .. MaxExp - 1 /\ k - 1 \in 0 .. MaxExp /\ k - 1 \in j .. MaxExp
        /\ (k - 1) + 1 = k
    BY <2>0, <2>1, <2>2, PowAssumption
  <2>4. Pow[k] = 2 * Pow[k - 1] /\ Pow[k - 1] \in Nat
    BY <2>3, PowAssumption
  <2>5. k - 1 \notin Bad
    BY <2>1, <2>3
  <2>6. \A r \in Nat : (r + Pow[k - 1]) % Pow[j] = r % Pow[j]
    BY <2>3, <2>5
  <2>7. ASSUME NEW r \in Nat PROVE (r + Pow[k]) % Pow[j] = r % Pow[j]
    <3>1. r + Pow[k] = (r + Pow[k - 1]) + Pow[k - 1] /\ r + Pow[k - 1] \in Nat
      BY <2>4
    <3> QED
      BY <3>1, <2>6
  <2> QED
    BY <2>1, <2>7
<1> QED
  BY <1>1

-----------------------------------------------------------------------------
(* Orders and positions.                                                   *)

\* Rel and Abs are inverse to each other: they renumber the ring from start.
LEMMA RelAbs ==
  ASSUME start \in Pos
  PROVE  /\ \A p \in Pos : Rel(p) \in Pos /\ Abs(Rel(p)) = p
         /\ \A o \in Pos : Abs(o) \in Pos /\ Rel(Abs(o)) = o
         /\ Rel(start) = 0
BY NAssumption DEF Rel, Abs, Pos, End

\* The place computed from the sender's own index is the place of the order
\* that the message carries.
LEMMA TargetIsAbs ==
  ASSUME start \in Pos, NEW o \in Pos, NEW i \in Hops(o, End)
  PROVE  /\ Pow[i] \in Nat
         /\ o + Pow[i] \in 1 .. N - 1
         /\ o + Pow[i] \in Pos
         /\ Target(Abs(o), i, End) = Abs(o + Pow[i])
<1>1. i \in 0 .. MaxExp /\ Pow[i] \in Nat
  BY PowAssumption DEF Hops
<1>2. o + Pow[i] <= N - 1 /\ Pow[i] > o
  BY DEF Hops, End
<1> QED
  BY <1>1, <1>2, NAssumption DEF Target, Abs, End, Pos

\* No two nodes forward to the same node.
LEMMA UniqueParent ==
  ASSUME start \in Pos, NEW f \in Pos, NEW g \in Pos, NEW q \in Pos,
         Child(f, q), Child(g, q)
  PROVE  f = g
<1>1. PICK i \in Hops(Rel(f), End) : Rel(q) = Rel(f) + Pow[i]
  BY DEF Child
<1>2. PICK j \in Hops(Rel(g), End) : Rel(q) = Rel(g) + Pow[j]
  BY DEF Child
<1>3. /\ i \in 0 .. MaxExp /\ Pow[i] \in Nat /\ Pow[i] > Rel(f)
      /\ j \in 0 .. MaxExp /\ Pow[j] \in Nat /\ Pow[j] > Rel(g)
      /\ MaxExp \in Nat
  BY PowAssumption DEF Hops
<1>4. /\ Rel(f) \in Nat /\ Rel(g) \in Nat /\ Rel(q) \in Nat
      /\ Abs(Rel(f)) = f /\ Abs(Rel(g)) = g
  BY RelAbs, NAssumption DEF Pos
<1>5. ~ (i < j)
  <2>1. SUFFICES ASSUME i < j PROVE FALSE
    OBVIOUS
  <2>2. i \in 0 .. j - 1
    BY <2>1, <1>3
  <2>3. 2 * Pow[i] <= Pow[j]
    BY <2>2, <1>3, PowDoubles
  <2> QED
    BY <2>3, <1>1, <1>2, <1>3, <1>4
<1>6. ~ (j < i)
  <2>1. SUFFICES ASSUME j < i PROVE FALSE
    OBVIOUS
  <2>2. j \in 0 .. i - 1
    BY <2>1, <1>3
  <2>3. 2 * Pow[j] <= Pow[i]
    BY <2>2, <1>3, PowDoubles
  <2> QED
    BY <2>3, <1>1, <1>2, <1>3, <1>4
<1>7. i = j
  BY <1>3, <1>5, <1>6
<1>8. Rel(f) = Rel(g)
  BY <1>7, <1>1, <1>2, <1>3, <1>4
<1> QED
  BY <1>4, <1>8

\* Nobody forwards to the starter.
LEMMA RootHasNoParent ==
  ASSUME start \in Pos, NEW f \in Pos
  PROVE  ~ Child(f, start)
<1>1. SUFFICES ASSUME Child(f, start) PROVE FALSE
  OBVIOUS
<1>2. PICK i \in Hops(Rel(f), End) : Rel(start) = Rel(f) + Pow[i]
  BY <1>1 DEF Child
<1>3. Pow[i] \in Nat /\ Pow[i] > Rel(f) /\ Rel(f) \in Nat /\ Rel(start) = 0
  BY RelAbs, PowAssumption, NAssumption DEF Hops, Pos
<1> QED
  BY <1>2, <1>3

\* Somebody of a smaller order forwards to every other node.
LEMMA ParentExists ==
  ASSUME start \in Pos, NEW q \in Pos, q # start
  PROVE  \E f \in Pos : Child(f, q) /\ Rel(f) < Rel(q)
<1>1. Rel(q) \in 1 .. N - 1
  BY NAssumption DEF Rel, Pos
<1>2. PICK i \in 0 .. MaxExp : Pow[i] <= Rel(q) /\ Rel(q) - Pow[i] < Pow[i]
  BY <1>1, LeadingPow
<1>3. Pow[i] \in Nat /\ N \in Nat
  BY PowAssumption, NAssumption
<1> DEFINE o == Rel(q) - Pow[i]
<1>4. o \in Pos
  BY <1>1, <1>2, <1>3 DEF Pos
<1>5. Abs(o) \in Pos /\ Rel(Abs(o)) = o
  BY <1>4, RelAbs
<1>6. i \in Hops(o, End)
  BY <1>1, <1>2, <1>3 DEF Hops, End
<1>7. Rel(q) = o + Pow[i] /\ o < Rel(q)
  <2>1. Pow[i] # 0
    BY <1>1, <1>2, <1>3
  <2> QED
    BY <2>1, <1>1, <1>3
<1>8. Child(Abs(o), q)
  BY <1>5, <1>6, <1>7 DEF Child
<1> QED
  BY <1>5, <1>7, <1>8

\* One invocation of broadcast_within_ring, run by a node at p with its own
\* order, addresses exactly the nodes p forwards to, each once.
LEMMA SendsToChildren ==
  ASSUME start \in Pos, NEW p \in Pos
  PROVE  LET out == SendWithinRing(p, Rel(p)) IN
         /\ out \subseteq Message
         /\ \A m \in out : m.from = p /\ Child(p, m.to) /\ m.to = Abs(m.order)
         /\ \A q \in Pos : Child(p, q) => \E m \in out : m.to = q
         /\ \A m1, m2 \in out : m1.to = m2.to => m1 = m2
<1> DEFINE out == SendWithinRing(p, Rel(p))
<1>1. Rel(p) \in Pos /\ Abs(Rel(p)) = p
  BY RelAbs
<1>2. ASSUME NEW i \in Hops(Rel(p), End)
      PROVE  /\ Rel(p) + Pow[i] \in 1 .. N - 1
             /\ Rel(p) + Pow[i] \in Pos
             /\ Target(p, i, End) = Abs(Rel(p) + Pow[i])
             /\ Target(p, i, End) \in Pos
             /\ Rel(Target(p, i, End)) = Rel(p) + Pow[i]
  <2>1. /\ Rel(p) + Pow[i] \in 1 .. N - 1
        /\ Rel(p) + Pow[i] \in Pos
        /\ Target(p, i, End) = Abs(Rel(p) + Pow[i])
    BY <1>1, <1>2, TargetIsAbs
  <2> QED
    BY <2>1, RelAbs
<1>3. ASSUME NEW m \in out
      PROVE  m \in Message /\ m.from = p /\ Child(p, m.to) /\ m.to = Abs(m.order)
  <2>1. PICK i \in Hops(Rel(p), End) :
          m = [from |-> p, to |-> Target(p, i, End), order |-> Rel(p) + Pow[i]]
    BY <1>3 DEF SendWithinRing
  <2>2. m.from = p /\ m.to = Target(p, i, End) /\ m.order = Rel(p) + Pow[i]
    BY <2>1
  <2> QED
    BY <2>1, <2>2, <1>2 DEF Message, Child
<1>4. ASSUME NEW q \in Pos, Child(p, q) PROVE \E m \in out : m.to = q
  <2>1. PICK i \in Hops(Rel(p), End) : Rel(q) = Rel(p) + Pow[i]
    BY <1>4 DEF Child
  <2>2. Target(p, i, End) = q
    BY <2>1, <1>2, RelAbs
  <2> DEFINE m == [from |-> p, to |-> Target(p, i, End), order |-> Rel(p) + Pow[i]]
  <2>3. m \in out /\ m.to = q
    BY <2>2 DEF SendWithinRing
  <2> QED
    BY <2>3
<1>5. ASSUME NEW m1 \in out, NEW m2 \in out, m1.to = m2.to PROVE m1 = m2
  <2>1. PICK i \in Hops(Rel(p), End) :
          m1 = [from |-> p, to |-> Target(p, i, End), order |-> Rel(p) + Pow[i]]
    BY <1>5 DEF SendWithinRing
  <2>2. PICK j \in Hops(Rel(p), End) :
          m2 = [from |-> p, to |-> Target(p, j, End), order |-> Rel(p) + Pow[j]]
    BY <1>5 DEF SendWithinRing
  <2>3. Target(p, i, End) = Target(p, j, End)
    BY <2>1, <2>2, <1>5
  <2>4. Rel(p) + Pow[i] = Rel(p) + Pow[j]
    BY <2>3, <1>2
  <2> QED
    BY <2>1, <2>2, <2>3, <2>4
<1> QED
  BY <1>3, <1>4, <1>5

-----------------------------------------------------------------------------
(* Losses.                                                                 *)

\* A node is cut off by its own message, or if the one that forwards to it is.
LEMMA ChildCutOff ==
  ASSUME start \in Pos, NEW f \in Pos, NEW q \in Pos, Child(f, q)
  PROVE  CutOff(q) <=> q \in lost \/ CutOff(f)
<1> DEFINE r == Rel(f)
           o == Rel(q)
<1>1. /\ r \in Nat /\ o \in Nat /\ r < N /\ o < N /\ N \in Nat
      /\ Abs(r) = f /\ Abs(o) = q
  BY RelAbs, NAssumption DEF Pos
<1>2. PICK k \in Hops(r, End) : o = r + Pow[k]
  BY DEF Child
<1> HIDE DEF r, o
<1>3. k \in 0 .. MaxExp /\ Pow[k] \in Nat /\ r < Pow[k] /\ MaxExp \in 0 .. MaxExp
  BY PowAssumption DEF Hops
<1>4. ASSUME NEW j \in 0 .. k PROVE o % Pow[j] = r % Pow[j]
  <2>1. j \in 0 .. MaxExp /\ k \in j .. MaxExp
    BY <1>3, PowAssumption
  <2> QED
    BY <1>1, <1>2, <2>1, AddPowMod
<1>5. ASSUME NEW j \in k + 1 .. MaxExp PROVE o % Pow[j] = o /\ r % Pow[j] = r
  <2>1. j \in 0 .. MaxExp /\ k \in 0 .. j - 1
    BY <1>3, PowAssumption
  <2>2. 2 * Pow[k] <= Pow[j] /\ Pow[j] \in Nat
    BY <2>1, PowDoubles, PowAssumption
  <2> QED
    BY <1>1, <1>2, <1>3, <2>2
<1>6. r % Pow[k] = r
  BY <1>1, <1>3
<1>7. o % Pow[MaxExp] = o
  <2>1. Pow[MaxExp] \in Nat /\ o < Pow[MaxExp]
    BY <1>1, <1>3, NAssumption, PowAssumption
  <2> QED
    BY <1>1, <2>1
<1>8. \A j \in 0 .. MaxExp : j \in 0 .. k \/ j \in k + 1 .. MaxExp
  BY <1>3, PowAssumption
<1>9. ASSUME CutOff(q) PROVE q \in lost \/ CutOff(f)
  <2>1. PICK j \in 0 .. MaxExp : Abs(o % Pow[j]) \in lost
    BY <1>9 DEF CutOff, o
  <2>2. CASE j \in 0 .. k
    BY <1>4, <2>1, <2>2 DEF CutOff, r
  <2>3. CASE j \in k + 1 .. MaxExp
    BY <1>1, <1>5, <2>1, <2>3
  <2> QED
    BY <1>8, <2>1, <2>2, <2>3
<1>10. ASSUME q \in lost PROVE CutOff(q)
  BY <1>1, <1>3, <1>7, <1>10 DEF CutOff, o
<1>11. ASSUME CutOff(f) PROVE CutOff(q)
  <2>1. PICK j \in 0 .. MaxExp : Abs(r % Pow[j]) \in lost
    BY <1>11 DEF CutOff, r
  <2>2. CASE j \in 0 .. k
    BY <1>4, <2>1, <2>2 DEF CutOff, o
  <2>3. CASE j \in k + 1 .. MaxExp
    <3>1. k \in 0 .. k
      BY <1>3
    <3>2. Abs(o % Pow[k]) \in lost
      BY <1>4, <1>5, <1>6, <2>1, <2>3, <3>1
    <3> QED
      BY <1>3, <3>2 DEF CutOff, o
  <2> QED
    BY <1>8, <2>1, <2>2, <2>3
<1> QED
  BY <1>9, <1>10, <1>11

\* The starter is cut off by nothing but a message to itself.
LEMMA StartCutOff ==
  ASSUME start \in Pos, CutOff(start)
  PROVE  start \in lost
<1>1. Rel(start) = 0 /\ Abs(0) = start
  BY RelAbs, NAssumption DEF Pos
<1>2. PICK j \in 0 .. MaxExp : Abs(0 % Pow[j]) \in lost
  BY <1>1 DEF CutOff
<1>3. 0 % Pow[j] = 0
  BY PowPositive
<1> QED
  BY <1>1, <1>2, <1>3

-----------------------------------------------------------------------------
(* The inductive invariant.                                                *)

\* No step changes who starts the broadcast, so the tree stays the same.
LEMMA TreeFixed ==
  ASSUME start' = start
  PROVE  /\ \A f, q : Child(f, q)' <=> Child(f, q)
         /\ \A o : Abs(o)' = Abs(o)
BY DEF Child, Rel, Abs

\* The invariant holds before the broadcast starts.
LEMMA InitIInv == Init => IInv
<1> SUFFICES ASSUME Init PROVE IInv
  OBVIOUS
<1> USE DEF Init
<1>1. TypeOK
  BY DEF TypeOK
<1>2. AtMostOnce /\ OrderMatchesPosition /\ OnePlace
  BY DEF AtMostOnce, OrderMatchesPosition, OnePlace
<1>3. SentIffForwarded
  BY DEF SentIffForwarded, SentTo
<1> QED
  BY <1>1, <1>2, <1>3 DEF IInv

\* Running the handler at p, which has not run it before, and consuming the
\* message for p (there is none for the starter): both Start and Receive.
LEMMA HandleKeepsIInv ==
  ASSUME IInv, NEW p \in Pos,
         handled[p] = 0, p \notin lost,
         p = start \/ \E m \in net : m.to = p,
         start' = start, lost' = lost,
         handled' = [handled EXCEPT ![p] = @ + 1],
         net' = {m \in net : m.to # p} \cup SendWithinRing(p, Rel(p))
  PROVE  IInv'
<1> DEFINE out == SendWithinRing(p, Rel(p))
<1>0. /\ start \in Pos /\ net \subseteq Message /\ handled \in [Pos -> Nat]
      /\ lost \subseteq Pos
  BY DEF IInv, TypeOK
<1>1. /\ out \subseteq Message
      /\ \A m \in out : m.from = p /\ Child(p, m.to) /\ m.to = Abs(m.order)
      /\ \A q \in Pos : Child(p, q) => \E m \in out : m.to = q
      /\ \A m1, m2 \in out : m1.to = m2.to => m1 = m2
  BY <1>0, SendsToChildren
<1>2. /\ \A f, q : Child(f, q)' <=> Child(f, q)
      /\ \A o : Abs(o)' = Abs(o)
  BY TreeFixed
<1>3. /\ handled' \in [Pos -> Nat]
      /\ handled'[p] = 1
      /\ \A q \in Pos : q # p => handled'[q] = handled[q]
  BY <1>0
<1>4. \A m \in net : m.to \in Pos
  BY <1>0 DEF Message
<1>5. \A m \in out : m.to \in Pos
  BY <1>1 DEF Message
<1>6. ~ Child(p, p) /\ \A q \in Pos : Child(p, q) => q # start
  <2>1. \A q \in Pos : Child(p, q) => q # start
    BY <1>0, RootHasNoParent
  <2>2. ASSUME Child(p, p) PROVE FALSE
    <3>1. p # start
      BY <2>1, <2>2
    <3>2. PICK f \in Pos : Child(f, p) /\ Rel(f) < Rel(p)
      BY <1>0, <3>1, ParentExists
    <3>3. f = p
      BY <1>0, <2>2, <3>2, UniqueParent
    <3>4. Rel(p) \in Nat
      BY <1>0, RelAbs, NAssumption DEF Pos
    <3> QED
      BY <3>2, <3>3, <3>4
  <2> QED
    BY <2>1, <2>2
\* What p forwards to has not been sent a message: only p could have done it.
<1>7. ASSUME NEW q \in Pos, Child(p, q) PROVE ~ SentTo(q)
  <2>1. ASSUME SentTo(q) PROVE FALSE
    <3>1. PICK f \in Pos : handled[f] # 0 /\ Child(f, q)
      BY <2>1 DEF IInv, SentIffForwarded
    <3>2. f = p
      BY <1>0, <1>7, <3>1, UniqueParent
    <3> QED
      BY <3>1, <3>2
  <2> QED
    BY <2>1
<1>8. \A m \in out : /\ handled[m.to] = 0 /\ m.to # p /\ m.to \notin lost
                     /\ \A n \in net : n.to # m.to
  <2> TAKE m \in out
  <2>1. m.to \in Pos /\ Child(p, m.to) /\ m.to # start /\ m.to # p
    BY <1>1, <1>5, <1>6
  <2>2. ~ SentTo(m.to)
    BY <2>1, <1>7
  <2> QED
    BY <2>1, <2>2 DEF SentTo
<1>9. TypeOK'
  BY <1>0, <1>1, <1>3 DEF TypeOK, Pos, Message
<1>10. AtMostOnce'
  BY <1>3 DEF AtMostOnce, IInv
<1>11. OrderMatchesPosition'
  BY <1>1, <1>2 DEF OrderMatchesPosition, IInv
<1>12. OnePlace'
  <2>1. \A m \in net' : handled'[m.to] = 0 /\ m.to \notin lost'
    <3> TAKE m \in net'
    <3>1. CASE m \in net /\ m.to # p
      BY <3>1, <1>3, <1>4 DEF IInv, OnePlace
    <3>2. CASE m \in out
      BY <3>2, <1>3, <1>5, <1>8
    <3> QED
      BY <3>1, <3>2
  <2>2. \A m1, m2 \in net' : m1.to = m2.to => m1 = m2
    BY <1>1, <1>8 DEF IInv, OnePlace
  <2>3. \A q \in lost' : handled'[q] = 0
    BY <1>0, <1>3 DEF IInv, OnePlace
  <2> QED
    BY <2>1, <2>2, <2>3 DEF OnePlace
<1>13. SentIffForwarded'
  <2> SUFFICES ASSUME NEW q \in Pos
               PROVE  SentTo(q)' <=> \E f \in Pos : handled'[f] # 0 /\ Child(f, q)
    BY <1>2 DEF SentIffForwarded, Pos
  <2>1. SentTo(q) <=> \E f \in Pos : handled[f] # 0 /\ Child(f, q)
    BY DEF IInv, SentIffForwarded
  <2>2. SentTo(q)' <=> SentTo(q) \/ Child(p, q)
    <3>1. ASSUME SentTo(q) PROVE SentTo(q)'
      <4>1. CASE q # start /\ handled[q] # 0
        BY <4>1, <1>3 DEF SentTo
      <4>2. CASE q \in lost
        BY <4>2 DEF SentTo
      <4>3. CASE \E m \in net : m.to = q
        <5>1. PICK m \in net : m.to = q
          BY <4>3
        <5>2. CASE m.to = p
          <6>1. q = p
            BY <5>1, <5>2
          <6>2. q # start
            <7>1. PICK f \in Pos : Child(f, q)
              BY <2>1, <3>1
            <7> QED
              BY <7>1, <1>0, RootHasNoParent
          <6> QED
            BY <6>1, <6>2, <1>3 DEF SentTo
        <5>3. CASE m.to # p
          BY <5>1, <5>3 DEF SentTo
        <5> QED
          BY <5>2, <5>3
      <4> QED
        BY <3>1, <4>1, <4>2, <4>3 DEF SentTo
    <3>2. ASSUME Child(p, q) PROVE SentTo(q)'
      BY <3>2, <1>1 DEF SentTo
    <3>3. ASSUME SentTo(q)' PROVE SentTo(q) \/ Child(p, q)
      <4>1. CASE q # start /\ handled'[q] # 0
        BY <4>1, <1>3 DEF SentTo
      <4>2. CASE q \in lost
        BY <4>2 DEF SentTo
      <4>3. CASE \E m \in net' : m.to = q
        BY <4>3, <1>1 DEF SentTo
      <4> QED
        BY <3>3, <4>1, <4>2, <4>3 DEF SentTo
    <3> QED
      BY <3>1, <3>2, <3>3
  <2>3. (\E f \in Pos : handled'[f] # 0 /\ Child(f, q))
          <=> (\E f \in Pos : handled[f] # 0 /\ Child(f, q)) \/ Child(p, q)
    BY <1>0, <1>3
  <2> QED
    BY <2>1, <2>2, <2>3
<1> QED
  BY <1>9, <1>10, <1>11, <1>12, <1>13 DEF IInv

\* A starter that has not handled its own broadcast has not been sent it either.
LEMMA StartIsFresh ==
  ASSUME IInv, Start
  PROVE  /\ start \in Pos /\ start \notin lost
         /\ \A m \in net : m.to # start
<1>1. start \in Pos
  BY DEF IInv, TypeOK
<1>2. ~ SentTo(start)
  BY <1>1, RootHasNoParent DEF IInv, SentIffForwarded
<1> QED
  BY <1>1, <1>2 DEF SentTo

\* Before the starter runs the handler, nothing is on the wire.
LEMMA NothingBeforeStart ==
  ASSUME IInv, handled[start] = 0
  PROVE  /\ \A p \in Pos : handled[p] = 0
         /\ net = {}
<1>0. /\ start \in Pos /\ net \subseteq Message /\ handled \in [Pos -> Nat]
  BY DEF IInv, TypeOK
<1> DEFINE Busy == {o \in Pos : handled[Abs(o)] # 0}
<1>1. ASSUME Busy # {} PROVE FALSE
  <2>1. Busy \subseteq Nat
    BY NAssumption DEF Pos
  <2>2. PICK o \in Busy : \A y \in Busy : o <= y
    BY <1>1, <2>1, LeastNat
  <2> DEFINE p == Abs(o)
  <2>3. p \in Pos /\ Rel(p) = o /\ handled[p] # 0 /\ p # start
    BY <1>0, <2>2, RelAbs
  <2>4. PICK g \in Pos : Child(g, p) /\ Rel(g) < Rel(p)
    BY <1>0, <2>3, ParentExists
  <2>5. PICK f \in Pos : handled[f] # 0 /\ Child(f, p)
    BY <2>3 DEF IInv, SentIffForwarded, SentTo
  <2>6. f = g
    BY <1>0, <2>3, <2>4, <2>5, UniqueParent
  <2>7. Rel(f) \in Pos /\ Abs(Rel(f)) = f
    BY <1>0, RelAbs
  <2>8. Rel(f) \in Busy
    BY <2>5, <2>7
  <2>9. o <= Rel(f) /\ Rel(f) < o
    BY <2>2, <2>3, <2>4, <2>6, <2>8
  <2> QED
    BY <2>1, <2>2, <2>8, <2>9
<1>2. \A p \in Pos : handled[p] = 0
  <2> TAKE p \in Pos
  <2>1. Rel(p) \in Pos /\ Abs(Rel(p)) = p
    BY <1>0, RelAbs
  <2> QED
    BY <1>1, <2>1
<1>3. net = {}
  <2>1. ASSUME NEW m \in net PROVE FALSE
    <3>1. m.to \in Pos /\ SentTo(m.to)
      BY <1>0, <2>1 DEF Message, SentTo
    <3> QED
      BY <3>1, <1>2 DEF IInv, SentIffForwarded
  <2> QED
    BY <2>1
<1> QED
  BY <1>2, <1>3

\* Every step keeps the invariant: Start and Receive are each a first handling
\* of one node, Lose only moves a message.
LEMMA NextIInv == IInv /\ [Next]_vars => IInv'
<1> SUFFICES ASSUME IInv, [Next]_vars PROVE IInv'
  OBVIOUS
<1>0. /\ start \in Pos /\ net \subseteq Message /\ handled \in [Pos -> Nat]
      /\ lost \subseteq Pos
  BY DEF IInv, TypeOK
<1>1. CASE Start
  <2>1. net = {} /\ handled[start] = 0
    BY <1>1, NothingBeforeStart DEF Start
  <2>2. Rel(start) = 0
    BY <1>0, RelAbs
  <2>3. net' = {m \in net : m.to # start} \cup SendWithinRing(start, Rel(start))
    BY <1>1, <2>1, <2>2 DEF Start
  <2>4. /\ start' = start /\ lost' = lost
        /\ handled' = [handled EXCEPT ![start] = @ + 1]
    BY <1>1 DEF Start
  <2>5. start \notin lost /\ \A m \in net : m.to # start
    BY <1>1, StartIsFresh
  <2> QED
    BY <1>0, <2>1, <2>3, <2>4, <2>5, HandleKeepsIInv
<1>2. CASE ReceiveAny
  <2>1. PICK m \in net : Receive(m)
    BY <1>2 DEF ReceiveAny
  <2>2. /\ m.to \in Pos /\ m.order \in Pos /\ m.to = Abs(m.order)
        /\ handled[m.to] = 0 /\ m.to \notin lost
        /\ \A n \in net : n.to = m.to => n = m
    BY <1>0, NAssumption DEF IInv, OrderMatchesPosition, OnePlace, Message, Pos
  <2>3. Rel(m.to) = m.order
    BY <1>0, <2>2, RelAbs
  <2>4. net' = {n \in net : n.to # m.to} \cup SendWithinRing(m.to, Rel(m.to))
    BY <2>1, <2>2, <2>3 DEF Receive
  <2>5. /\ start' = start /\ lost' = lost
        /\ handled' = [handled EXCEPT ![m.to] = @ + 1]
    BY <2>1 DEF Receive
  <2> QED
    BY <2>2, <2>4, <2>5, HandleKeepsIInv
<1>3. ASSUME NEW m \in net, Lose(m) PROVE IInv'
  <2>0. /\ start' = start /\ handled' = handled
        /\ net' = net \ {m} /\ lost' = lost \cup {m.to}
    BY <1>3 DEF Lose
  <2>1. /\ \A f, q : Child(f, q)' <=> Child(f, q)
        /\ \A o : Abs(o)' = Abs(o)
    BY <2>0, TreeFixed
  <2>2. TypeOK'
    BY <1>0, <2>0 DEF TypeOK, Message
  <2>3. AtMostOnce' /\ OrderMatchesPosition'
    BY <2>0, <2>1 DEF AtMostOnce, OrderMatchesPosition, IInv
  <2>4. OnePlace'
    BY <2>0 DEF OnePlace, IInv
  <2>5. \A q \in Pos : SentTo(q)' <=> SentTo(q)
    BY <2>0 DEF SentTo
  <2>6. SentIffForwarded'
    BY <2>0, <2>1, <2>5 DEF SentIffForwarded, IInv
  <2> QED
    BY <2>2, <2>3, <2>4, <2>6 DEF IInv
<1>4. CASE UNCHANGED vars
  <2>0. start' = start /\ handled' = handled /\ net' = net /\ lost' = lost
    BY <1>4 DEF vars
  <2>1. /\ \A f, q : Child(f, q)' <=> Child(f, q)
        /\ \A o : Abs(o)' = Abs(o)
    BY <2>0, TreeFixed
  <2>2. TypeOK' /\ AtMostOnce' /\ OrderMatchesPosition' /\ OnePlace'
    BY <2>0, <2>1 DEF TypeOK, AtMostOnce, OrderMatchesPosition, OnePlace, IInv
  <2>3. SentIffForwarded'
    BY <2>0, <2>1 DEF SentIffForwarded, SentTo, IInv
  <2> QED
    BY <2>2, <2>3 DEF IInv
<1> QED
  BY <1>1, <1>2, <1>3, <1>4 DEF Next

\* The bookkeeping invariant holds in every reachable state, for every ring
\* size, starter, order of arrival and pattern of losses.
THEOREM RingInvariant == Spec => []IInv
<1>1. Init => IInv
  BY InitIInv
<1>2. IInv /\ [Next]_vars => IInv'
  BY NextIInv
<1> QED
  BY <1>1, <1>2, PTL DEF Spec

\* broadcast_within_ring never reaches a node of the ring twice.
THEOREM RingAtMostOnce == Spec => []AtMostOnce
<1>1. IInv => AtMostOnce
  BY DEF IInv
<1> QED
  BY <1>1, RingInvariant, PTL

\* Each relay's own arithmetic keeps order and position in step.
THEOREM RingOrders == Spec => []OrderMatchesPosition
<1>1. IInv => OrderMatchesPosition
  BY DEF IInv
<1> QED
  BY <1>1, RingInvariant, PTL

\* If no datagram was dropped then, once the wire is empty, every node of the
\* ring has run the handler.
THEOREM RingCoverage == Spec => []Coverage
<1>1. ASSUME IInv PROVE Coverage
  <2> SUFFICES ASSUME handled[start] # 0, net = {}, lost = {}
               PROVE  \A p \in Pos : handled[p] # 0
    BY DEF Coverage, Quiescent
  <2>0. start \in Pos
    BY <1>1 DEF IInv, TypeOK
  <2> DEFINE Missed == {o \in Pos : handled[Abs(o)] = 0}
  <2>1. ASSUME Missed # {} PROVE FALSE
    <3>1. Missed \subseteq Nat
      BY NAssumption DEF Pos
    <3>2. PICK o \in Missed : \A y \in Missed : o <= y
      BY <2>1, <3>1, LeastNat
    <3> DEFINE p == Abs(o)
    <3>3. p \in Pos /\ Rel(p) = o /\ handled[p] = 0 /\ p # start
      BY <2>0, <3>2, RelAbs
    <3>4. PICK f \in Pos : Child(f, p) /\ Rel(f) < Rel(p)
      BY <2>0, <3>3, ParentExists
    <3>5. Rel(f) \in Pos /\ Abs(Rel(f)) = f
      BY <2>0, RelAbs
    <3>6. Rel(f) \notin Missed
      BY <3>1, <3>2, <3>3, <3>4, <3>5, NAssumption DEF Pos
    <3>7. handled[f] # 0
      BY <3>5, <3>6
    <3>8. SentTo(p)
      BY <1>1, <3>3, <3>4, <3>7 DEF IInv, SentIffForwarded
    <3> QED
      BY <3>3, <3>8 DEF SentTo
  <2> TAKE p \in Pos
  <2>2. Rel(p) \in Pos /\ Abs(Rel(p)) = p
    BY <2>0, RelAbs
  <2> QED
    BY <2>1, <2>2
<1> QED
  BY <1>1, RingInvariant, PTL

\* Once the wire is empty, the nodes that were missed are those with a dropped
\* message on their path from the starter, and no others.
THEOREM RingLossIsolation == Spec => []LossIsolation
<1>1. ASSUME IInv PROVE LossIsolation
  <2> SUFFICES ASSUME handled[start] # 0, net = {}
               PROVE  \A p \in Pos : handled[p] = 0 <=> CutOff(p)
    BY DEF LossIsolation, Quiescent
  <2>0. start \in Pos
    BY <1>1 DEF IInv, TypeOK
  <2> DEFINE Agrees(p) == handled[p] = 0 <=> CutOff(p)
             Wrong == {o \in Pos : ~ Agrees(Abs(o))}
  <2>1. ASSUME Wrong # {} PROVE FALSE
    <3>1. Wrong \subseteq Nat
      BY NAssumption DEF Pos
    <3>2. PICK o \in Wrong : \A y \in Wrong : o <= y
      BY <2>1, <3>1, LeastNat
    <3> DEFINE p == Abs(o)
    <3>3. p \in Pos /\ Rel(p) = o /\ ~ Agrees(p)
      BY <2>0, <3>2, RelAbs
    <3>4. p # start
      <4>1. start \notin lost
        BY <1>1 DEF IInv, OnePlace
      <4> QED
        BY <2>0, <3>3, <4>1, StartCutOff
    <3>5. PICK f \in Pos : Child(f, p) /\ Rel(f) < Rel(p)
      BY <2>0, <3>3, <3>4, ParentExists
    <3>6. Agrees(f)
      <4>1. Rel(f) \in Pos /\ Abs(Rel(f)) = f
        BY <2>0, RelAbs
      <4>2. Rel(f) \notin Wrong
        BY <3>1, <3>2, <3>3, <3>5, <4>1, NAssumption DEF Pos
      <4> QED
        BY <4>1, <4>2
    <3>7. SentTo(p) <=> handled[f] # 0
      <4>1. SentTo(p) <=> \E g \in Pos : handled[g] # 0 /\ Child(g, p)
        BY <1>1, <3>3 DEF IInv, SentIffForwarded
      <4>2. \A g \in Pos : Child(g, p) => g = f
        BY <2>0, <3>3, <3>5, UniqueParent
      <4> QED
        BY <3>5, <4>1, <4>2
    <3>8. SentTo(p) <=> handled[p] # 0 \/ p \in lost
      BY <3>4 DEF SentTo
    <3>9. p \in lost => handled[p] = 0
      BY <1>1 DEF IInv, OnePlace
    <3>10. CutOff(p) <=> p \in lost \/ CutOff(f)
      BY <2>0, <3>3, <3>5, ChildCutOff
    <3> QED
      BY <3>3, <3>6, <3>7, <3>8, <3>9, <3>10
  <2> TAKE p \in Pos
  <2>2. Rel(p) \in Pos /\ Abs(Rel(p)) = p
    BY <2>0, RelAbs
  <2> QED
    BY <2>1, <2>2
<1> QED
  BY <1>1, RingInvariant, PTL

\* Every behaviour of the ring broadcast is one of at-most-once delivery.
THEOREM RingImplementsOnce == Spec => ImplementsOnce
<1>1. Init => Once!Init
  BY DEF Init, Once!Init
<1>2. ASSUME IInv, [Next]_vars PROVE [Once!Next]_handled
  <2>0. handled \in [Pos -> Nat] /\ start \in Pos /\ net \subseteq Message
    BY <1>2 DEF IInv, TypeOK
  <2>1. CASE Start
    <3>1. Once!Deliver(start)
      BY <2>0, <2>1 DEF Start, Once!Deliver
    <3> QED
      BY <2>0, <3>1 DEF Once!Next
  <2>2. CASE ReceiveAny
    <3>1. PICK m \in net : Receive(m)
      BY <2>2 DEF ReceiveAny
    <3>2. m.to \in Pos /\ handled[m.to] = 0
      BY <1>2, <2>0 DEF IInv, OnePlace, Message
    <3>3. Once!Deliver(m.to)
      BY <2>0, <3>1, <3>2 DEF Receive, Once!Deliver
    <3> QED
      BY <3>2, <3>3 DEF Once!Next
  <2>3. CASE \E m \in net : Lose(m)
    BY <2>3 DEF Lose
  <2>4. CASE UNCHANGED vars
    BY <2>4 DEF vars
  <2> QED
    BY <1>2, <2>1, <2>2, <2>3, <2>4 DEF Next
<1> QED
  BY <1>1, <1>2, RingInvariant, PTL DEF Spec, ImplementsOnce, Once!Spec
-----------------------------------------------------------------------------
(* The tables of a deployment fit together.                                *)

Id == [Levels -> Nat]

-----------------------------------------------------------------------------
(* The functions that are defined by recursion over the levels.            *)

LEMMA LevelCases ==
  /\ Levels = {0, 1, 2, 3, 4, 5}
  /\ \A l \in Levels : l # 0 => l - 1 \in Levels /\ l \in 1 .. 5
  /\ 1 - 1 = 0 /\ 2 - 1 = 1 /\ 3 - 1 = 2 /\ 4 - 1 = 3 /\ 5 - 1 = 4
  BY DEF Levels

\* Such a function exists, and satisfies its definition.
LEMMA WeightsAre ==
  ASSUME NEW radix
  PROVE  /\ Weights(radix)[0] = 1
         /\ \A l \in 1 .. 5 : Weights(radix)[l] = Weights(radix)[l - 1] * radix[l - 1]
<1> DEFINE w0 == 1
           w1 == w0 * radix[0]
           w2 == w1 * radix[1]
           w3 == w2 * radix[2]
           w4 == w3 * radix[3]
           w5 == w4 * radix[4]
           f == [l \in Levels |-> IF l = 0 THEN w0 ELSE IF l = 1 THEN w1 ELSE IF l = 2 THEN w2
                                  ELSE IF l = 3 THEN w3 ELSE IF l = 4 THEN w4 ELSE w5]
           Is(g) == g = [l \in Levels |-> IF l = 0 THEN 1 ELSE g[l - 1] * radix[l - 1]]
<1> HIDE DEF w0, w1, w2, w3, w4, w5
<1>1. /\ f[0] = w0 /\ f[1] = w1 /\ f[2] = w2 /\ f[3] = w3 /\ f[4] = w4 /\ f[5] = w5
  BY DEF Levels
<1>2. ASSUME NEW l \in Levels PROVE f[l] = IF l = 0 THEN 1 ELSE f[l - 1] * radix[l - 1]
  <2> HIDE DEF f
  <2>1. l = 0 => f[l] = 1
    BY <1>1 DEF w0
  <2>2. l = 1 => f[l] = f[l - 1] * radix[l - 1]
    BY <1>1, LevelCases DEF w1
  <2>3. l = 2 => f[l] = f[l - 1] * radix[l - 1]
    BY <1>1, LevelCases DEF w2
  <2>4. l = 3 => f[l] = f[l - 1] * radix[l - 1]
    BY <1>1, LevelCases DEF w3
  <2>5. l = 4 => f[l] = f[l - 1] * radix[l - 1]
    BY <1>1, LevelCases DEF w4
  <2>6. l = 5 => f[l] = f[l - 1] * radix[l - 1]
    BY <1>1, LevelCases DEF w5
  <2>. QED
    BY <2>1, <2>2, <2>3, <2>4, <2>5, <2>6, LevelCases
<1>3. Is(f)
  <2>1. f = [l \in Levels |-> f[l]]
    OBVIOUS
  <2> HIDE DEF f
  <2>. QED
    BY <1>2, <2>1
<1> HIDE DEF f
<1>4. Is(CHOOSE g : Is(g))
  BY <1>3
<1>5. Is(Weights(radix))
  BY <1>4 DEF Weights
<1>. QED
  BY <1>5 DEF Levels
LEMMA BuiltIs ==
  ASSUME NEW p, NEW self
  PROVE  /\ Built(p, self)[0] = DistrictRing(p, self)
         /\ \A l \in 1 .. 5 : Built(p, self)[l] = RingAbove(p, self, l, Built(p, self)[l - 1])
<1> DEFINE b0 == DistrictRing(p, self)
           b1 == RingAbove(p, self, 1, b0)
           b2 == RingAbove(p, self, 2, b1)
           b3 == RingAbove(p, self, 3, b2)
           b4 == RingAbove(p, self, 4, b3)
           b5 == RingAbove(p, self, 5, b4)
           f == [l \in Levels |-> IF l = 0 THEN b0 ELSE IF l = 1 THEN b1 ELSE IF l = 2 THEN b2
                                  ELSE IF l = 3 THEN b3 ELSE IF l = 4 THEN b4 ELSE b5]
           Is(g) == g = [l \in Levels |-> IF l = 0 THEN DistrictRing(p, self) ELSE RingAbove(p, self, l, g[l - 1])]
<1> HIDE DEF b0, b1, b2, b3, b4, b5
<1>1. /\ f[0] = b0 /\ f[1] = b1 /\ f[2] = b2 /\ f[3] = b3 /\ f[4] = b4 /\ f[5] = b5
  BY DEF Levels
<1>2. ASSUME NEW l \in Levels PROVE f[l] = IF l = 0 THEN DistrictRing(p, self) ELSE RingAbove(p, self, l, f[l - 1])
  <2> HIDE DEF f
  <2>1. l = 0 => f[l] = IF l = 0 THEN DistrictRing(p, self) ELSE RingAbove(p, self, l, f[l - 1])
    BY <1>1, LevelCases DEF b0
  <2>2. l = 1 => f[l] = IF l = 0 THEN DistrictRing(p, self) ELSE RingAbove(p, self, l, f[l - 1])
    BY <1>1, LevelCases DEF b1
  <2>3. l = 2 => f[l] = IF l = 0 THEN DistrictRing(p, self) ELSE RingAbove(p, self, l, f[l - 1])
    BY <1>1, LevelCases DEF b2
  <2>4. l = 3 => f[l] = IF l = 0 THEN DistrictRing(p, self) ELSE RingAbove(p, self, l, f[l - 1])
    BY <1>1, LevelCases DEF b3
  <2>5. l = 4 => f[l] = IF l = 0 THEN DistrictRing(p, self) ELSE RingAbove(p, self, l, f[l - 1])
    BY <1>1, LevelCases DEF b4
  <2>6. l = 5 => f[l] = IF l = 0 THEN DistrictRing(p, self) ELSE RingAbove(p, self, l, f[l - 1])
    BY <1>1, LevelCases DEF b5
  <2>. QED
    BY <2>1, <2>2, <2>3, <2>4, <2>5, <2>6, LevelCases
<1>3. Is(f)
  <2>1. f = [l \in Levels |-> f[l]]
    OBVIOUS
  <2> HIDE DEF f
  <2>. QED
    BY <1>2, <2>1
<1> HIDE DEF f
<1>4. Is(CHOOSE g : Is(g))
  BY <1>3
<1>5. Is(Built(p, self))
  BY <1>4 DEF Built
<1>. QED
  BY <1>5 DEF Levels

-----------------------------------------------------------------------------
(* The lists of peers and of contact nodes.                                *)

LEMMA Quotients ==
  ASSUME NEW a \in Nat, NEW b \in Nat \ {0}
  PROVE  a \div b \in Nat /\ a % b \in 0 .. b - 1
  OBVIOUS

LEMMA LevelNumbers ==
  ASSUME NEW p \in Params, NEW l \in Levels
  PROVE  /\ Regions(p)[l + 1] \in Nat /\ NumContacts(p)[l + 1] \in Nat \ {0}
         /\ l = 0 => Regions(p)[l + 1] > 0
<1>1. /\ p.num_nodes_in_dist \in Nat \ {0} /\ p.num_cnodes_in_dist \in Nat \ {0}
      /\ p.num_nodes_in_city \in Nat /\ p.num_cnodes_in_city \in Nat \ {0}
      /\ p.num_nodes_in_state \in Nat /\ p.num_cnodes_in_state \in Nat \ {0}
      /\ p.num_nodes_in_country \in Nat /\ p.num_cnodes_in_country \in Nat \ {0}
      /\ p.num_nodes_in_continent \in Nat /\ p.num_cnodes_in_continent \in Nat \ {0}
      /\ p.num_continents \in Nat \ {0}
  BY DEF Params
<1>2. l \in {0, 1, 2, 3, 4, 5}
  BY LevelCases
<1>3. /\ p.num_nodes_in_city \div p.num_cnodes_in_dist \in Nat
      /\ p.num_nodes_in_state \div p.num_cnodes_in_city \in Nat
      /\ p.num_nodes_in_country \div p.num_cnodes_in_state \in Nat
      /\ p.num_nodes_in_continent \div p.num_cnodes_in_country \in Nat
  BY <1>1, Quotients
<1>4. NumContacts(p)[l + 1] \in Nat \ {0}
  BY <1>1, <1>2 DEF NumContacts
<1>5. Regions(p)[l + 1] \in Nat /\ (l = 0 => Regions(p)[l + 1] > 0)
  BY <1>1, <1>2, <1>3 DEF Regions
<1>. QED
  BY <1>4, <1>5

LEMMA MinTwo ==
  ASSUME NEW a \in Nat, NEW b \in Nat
  PROVE  Min({a, b}) = IF a <= b THEN a ELSE b
<1> DEFINE x == IF a <= b THEN a ELSE b
<1>1. x \in {a, b} /\ \A y \in {a, b} : x <= y
  OBVIOUS
<1>2. \A z \in {a, b} : (\A y \in {a, b} : z <= y) => z = x
  OBVIOUS
<1>. QED
  BY <1>1, <1>2 DEF Min

\* The contact nodes are the first peers; there is one if there is a peer.
LEMMA ContactsAre ==
  ASSUME NEW p \in Params, NEW l \in Levels, NEW peers \in Seq(Id)
  PROVE  \E w \in Nat :
           /\ w = IF NumContacts(p)[l + 1] <= Len(peers) THEN NumContacts(p)[l + 1] ELSE Len(peers)
           /\ Len(peers) > 0 => w > 0
           /\ w <= Len(peers) /\ w <= NumContacts(p)[l + 1]
           /\ ContactNodes(p, l, peers) \in Seq(Id) /\ Len(ContactNodes(p, l, peers)) = w
           /\ \A i \in 1 .. w : ContactNodes(p, l, peers)[i] = peers[i]
<1>1. PICK c \in Nat \ {0} : c = NumContacts(p)[l + 1]
  BY LevelNumbers
<1>2. PICK n \in Nat : n = Len(peers)
  OBVIOUS
<1>3. PICK w \in Nat : w = Min({c, n})
  BY MinTwo
<1>4. w = (IF c <= n THEN c ELSE n) /\ w <= n /\ w <= c /\ (n > 0 => w > 0)
  BY <1>3, MinTwo
<1>5. ContactNodes(p, l, peers) = SubSeq(peers, 1, w)
  BY <1>1, <1>2, <1>3 DEF ContactNodes
<1>6. /\ SubSeq(peers, 1, w) \in Seq(Id) /\ Len(SubSeq(peers, 1, w)) = w
      /\ \A i \in 1 .. w : SubSeq(peers, 1, w)[i] = peers[i]
  BY <1>2, <1>4
<1>. QED
  BY <1>1, <1>2, <1>4, <1>5, <1>6

\* The place of the contact node that peer k of a ring is taken from.
Source(k, w) == ((k - 1) % w) + 1

\* A list of n peers that was formed from w contact nodes.
Formed(peers, n, w, l, self, contacts) ==
  /\ peers \in Seq(Id) /\ Len(peers) = n
  /\ \A k \in 1 .. n :
       /\ w > 0 /\ Source(k, w) \in 1 .. w
       /\ \A f \in Levels : peers[k][f] =
            IF f > l THEN self[f]
            ELSE IF f = l THEN (k - 1) \div w ELSE contacts[Source(k, w)][f]

LEMMA PeersAre ==
  ASSUME NEW p \in Params, NEW l \in Levels, NEW self \in Id, NEW contacts \in Seq(Id)
  PROVE  Formed(PeerList(p, self, l, contacts), Regions(p)[l + 1] * Len(contacts), Len(contacts),
                l, self, contacts)
<1>1. PICK w \in Nat : w = Len(contacts)
  OBVIOUS
<1>2. PICK r \in Nat : r = Regions(p)[l + 1]
  BY LevelNumbers
<1>3. PICK n \in Nat : n = r * w
  OBVIOUS
<1>4. PICK peers : peers = PeerList(p, self, l, contacts)
  OBVIOUS
<1> DEFINE entry(k) == [f \in Levels |-> IF f > l THEN self[f]
                                         ELSE IF f = l THEN (k - 1) \div w ELSE contacts[Source(k, w)][f]]
<1>5. peers = [k \in 1 .. n |-> entry(k)]
  BY <1>1, <1>2, <1>3, <1>4 DEF PeerList, Source
<1>6. ASSUME NEW k \in 1 .. n PROVE w > 0 /\ Source(k, w) \in 1 .. w /\ entry(k) \in Id
  <2>1. w \in Nat \ {0}
    BY <1>3
  <2>2. PICK j \in Nat : j = k - 1
    OBVIOUS
  <2>3. (k - 1) \div w \in Nat /\ (k - 1) % w \in 0 .. w - 1
    <3>1. j \div w \in Nat /\ j % w \in 0 .. w - 1
      BY ONLY <2>1, j \in Nat, Quotients
    <3>. QED
      BY <2>2, <3>1
  <2>4. Source(k, w) \in 1 .. w
    BY <2>1, <2>3 DEF Source
  <2>5. \A f \in Levels : self[f] \in Nat /\ contacts[Source(k, w)][f] \in Nat
    BY <1>1, <2>4 DEF Id
  <2>. QED
    BY <2>1, <2>3, <2>4, <2>5 DEF Id
<1>7. peers \in Seq(Id) /\ Len(peers) = n
  <2> HIDE DEF entry
  <2>. QED
    BY <1>5, <1>6
<1>8. \A k \in 1 .. n : peers[k] = entry(k)
  BY <1>5
<1>. QED
  <2>1. \A k \in 1 .. n : \A f \in Levels : entry(k)[f] =
           IF f > l THEN self[f] ELSE IF f = l THEN (k - 1) \div w ELSE contacts[Source(k, w)][f]
    OBVIOUS
  <2> HIDE DEF entry
  <2>2. Formed(peers, n, w, l, self, contacts)
    BY <1>6, <1>7, <1>8, <2>1 DEF Formed
  <2>. QED
    BY <1>1, <1>2, <1>3, <1>4, <2>2

\* A command line for which the contact nodes of a ring are read in an order
\* that does not depend on who they are.
Setting(p) ==
  /\ p \in Params
  /\ \E place : \A l \in 1 .. 5, s \in Seq(Id) :
       Len(s) <= NumContacts(p)[l + 1] => Rearranged(s, place[Len(s)])

LEMMA OrderIs ==
  ASSUME NEW p, Setting(p), NEW l \in 1 .. 5, NEW s \in Seq(Id), Len(s) <= NumContacts(p)[l + 1]
  PROVE  /\ IterOrder(s) \in Seq(Id) /\ Len(IterOrder(s)) = Len(s)
         /\ ToSet(IterOrder(s)) = ToSet(s)
<1>1. PICK at : Rearranged(s, at)
  BY DEF Setting
<1>2. DOMAIN s = 1 .. Len(s) /\ Len(s) \in Nat
  OBVIOUS
<1>3. PICK t : t = [i \in DOMAIN s |-> s[at[i]]]
  OBVIOUS
<1>4. IterOrder(s) = t
  BY <1>1, <1>3 DEF Rearranged
<1>5. \A i \in DOMAIN s : at[i] \in DOMAIN s /\ t[i] = s[at[i]] /\ s[at[i]] \in Id
  <2>1. \A i \in DOMAIN s : at[i] \in DOMAIN s /\ t[i] = s[at[i]]
    BY <1>1, <1>3 DEF Rearranged
  <2>2. \A i \in DOMAIN s : s[i] \in Id
    OBVIOUS
  <2>. QED
    BY <2>1, <2>2
<1>6. t \in Seq(Id) /\ Len(t) = Len(s) /\ DOMAIN t = DOMAIN s
  BY <1>2, <1>3, <1>5
<1>7. ToSet(t) = ToSet(s)
  <2>1. \A i \in DOMAIN s : \E j \in DOMAIN s : t[i] = s[j]
    BY <1>5
  <2>2. \A j \in DOMAIN s : \E i \in DOMAIN s : s[j] = t[i]
    <3>1. ASSUME NEW j \in DOMAIN s PROVE \E i \in DOMAIN s : s[j] = t[i]
      <4>1. PICK i \in DOMAIN s : at[i] = j
        BY <1>1 DEF Rearranged
      <4>. QED
        BY <1>5, <4>1
    <3>. QED
      BY <3>1
  <2>3. ToSet(t) = {t[i] : i \in DOMAIN s} /\ ToSet(s) = {s[i] : i \in DOMAIN s}
    BY <1>6 DEF ToSet
  <2>. QED
    BY ONLY <2>1, <2>2, <2>3
<1>. QED
  BY <1>4, <1>6, <1>7

\* Two lists of one length are reordered in the same way.
LEMMA OrderAlike ==
  ASSUME NEW p, Setting(p), NEW l \in 1 .. 5, NEW s \in Seq(Id), NEW t \in Seq(Id),
         Len(s) = Len(t), Len(s) <= NumContacts(p)[l + 1], NEW i \in 1 .. Len(s)
  PROVE  \E k \in 1 .. Len(s) : IterOrder(s)[i] = s[k] /\ IterOrder(t)[i] = t[k]
<1>1. PICK at : Rearranged(s, at) /\ Rearranged(t, at)
  BY DEF Setting
<1>2. DOMAIN s = 1 .. Len(s) /\ DOMAIN t = DOMAIN s
  OBVIOUS
<1>3. PICK k : k = at[i]
  OBVIOUS
<1>4. k \in DOMAIN s /\ IterOrder(s)[i] = s[k] /\ IterOrder(t)[i] = t[k]
  BY <1>1, <1>2, <1>3 DEF Rearranged
<1>. QED
  BY <1>2, <1>4

-----------------------------------------------------------------------------
(* The construction.                                                       *)

Contacts(p, n, l) == Built(p, n)[l].contacts

Peers(p, n, l) == PeerList(p, n, l, IF l = 0 THEN <<n>> ELSE Contacts(p, n, l - 1))

\* The construction has not ended below level l.
Stands(p, n, l) == Len(Built(p, n)[l].tables) = l + 1

RingSet(p, n) == {Ring(p, n, l, peers) : l \in Levels, peers \in Seq(Id)}

\* What holds of b, the construction after level l.
BuiltOK(p, n, l, b) ==
  /\ b \in [tables : Seq(RingSet(p, n)), contacts : Seq(Id), returned : BOOLEAN]
  /\ Len(b.tables) \in 1 .. l + 1
  /\ Len(b.tables) = l + 1 => ~ b.returned
  /\ Len(b.tables) <= l => b.returned \/ n \notin ToSet(b.contacts)
  /\ \A j \in 0 .. l : /\ Stands(p, n, j) <=> j + 1 <= Len(b.tables)
                       /\ j + 1 <= Len(b.tables) => b.tables[j + 1] = Ring(p, n, j, Peers(p, n, j))

\* The contact nodes of a ring are taken from its list of peers.
LEMMA RingContacts ==
  ASSUME NEW p, Setting(p), NEW l \in 1 .. 5, NEW peers \in Seq(Id)
  PROVE  IterOrder(ContactNodes(p, l, peers)) \in Seq(Id)
<1>1. PICK s : s = ContactNodes(p, l, peers)
  OBVIOUS
<1>2. PICK c \in Nat : c = NumContacts(p)[l + 1]
  <2>1. l \in Levels /\ p \in Params
    BY DEF Setting, Levels
  <2>2. NumContacts(p)[l + 1] \in Nat
    BY <2>1, LevelNumbers
  <2>. QED
    BY <2>2
<1>3. s \in Seq(Id) /\ Len(s) <= c
  <2>1. l \in Levels /\ p \in Params
    BY DEF Setting, Levels
  <2>2. PICK w \in Nat : w <= c /\ s \in Seq(Id) /\ Len(s) = w
    BY <1>1, <1>2, <2>1, ContactsAre
  <2>. QED
    BY <2>2
<1>. QED
  BY <1>1, <1>2, <1>3, OrderIs

LEMMA DistrictOK ==
  ASSUME NEW p, Setting(p), NEW n \in Id
  PROVE  /\ BuiltOK(p, n, 0, Built(p, n)[0]) /\ Stands(p, n, 0)
         /\ Contacts(p, n, 0) = ContactNodes(p, 0, Peers(p, n, 0)) /\ Peers(p, n, 0) \in Seq(Id)
<1>1. PICK q : q = Peers(p, n, 0)
  OBVIOUS
<1>2. q = PeerList(p, n, 0, <<n>>)
  BY <1>1 DEF Peers
<1>3. q \in Seq(Id) /\ ContactNodes(p, 0, q) \in Seq(Id)
  <2>1. <<n>> \in Seq(Id)
    OBVIOUS
  <2>2. 0 \in Levels /\ p \in Params
    BY DEF Levels, Setting
  <2>3. q \in Seq(Id)
    BY <1>2, <2>1, <2>2, PeersAre DEF Formed
  <2>. QED
    BY <2>2, <2>3, ContactsAre
<1>4. PICK r : r = Ring(p, n, 0, q)
  OBVIOUS
<1>5. r \in RingSet(p, n)
  BY <1>3, <1>4 DEF RingSet, Levels
<1>6. PICK b : b = Built(p, n)[0]
  OBVIOUS
<1>7. b = [tables |-> <<r>>, contacts |-> ContactNodes(p, 0, q), returned |-> FALSE]
  BY <1>2, <1>4, <1>6, BuiltIs DEF DistrictRing
<1>8. <<r>> \in Seq(RingSet(p, n)) /\ Len(<<r>>) = 1 /\ <<r>>[1] = r
  BY <1>5
<1>9. Stands(p, n, 0)
  BY <1>6, <1>7, <1>8 DEF Stands
<1>10. BuiltOK(p, n, 0, b)
  BY <1>1, <1>3, <1>4, <1>7, <1>8, <1>9 DEF BuiltOK
<1>. QED
  BY <1>1, <1>3, <1>6, <1>7, <1>9, <1>10 DEF Contacts

\* The construction goes on from level l - 1 to level l.
Up(p, n, l) == (l = 5 \/ Wanted(p)[l] # 0) /\ n \in ToSet(Contacts(p, n, l - 1))

\* What the next pass makes of the construction.
LEMMA RingAboveOK ==
  ASSUME NEW p, Setting(p), NEW n \in Id, NEW l \in 1 .. 5,
         BuiltOK(p, n, l - 1, Built(p, n)[l - 1])
  PROVE  /\ BuiltOK(p, n, l, Built(p, n)[l])
         /\ Stands(p, n, l) <=> (Stands(p, n, l - 1) /\ Up(p, n, l))
         /\ Stands(p, n, l) =>
              /\ Peers(p, n, l) \in Seq(Id)
              /\ Contacts(p, n, l) = IterOrder(ContactNodes(p, l, Peers(p, n, l)))
<1>1. PICK a : a = Built(p, n)[l - 1]
  OBVIOUS
<1>2. PICK b : b = Built(p, n)[l]
  OBVIOUS
<1>3. b = RingAbove(p, n, l, a)
  BY <1>1, <1>2, BuiltIs
<1>4. /\ a \in [tables : Seq(RingSet(p, n)), contacts : Seq(Id), returned : BOOLEAN]
      /\ Len(a.tables) \in 1 .. l
      /\ Len(a.tables) = l => ~ a.returned
      /\ Len(a.tables) <= l - 1 => a.returned \/ n \notin ToSet(a.contacts)
      /\ \A j \in 0 .. l - 1 :
           /\ Stands(p, n, j) <=> j + 1 <= Len(a.tables)
           /\ j + 1 <= Len(a.tables) => a.tables[j + 1] = Ring(p, n, j, Peers(p, n, j))
  BY <1>1 DEF BuiltOK
<1>5. \A j \in 0 .. l : j \in 0 .. l - 1 \/ j = l
  OBVIOUS
<1>6. Stands(p, n, l) <=> Len(b.tables) = l + 1
  BY <1>2 DEF Stands
<1>7. Stands(p, n, l - 1) <=> Len(a.tables) = l
  BY <1>1 DEF Stands
<1>8. a.contacts = Contacts(p, n, l - 1)
  BY <1>1 DEF Contacts
<1> DEFINE stop == a.returned \/ (l < 5 /\ Wanted(p)[l] = 0)
<1>9. ASSUME b.tables = a.tables, b.contacts = a.contacts, b.returned \in BOOLEAN,
             b = [tables |-> b.tables, contacts |-> b.contacts, returned |-> b.returned],
             b.returned \/ n \notin ToSet(a.contacts)
      PROVE  BuiltOK(p, n, l, b) /\ ~ Stands(p, n, l)
  <2>1. b \in [tables : Seq(RingSet(p, n)), contacts : Seq(Id), returned : BOOLEAN]
    BY <1>4, <1>9
  <2>2. Len(b.tables) \in 1 .. l /\ Len(b.tables) # l + 1
    BY <1>4, <1>9
  <2>3. ~ Stands(p, n, l)
    BY <1>6, <2>2
  <2>4. \A j \in 0 .. l : /\ Stands(p, n, j) <=> j + 1 <= Len(b.tables)
                          /\ j + 1 <= Len(b.tables) => b.tables[j + 1] = Ring(p, n, j, Peers(p, n, j))
    BY <1>4, <1>5, <1>9, <2>2, <2>3
  <2>. QED
    BY <1>9, <2>1, <2>2, <2>3, <2>4 DEF BuiltOK
<1>10. CASE stop
  <2>1. b = [a EXCEPT !.returned = TRUE]
    BY <1>3, <1>10 DEF RingAbove
  <2>2. b.tables = a.tables /\ b.contacts = a.contacts /\ b.returned = TRUE
        /\ b = [tables |-> b.tables, contacts |-> b.contacts, returned |-> b.returned]
    BY <1>4, <2>1
  <2>3. BuiltOK(p, n, l, b) /\ ~ Stands(p, n, l)
    BY <1>9, <2>2
  <2>4. ~ (Stands(p, n, l - 1) /\ Up(p, n, l))
    BY <1>4, <1>7, <1>10 DEF Up
  <2>. QED
    BY <1>2, <2>3, <2>4
<1>11. CASE ~ stop /\ n \notin ToSet(a.contacts)
  <2>1. b = a
    BY <1>3, <1>11 DEF RingAbove
  <2>2. BuiltOK(p, n, l, b) /\ ~ Stands(p, n, l)
    BY <1>4, <1>9, <1>11, <2>1
  <2>. QED
    BY <1>2, <1>8, <1>11, <2>2 DEF Up
<1>12. CASE ~ stop /\ n \in ToSet(a.contacts)
  <2>1. PICK q : q = PeerList(p, n, l, a.contacts)
    OBVIOUS
  <2>2. q = Peers(p, n, l)
    BY <1>8, <2>1 DEF Peers
  <2>3. q \in Seq(Id) /\ l \in Levels
    <3>1. p \in Params /\ l \in Levels
      BY DEF Setting, Levels
    <3>. QED
      BY <1>4, <2>1, <3>1, PeersAre DEF Formed
  <2>4. PICK c : c = IterOrder(ContactNodes(p, l, q))
    OBVIOUS
  <2>5. c \in Seq(Id)
    BY <2>3, <2>4, RingContacts
  <2>6. PICK r : r = Ring(p, n, l, q)
    OBVIOUS
  <2>7. r \in RingSet(p, n)
    BY <2>3, <2>6 DEF RingSet
  <2>8. b = [tables |-> Append(a.tables, r), contacts |-> c, returned |-> FALSE]
    BY <1>3, <1>12, <2>1, <2>4, <2>6 DEF RingAbove
  <2>9. Len(a.tables) = l
    BY <1>4, <1>12
  <2>10. /\ Append(a.tables, r) \in Seq(RingSet(p, n)) /\ Len(Append(a.tables, r)) = l + 1
         /\ Append(a.tables, r)[l + 1] = r
         /\ \A j \in 0 .. l - 1 : Append(a.tables, r)[j + 1] = a.tables[j + 1]
    BY <1>4, <2>7, <2>9
  <2>11. Stands(p, n, l)
    BY <1>6, <2>8, <2>10
  <2>12. \A j \in 0 .. l : /\ Stands(p, n, j) <=> j + 1 <= Len(b.tables)
                           /\ j + 1 <= Len(b.tables) => b.tables[j + 1] = Ring(p, n, j, Peers(p, n, j))
    <3>1. \A j \in 0 .. l - 1 : Stands(p, n, j) /\ b.tables[j + 1] = Ring(p, n, j, Peers(p, n, j))
      BY <1>4, <2>8, <2>9, <2>10
    <3>2. b.tables[l + 1] = Ring(p, n, l, Peers(p, n, l)) /\ Len(b.tables) = l + 1
      BY <2>2, <2>6, <2>8, <2>10
    <3>. QED
      BY <1>5, <2>11, <3>1, <3>2
  <2>13. b \in [tables : Seq(RingSet(p, n)), contacts : Seq(Id), returned : BOOLEAN]
    BY <2>5, <2>8, <2>10
  <2>14. BuiltOK(p, n, l, b)
    BY <2>8, <2>10, <2>12, <2>13 DEF BuiltOK
  <2>15. Stands(p, n, l - 1) /\ Up(p, n, l)
    BY <1>7, <1>8, <1>12, <2>9 DEF Up
  <2>. QED
    BY <1>2, <2>2, <2>3, <2>4, <2>8, <2>11, <2>14, <2>15 DEF Contacts
<1>. QED
  BY <1>10, <1>11, <1>12

\* A statement that goes up with the levels holds at all of them.
LEMMA Climbing ==
  ASSUME NEW S, 0 \in S, \A l \in 1 .. 5 : l - 1 \in S => l \in S
  PROVE  \A l \in Levels : l \in S
<1>1. 1 \in S
  <2>1. 1 - 1 \in S
    BY LevelCases
  <2>. QED
    BY <2>1
<1>2. 2 \in S
  <2>1. 2 - 1 \in S
    BY <1>1, LevelCases
  <2>. QED
    BY <2>1
<1>3. 3 \in S
  <2>1. 3 - 1 \in S
    BY <1>2, LevelCases
  <2>. QED
    BY <2>1
<1>4. 4 \in S
  <2>1. 4 - 1 \in S
    BY <1>3, LevelCases
  <2>. QED
    BY <2>1
<1>5. 5 \in S
  <2>1. 5 - 1 \in S
    BY <1>4, LevelCases
  <2>. QED
    BY <2>1
<1>. QED
  BY <1>1, <1>2, <1>3, <1>4, <1>5, LevelCases

LEMMA BuiltAll ==
  ASSUME NEW p, Setting(p), NEW n \in Id
  PROVE  \A l \in Levels : BuiltOK(p, n, l, Built(p, n)[l])
<1> DEFINE S == {l \in Levels : BuiltOK(p, n, l, Built(p, n)[l])}
<1>1. 0 \in S
  BY DistrictOK, LevelCases
<1>2. ASSUME NEW l \in 1 .. 5, l - 1 \in S PROVE l \in S
  <2>1. l \in Levels /\ BuiltOK(p, n, l - 1, Built(p, n)[l - 1])
    BY <1>2 DEF Levels
  <2>2. BuiltOK(p, n, l, Built(p, n)[l])
    BY <2>1, RingAboveOK
  <2>. QED
    BY <2>1, <2>2
<1> HIDE DEF S
<1>3. \A l \in Levels : l \in S
  BY <1>1, <1>2, Climbing
<1>. QED
  BY <1>3 DEF S

\* The tables of a process: a ring at every level at which it stands.
LEMMA TablesAre ==
  ASSUME NEW p, Setting(p), NEW n \in Id
  PROVE  /\ form_structure(p, n) \in Seq(RingSet(p, n)) /\ Len(form_structure(p, n)) \in 1 .. 6
         /\ \A l \in Levels :
              /\ Stands(p, n, l) <=> l + 1 <= Len(form_structure(p, n))
              /\ Stands(p, n, l) => form_structure(p, n)[l + 1] = Ring(p, n, l, Peers(p, n, l))
<1>4. PICK b : b = Built(p, n)[5]
  OBVIOUS
<1>5. BuiltOK(p, n, 5, b)
  BY <1>4, BuiltAll, LevelCases
<1>6. form_structure(p, n) = b.tables
  BY <1>4 DEF form_structure
<1>7. PICK t : t = b.tables
  OBVIOUS
<1>8. /\ t \in Seq(RingSet(p, n)) /\ Len(t) \in 1 .. 6
      /\ \A j \in 0 .. 5 : /\ Stands(p, n, j) <=> j + 1 <= Len(t)
                           /\ j + 1 <= Len(t) => t[j + 1] = Ring(p, n, j, Peers(p, n, j))
  BY <1>5, <1>7 DEF BuiltOK
<1>. QED
  BY <1>6, <1>7, <1>8 DEF Levels

\* Of a level above the lowest at which a process stands.
LEMMA StandsAbove ==
  ASSUME NEW p, Setting(p), NEW n \in Id, NEW l \in 1 .. 5
  PROVE  /\ Stands(p, n, l) <=> (Stands(p, n, l - 1) /\ Up(p, n, l))
         /\ Stands(p, n, l) =>
              /\ Peers(p, n, l) \in Seq(Id)
              /\ Contacts(p, n, l) = IterOrder(ContactNodes(p, l, Peers(p, n, l)))
<1>1. l - 1 \in Levels
  BY DEF Levels
<1>. QED
  BY <1>1, BuiltAll, RingAboveOK

\* The contact nodes of a ring, listed in some order.
LEMMA StandingRing ==
  ASSUME NEW p, Setting(p), NEW n \in Id, NEW l \in Levels, Stands(p, n, l)
  PROVE  /\ Peers(p, n, l) \in Seq(Id) /\ Contacts(p, n, l) \in Seq(Id)
         /\ ContactNodes(p, l, Peers(p, n, l)) \in Seq(Id)
         /\ Len(ContactNodes(p, l, Peers(p, n, l))) <= NumContacts(p)[l + 1]
         /\ ToSet(Contacts(p, n, l)) = ToSet(ContactNodes(p, l, Peers(p, n, l)))
         /\ Len(Contacts(p, n, l)) = Len(ContactNodes(p, l, Peers(p, n, l)))
<1>1. PICK q : q = Peers(p, n, l)
  OBVIOUS
<1>2. q \in Seq(Id)
  <2>1. CASE l = 0
    BY <1>1, <2>1, DistrictOK
  <2>2. CASE l # 0
    BY <1>1, <2>2, StandsAbove, LevelCases
  <2>. QED
    BY <2>1, <2>2
<1>3. PICK s : s = ContactNodes(p, l, q)
  OBVIOUS
<1>4. s \in Seq(Id) /\ Len(s) <= NumContacts(p)[l + 1]
  <2>1. p \in Params
    BY DEF Setting
  <2>2. PICK c \in Nat : c = NumContacts(p)[l + 1]
    <3>1. NumContacts(p)[l + 1] \in Nat
      BY <2>1, LevelNumbers
    <3>. QED
      BY <3>1
  <2>3. PICK w \in Nat : w <= c /\ s \in Seq(Id) /\ Len(s) = w
    BY <1>2, <1>3, <2>1, <2>2, ContactsAre
  <2>. QED
    BY <2>2, <2>3
<1>5. PICK t : t = Contacts(p, n, l)
  OBVIOUS
<1>6. t \in Seq(Id) /\ ToSet(t) = ToSet(s) /\ Len(t) = Len(s)
  <2>1. CASE l = 0
    <3>1. t = s
      BY <1>1, <1>3, <1>5, <2>1, DistrictOK
    <3>. QED
      BY <1>4, <3>1
  <2>2. CASE l # 0
    <3>1. l \in 1 .. 5
      BY <2>2, LevelCases
    <3>2. t = IterOrder(s)
      BY <1>1, <1>3, <1>5, <3>1, StandsAbove
    <3>. QED
      BY <1>4, <3>1, <3>2, OrderIs
  <2>. QED
    BY <2>1, <2>2
<1>. QED
  BY <1>1, <1>2, <1>3, <1>4, <1>5, <1>6

-----------------------------------------------------------------------------
(* Rings of different processes.                                           *)

\* Two lists of ids that agree in the fields up to level l; above it one has
\* the fields of m and the other one those of n.
Alike(s, t, m, n, l) ==
  /\ Len(s) = Len(t)
  /\ \A i \in 1 .. Len(s) : \A f \in Levels :
       IF f <= l THEN s[i][f] = t[i][f] ELSE s[i][f] = m[f] /\ t[i][f] = n[f]

LEMMA PeersAlike ==
  ASSUME NEW p \in Params, NEW l \in Levels, NEW m \in Id, NEW n \in Id,
         NEW c \in Seq(Id), NEW d \in Seq(Id), Alike(c, d, m, n, l - 1)
  PROVE  Alike(PeerList(p, m, l, c), PeerList(p, n, l, d), m, n, l)
<1>1. PICK w \in Nat : w = Len(c) /\ w = Len(d)
  BY DEF Alike
<1>2. PICK k \in Nat : k = Regions(p)[l + 1] * w
  BY LevelNumbers
<1>3. PICK s, t : s = PeerList(p, m, l, c) /\ t = PeerList(p, n, l, d)
  OBVIOUS
<1>4. Formed(s, k, w, l, m, c) /\ Formed(t, k, w, l, n, d)
  BY <1>1, <1>2, <1>3, PeersAre
<1>5. ASSUME NEW i \in 1 .. k, NEW f \in Levels
      PROVE  IF f <= l THEN s[i][f] = t[i][f] ELSE s[i][f] = m[f] /\ t[i][f] = n[f]
  <2>1. PICK x : x = Source(i, w)
    OBVIOUS
  <2>2. PICK y : y = (i - 1) \div w
    OBVIOUS
  <2>3. /\ x \in 1 .. w
        /\ s[i][f] = IF f > l THEN m[f] ELSE IF f = l THEN y ELSE c[x][f]
        /\ t[i][f] = IF f > l THEN n[f] ELSE IF f = l THEN y ELSE d[x][f]
    BY <1>4, <2>1, <2>2 DEF Formed
  <2>4. f < l => c[x][f] = d[x][f]
    BY <1>1, <2>3 DEF Alike, Levels
  <2>. QED
    BY <2>3, <2>4 DEF Levels
<1>6. Len(s) = k /\ Len(t) = k
  BY <1>4 DEF Formed
<1>. QED
  BY <1>3, <1>5, <1>6 DEF Alike

LEMMA ContactsAlike ==
  ASSUME NEW p \in Params, NEW l \in Levels, NEW m, NEW n,
         NEW c \in Seq(Id), NEW d \in Seq(Id), Alike(c, d, m, n, l)
  PROVE  Alike(ContactNodes(p, l, c), ContactNodes(p, l, d), m, n, l)
<1>1. Len(c) = Len(d)
  BY DEF Alike
<1>2. PICK s, t : s = ContactNodes(p, l, c) /\ t = ContactNodes(p, l, d)
  OBVIOUS
<1>3. PICK k \in Nat : k = IF NumContacts(p)[l + 1] <= Len(c) THEN NumContacts(p)[l + 1] ELSE Len(c)
  BY LevelNumbers
<1>4. k <= Len(c) /\ Len(s) = k /\ \A i \in 1 .. k : s[i] = c[i]
  <2>1. PICK w \in Nat :
          /\ w = IF NumContacts(p)[l + 1] <= Len(c) THEN NumContacts(p)[l + 1] ELSE Len(c)
          /\ w <= Len(c) /\ Len(ContactNodes(p, l, c)) = w
          /\ \A i \in 1 .. w : ContactNodes(p, l, c)[i] = c[i]
    BY ContactsAre
  <2>. QED
    BY <1>2, <1>3, <2>1, Zenon
<1>5. Len(t) = k /\ \A i \in 1 .. k : t[i] = d[i]
  <2>1. PICK w \in Nat :
          /\ w = IF NumContacts(p)[l + 1] <= Len(d) THEN NumContacts(p)[l + 1] ELSE Len(d)
          /\ Len(ContactNodes(p, l, d)) = w
          /\ \A i \in 1 .. w : ContactNodes(p, l, d)[i] = d[i]
    BY ContactsAre
  <2>. QED
    BY <1>1, <1>2, <1>3, <2>1, Zenon
<1>. QED
  BY <1>2, <1>4, <1>5 DEF Alike

LEMMA OrdersAlike ==
  ASSUME NEW p, Setting(p), NEW l \in 1 .. 5, NEW m, NEW n,
         NEW c \in Seq(Id), NEW d \in Seq(Id), Alike(c, d, m, n, l), Len(c) <= NumContacts(p)[l + 1]
  PROVE  Alike(IterOrder(c), IterOrder(d), m, n, l)
<1>1. Len(c) = Len(d)
  BY DEF Alike
<1>2. PICK s, t : s = IterOrder(c) /\ t = IterOrder(d)
  OBVIOUS
<1>3. Len(s) = Len(c) /\ Len(t) = Len(c)
  BY <1>1, <1>2, OrderIs
<1>4. \A i \in 1 .. Len(c) : \E k \in 1 .. Len(c) : s[i] = c[k] /\ t[i] = d[k]
  BY <1>1, <1>2, OrderAlike
<1>5. ASSUME NEW i \in 1 .. Len(c), NEW f \in Levels
      PROVE  IF f <= l THEN s[i][f] = t[i][f] ELSE s[i][f] = m[f] /\ t[i][f] = n[f]
  <2>1. PICK k \in 1 .. Len(c) : s[i] = c[k] /\ t[i] = d[k]
    BY <1>4
  <2>. QED
    BY <2>1 DEF Alike
<1>. QED
  BY <1>2, <1>3, <1>5 DEF Alike

\* The rings of level l that two processes compute are alike.
LEMMA RingsAlike ==
  ASSUME NEW p, Setting(p), NEW m \in Id, NEW n \in Id
  PROVE  \A l \in Levels : Stands(p, m, l) /\ Stands(p, n, l) =>
           /\ Alike(Peers(p, m, l), Peers(p, n, l), m, n, l)
           /\ Alike(Contacts(p, m, l), Contacts(p, n, l), m, n, l)
<1> DEFINE S == {l \in Levels : Stands(p, m, l) /\ Stands(p, n, l) =>
                   /\ Alike(Peers(p, m, l), Peers(p, n, l), m, n, l)
                   /\ Alike(Contacts(p, m, l), Contacts(p, n, l), m, n, l)}
<1>0. p \in Params
  BY DEF Setting
<1>1. 0 \in S
  <2>1. Peers(p, m, 0) = PeerList(p, m, 0, <<m>>) /\ Peers(p, n, 0) = PeerList(p, n, 0, <<n>>)
    BY DEF Peers
  <2>2. <<m>> \in Seq(Id) /\ <<n>> \in Seq(Id) /\ Alike(<<m>>, <<n>>, m, n, 0 - 1)
    <3>1. \A f \in Levels : ~ (f <= 0 - 1)
      BY DEF Levels
    <3>. QED
      BY <3>1 DEF Alike
  <2>3. Alike(Peers(p, m, 0), Peers(p, n, 0), m, n, 0)
    BY <1>0, <2>1, <2>2, LevelCases, PeersAlike
  <2>4. /\ Contacts(p, m, 0) = ContactNodes(p, 0, Peers(p, m, 0)) /\ Peers(p, m, 0) \in Seq(Id)
        /\ Contacts(p, n, 0) = ContactNodes(p, 0, Peers(p, n, 0)) /\ Peers(p, n, 0) \in Seq(Id)
    BY DistrictOK
  <2>5. Alike(Contacts(p, m, 0), Contacts(p, n, 0), m, n, 0)
    BY <1>0, <2>3, <2>4, LevelCases, ContactsAlike
  <2>. QED
    BY <2>3, <2>5, LevelCases
<1>2. ASSUME NEW l \in 1 .. 5, l - 1 \in S PROVE l \in S
  <2>1. l \in Levels /\ l - 1 \in Levels /\ l # 0
    BY DEF Levels
  <2>2. SUFFICES ASSUME Stands(p, m, l), Stands(p, n, l)
                 PROVE  /\ Alike(Peers(p, m, l), Peers(p, n, l), m, n, l)
                        /\ Alike(Contacts(p, m, l), Contacts(p, n, l), m, n, l)
    BY <2>1
  <2>3. Stands(p, m, l - 1) /\ Stands(p, n, l - 1)
    BY <2>2, StandsAbove
  <2>4. Alike(Contacts(p, m, l - 1), Contacts(p, n, l - 1), m, n, l - 1)
    BY <1>2, <2>3
  <2>5. Contacts(p, m, l - 1) \in Seq(Id) /\ Contacts(p, n, l - 1) \in Seq(Id)
    BY <2>1, <2>3, StandingRing
  <2>6. /\ Peers(p, m, l) = PeerList(p, m, l, Contacts(p, m, l - 1))
        /\ Peers(p, n, l) = PeerList(p, n, l, Contacts(p, n, l - 1))
    BY <2>1 DEF Peers
  <2>7. Alike(Peers(p, m, l), Peers(p, n, l), m, n, l)
    BY <1>0, <2>1, <2>4, <2>5, <2>6, PeersAlike
  <2>8. PICK c, d : c = ContactNodes(p, l, Peers(p, m, l)) /\ d = ContactNodes(p, l, Peers(p, n, l))
    OBVIOUS
  <2>9. /\ Peers(p, m, l) \in Seq(Id) /\ Peers(p, n, l) \in Seq(Id)
        /\ c \in Seq(Id) /\ d \in Seq(Id) /\ Len(c) <= NumContacts(p)[l + 1]
    BY <2>1, <2>2, <2>8, StandingRing
  <2>10. Alike(c, d, m, n, l)
    BY <1>0, <2>1, <2>7, <2>8, <2>9, ContactsAlike
  <2>11. Contacts(p, m, l) = IterOrder(c) /\ Contacts(p, n, l) = IterOrder(d)
    BY <2>2, <2>8, StandsAbove
  <2>12. Alike(Contacts(p, m, l), Contacts(p, n, l), m, n, l)
    BY <2>9, <2>10, <2>11, OrdersAlike
  <2>. QED
    BY <2>7, <2>12
<1> HIDE DEF S
<1>3. \A l \in Levels : l \in S
  BY <1>1, <1>2, Climbing
<1>. QED
  BY <1>3 DEF S

\* In one region the rings are the same.
LEMMA SameRing ==
  ASSUME NEW p, Setting(p), NEW m \in Id, NEW n \in Id, NEW l \in Levels,
         Stands(p, m, l), Stands(p, n, l), SameRegion(m, n, l)
  PROVE  Peers(p, m, l) = Peers(p, n, l)
<1>1. PICK s, t : s = Peers(p, m, l) /\ t = Peers(p, n, l)
  OBVIOUS
<1>2. s \in Seq(Id) /\ t \in Seq(Id) /\ Alike(s, t, m, n, l)
  BY <1>1, RingsAlike, StandingRing
<1>3. Len(s) = Len(t)
  BY <1>2 DEF Alike
<1>4. ASSUME NEW i \in 1 .. Len(s) PROVE s[i] = t[i]
  <2>1. s[i] \in Id /\ t[i] \in Id
    BY <1>2, <1>3
  <2>2. \A f \in Levels : s[i][f] = t[i][f]
    <3>1. ASSUME NEW f \in Levels PROVE s[i][f] = t[i][f]
      <4>1. CASE f <= l
        BY <1>2, <4>1 DEF Alike
      <4>2. CASE ~ (f <= l)
        <5>1. s[i][f] = m[f] /\ t[i][f] = n[f]
          BY <1>2, <4>2 DEF Alike
        <5>2. f > l
          BY <4>2 DEF Levels
        <5>. QED
          BY <5>1, <5>2 DEF SameRegion
      <4>. QED
        BY <4>1, <4>2
    <3>. QED
      BY <3>1
  <2>. QED
    BY <2>1, <2>2 DEF Id
<1>5. s = t
  BY <1>2, <1>3, <1>4
<1>. QED
  BY <1>1, <1>5

-----------------------------------------------------------------------------
(* Ids and their numbers.                                                  *)

RadixOutIs(p) == \A l \in 0 .. 4 : RadixOut(p)[l] \in Nat \ {0}

LEMMA RadixesOut ==
  ASSUME NEW p \in Params
  PROVE  RadixOutIs(p)
<1>1. ASSUME NEW l \in 0 .. 4 PROVE RadixOut(p)[l] \in Nat \ {0}
  <2>1. Regions(p)[l + 1] \in Nat
    BY LevelNumbers DEF Levels
  <2>. QED
    BY <2>1 DEF RadixOut
<1>. QED
  BY <1>1 DEF RadixOutIs

LEMMA ProductPositive ==
  ASSUME NEW a \in Nat \ {0}, NEW b \in Nat \ {0}
  PROVE  a * b \in Nat \ {0}
  OBVIOUS

LEMMA WeightsPositive ==
  ASSUME NEW radix, \A l \in 0 .. 4 : radix[l] \in Nat \ {0}
  PROVE  \A l \in Levels : Weights(radix)[l] \in Nat \ {0}
<1> DEFINE S == {l \in Levels : Weights(radix)[l] \in Nat \ {0}}
<1>1. 0 \in S
  BY WeightsAre, LevelCases
<1>2. ASSUME NEW l \in 1 .. 5, l - 1 \in S PROVE l \in S
  <2>1. PICK a, b : a = Weights(radix)[l - 1] /\ b = radix[l - 1]
    OBVIOUS
  <2>2. a \in Nat \ {0} /\ b \in Nat \ {0}
    BY <1>2, <2>1
  <2>3. Weights(radix)[l] = a * b
    BY <2>1, WeightsAre
  <2>. QED
    BY <2>2, <2>3, ProductPositive DEF Levels
<1> HIDE DEF S
<1>3. \A l \in Levels : l \in S
  BY <1>1, <1>2, Climbing
<1>. QED
  BY <1>3 DEF S

LEMMA NumbersAreIds ==
  ASSUME NEW p \in Params
  PROVE  /\ NumNodes(p) \in Nat
         /\ \A i \in Nat : convert_ID_int_to_string(p, i) \in Id
         /\ Nodes(p) \subseteq Id
<1>1. PICK size : size = Weights(RadixOut(p))
  OBVIOUS
<1>2. \A l \in Levels : size[l] \in Nat \ {0}
  BY <1>1, RadixesOut, WeightsPositive DEF RadixOutIs
<1>3. ASSUME NEW i \in Nat PROVE convert_ID_int_to_string(p, i) \in Id
  <2>1. ASSUME NEW l \in Levels
        PROVE  (IF l = 5 THEN i \div size[5] ELSE (i \div size[l]) % RadixOut(p)[l]) \in Nat
    <3>1. PICK w \in Nat \ {0} : w = size[l]
      BY <1>2
    <3>2. PICK q \in Nat : q = i \div w
      BY Quotients
    <3>3. CASE l = 5
      BY <3>1, <3>2, <3>3
    <3>4. CASE l # 5
      <4>1. PICK r \in Nat \ {0} : r = RadixOut(p)[l]
        BY <3>4, RadixesOut DEF RadixOutIs, Levels
      <4>2. q % r \in Nat
        BY Quotients
      <4>. QED
        BY <3>1, <3>2, <3>4, <4>1, <4>2
    <3>. QED
      BY <3>3, <3>4
  <2>. QED
    BY <1>1, <2>1 DEF convert_ID_int_to_string, Id
<1>4. NumNodes(p) \in Nat
  <2>1. p.num_continents \in Nat /\ size[5] \in Nat
    BY <1>2, LevelCases DEF Params
  <2>. QED
    BY <1>1, <2>1 DEF NumNodes
<1>5. Nodes(p) \subseteq Id
  BY <1>3, <1>4 DEF Nodes
<1>. QED
  BY <1>3, <1>4, <1>5

-----------------------------------------------------------------------------
(* The deployment.                                                         *)

\* A process has not booted or has the tables that form_structure gives it.
TablesComputed ==
  /\ params \in Parameters
  /\ DOMAIN tables = Nodes(params)
  /\ \A n \in Nodes(params) : tables[n] = <<>> \/ tables[n] = form_structure(params, n)

LEMMA TablesStayComputed ==
  ASSUME TablesComputed, [BootNext]_boot_vars
  PROVE  TablesComputed'
<1>1. CASE UNCHANGED boot_vars
  BY <1>1 DEF TablesComputed, boot_vars
<1>2. ASSUME NEW n \in Nodes(params), Boot(n) PROVE TablesComputed'
  BY <1>2 DEF Boot, TablesComputed
<1>. QED
  BY <1>1, <1>2 DEF BootNext

LEMMA AlwaysComputed == BootSpec => []TablesComputed
<1>1. BootInit => TablesComputed
  BY DEF BootInit, TablesComputed
<1>2. TablesComputed /\ [BootNext]_boot_vars => TablesComputed'
  BY TablesStayComputed
<1>. QED
  BY <1>1, <1>2, PTL DEF BootSpec

LEMMA SettingOf ==
  ASSUME NEW p \in Parameters, OrderByPlace
  PROVE  Setting(p)
  BY ParametersAssumption DEF Setting, OrderByPlace, Id

\* What a booted process knows of the ring it has at level l.
LEMMA BootedRing ==
  ASSUME OrderByPlace, TablesComputed, NEW n \in Booted
  PROVE  /\ Setting(params) /\ n \in Id
         /\ \A l \in Levels :
              /\ l <= get_top_level(tables[n]) <=> Stands(params, n, l)
              /\ l \in Resides(n) <=> Stands(params, n, l) /\ Len(Peers(params, n, l)) > 0
              /\ Stands(params, n, l) =>
                   /\ tables[n][l + 1].peer_list = Peers(params, n, l)
                   /\ tables[n][l + 1].contact_nodes = ToSet(Contacts(params, n, l))
<1>1. params \in Parameters /\ params \in Params /\ Setting(params)
  BY SettingOf, ParametersAssumption DEF TablesComputed
<1>2. n \in Nodes(params) /\ n \in Id
  BY <1>1, NumbersAreIds DEF Booted
<1>3. PICK t : t = tables[n]
  OBVIOUS
<1>4. t = form_structure(params, n)
  BY <1>2, <1>3 DEF Booted, TablesComputed
<1>5. Len(t) \in 1 .. 6
  BY <1>1, <1>2, <1>4, TablesAre
<1>6. ASSUME NEW l \in Levels
      PROVE  /\ l <= get_top_level(t) <=> Stands(params, n, l)
             /\ get_peer_list_size(t, l) >= 0 <=> (Stands(params, n, l) /\ Len(Peers(params, n, l)) > 0)
             /\ Stands(params, n, l) =>
                  /\ t[l + 1].peer_list = Peers(params, n, l)
                  /\ t[l + 1].contact_nodes = ToSet(Contacts(params, n, l))
  <2>1. Stands(params, n, l) <=> l + 1 <= Len(t)
    BY <1>1, <1>2, <1>4, TablesAre
  <2>2. l <= get_top_level(t) <=> Stands(params, n, l)
    BY <1>5, <2>1 DEF get_top_level, Levels
  <2>3. CASE Stands(params, n, l)
    <3>1. t[l + 1] = Ring(params, n, l, Peers(params, n, l))
      BY <1>1, <1>2, <1>4, <2>3, TablesAre
    <3>2. /\ t[l + 1].peer_list = Peers(params, n, l)
          /\ t[l + 1].contact_nodes = ToSet(ContactNodes(params, l, Peers(params, n, l)))
      BY <3>1 DEF Ring
    <3>3. /\ ToSet(Contacts(params, n, l)) = ToSet(ContactNodes(params, l, Peers(params, n, l)))
          /\ Peers(params, n, l) \in Seq(Id)
      BY <1>1, <1>2, <2>3, StandingRing
    <3>4. PICK k \in Nat : k = Len(Peers(params, n, l))
      BY <3>3
    <3>5. get_peer_list_size(t, l) = k - 1
      BY <2>2, <2>3, <3>2, <3>4 DEF get_peer_list_size, is_contact_node
    <3>. QED
      BY <2>2, <2>3, <3>2, <3>3, <3>4, <3>5
  <2>4. CASE ~ Stands(params, n, l)
    <3>1. get_peer_list_size(t, l) = -1
      BY <2>2, <2>4 DEF get_peer_list_size, is_contact_node
    <3>. QED
      BY <2>2, <2>4, <3>1
  <2>. QED
    BY <2>3, <2>4
<1>. QED
  BY <1>1, <1>2, <1>3, <1>6 DEF Resides

LEMMA ComputedAgree ==
  ASSUME OrderByPlace, TablesComputed
  PROVE  RingAgreement
<1>1. SUFFICES ASSUME NEW m \in Booted, NEW n \in Booted, NEW l \in Resides(m) \cap Resides(n),
                      SameRegion(m, n, l)
               PROVE  /\ tables[m][l + 1].peer_list = tables[n][l + 1].peer_list
                      /\ tables[m][l + 1].contact_nodes = tables[n][l + 1].contact_nodes
  BY DEF RingAgreement
<1>2. Setting(params) /\ m \in Id /\ n \in Id /\ l \in Levels
  BY BootedRing DEF Resides
<1>3. Stands(params, m, l) /\ Stands(params, n, l)
  BY <1>2, BootedRing
<1>4. /\ tables[m][l + 1].peer_list = Peers(params, m, l)
      /\ tables[m][l + 1].contact_nodes = ToSet(Contacts(params, m, l))
      /\ tables[n][l + 1].peer_list = Peers(params, n, l)
      /\ tables[n][l + 1].contact_nodes = ToSet(Contacts(params, n, l))
  BY <1>2, <1>3, BootedRing
<1>5. Peers(params, m, l) = Peers(params, n, l)
  BY <1>1, <1>2, <1>3, SameRing
<1>6. ToSet(Contacts(params, m, l)) = ToSet(Contacts(params, n, l))
  BY <1>2, <1>3, <1>5, StandingRing
<1>. QED
  BY <1>4, <1>5, <1>6

\* Each process computes its tables on its own; all residents of a ring come
\* to the same list of peers and the same contact nodes, which relays index and
\* climbing requests choose from independently.
THEOREM RingsAgree ==
  ASSUME OrderByPlace
  PROVE  BootSpec => []RingAgreement
<1>1. TablesComputed => RingAgreement
  BY ComputedAgree
<1>. QED
  BY <1>1, AlwaysComputed, PTL

\* The contact nodes of a ring are peers.
LEMMA ContactsArePeers ==
  ASSUME NEW p \in Params, NEW l \in Levels, NEW q \in Seq(Id)
  PROVE  \A c \in ToSet(ContactNodes(p, l, q)) : \E k \in 1 .. Len(q) : c = q[k]
<1>1. PICK s : s = ContactNodes(p, l, q)
  OBVIOUS
<1>2. PICK w \in Nat : w <= Len(q) /\ s \in Seq(Id) /\ Len(s) = w /\ \A i \in 1 .. w : s[i] = q[i]
  BY <1>1, ContactsAre
<1>3. DOMAIN s = 1 .. w
  BY <1>2
<1>4. \A c \in ToSet(s) : \E k \in 1 .. w : c = s[k]
  BY <1>3 DEF ToSet
<1>. QED
  BY <1>1, <1>2, <1>4

\* Below level j, place i of the contact nodes is like a place one level lower.
Inherits(p, n, j, i) ==
  \E x \in 1 .. Len(Contacts(p, n, j - 1)) : \A f \in Levels :
    f < j => Contacts(p, n, j)[i][f] = Contacts(p, n, j - 1)[x][f]

\* A contact node at level l has the fields below of a contact node there.
LEMMA ContactBelow ==
  ASSUME NEW p, Setting(p), NEW n \in Id, NEW j \in 1 .. 5, Stands(p, n, j),
         NEW i \in 1 .. Len(Contacts(p, n, j))
  PROVE  Stands(p, n, j - 1) /\ Inherits(p, n, j, i)
<1>1. p \in Params /\ j \in Levels /\ j - 1 \in Levels /\ j # 0
  BY DEF Setting, Levels
<1>2. Stands(p, n, j - 1)
  BY StandsAbove
<1>3. PICK q, c, d : q = Peers(p, n, j) /\ c = Contacts(p, n, j) /\ d = Contacts(p, n, j - 1)
  OBVIOUS
<1>4. q \in Seq(Id) /\ c \in Seq(Id) /\ d \in Seq(Id)
  BY <1>1, <1>2, <1>3, StandingRing
<1>5. PICK k \in 1 .. Len(q) : c[i] = q[k]
  <2>1. c[i] \in ToSet(c)
    BY <1>3, <1>4 DEF ToSet
  <2>2. ToSet(c) = ToSet(ContactNodes(p, j, q))
    BY <1>1, <1>3, StandingRing
  <2>. QED
    BY <1>1, <1>4, <2>1, <2>2, ContactsArePeers
<1>6. q = PeerList(p, n, j, d)
  BY <1>1, <1>3 DEF Peers
<1>7. PICK w \in Nat : w = Len(d)
  BY <1>4
<1>8. Formed(q, Regions(p)[j + 1] * w, w, j, n, d)
  BY <1>1, <1>4, <1>6, <1>7, PeersAre
<1>9. PICK x : x = Source(k, w)
  OBVIOUS
<1>10. /\ x \in 1 .. w
       /\ \A f \in Levels : q[k][f] = IF f > j THEN n[f]
                                      ELSE IF f = j THEN (k - 1) \div w ELSE d[x][f]
  <2>1. Len(q) = Regions(p)[j + 1] * w
    BY <1>8 DEF Formed
  <2>2. k \in 1 .. Regions(p)[j + 1] * w
    BY <1>5, <2>1
  <2>. QED
    BY <1>8, <1>9, <2>2 DEF Formed
<1>11. \A f \in Levels : f < j => q[k][f] = d[x][f]
  BY <1>10 DEF Levels
<1>. QED
  BY <1>2, <1>3, <1>5, <1>7, <1>10, <1>11 DEF Inherits

\* A contact node of a ring stands in that ring, and knows of being one.
LEMMA ContactStands ==
  ASSUME NEW p, Setting(p), NEW n \in Id, NEW c \in Id, NEW l \in Levels,
         Stands(p, n, l), c \in ToSet(Contacts(p, n, l))
  PROVE  Stands(p, c, l) /\ c \in ToSet(Contacts(p, c, l))
<1> DEFINE Below(j) == /\ Stands(p, n, j)
                       /\ \E i \in 1 .. Len(Contacts(p, n, j)) :
                            \A f \in Levels : f <= j => c[f] = Contacts(p, n, j)[i][f]
           S == {d \in Levels : d <= l => Below(l - d)}
           T == {j \in Levels : j <= l => Stands(p, c, j)}
<1>1. 0 \in S
  <2>1. Contacts(p, n, l) \in Seq(Id)
    BY StandingRing
  <2>2. \E i \in 1 .. Len(Contacts(p, n, l)) : c = Contacts(p, n, l)[i]
    BY <2>1 DEF ToSet
  <2>3. Below(l)
    BY <2>2
  <2>4. l - 0 = l
    BY DEF Levels
  <2> HIDE DEF Below
  <2>. QED
    BY <2>3, <2>4, LevelCases
<1>2. ASSUME NEW d \in 1 .. 5, d - 1 \in S PROVE d \in S
  <2>1. SUFFICES ASSUME d <= l PROVE Below(l - d)
    BY DEF Levels
  <2>2. PICK j \in 1 .. 5 : j = l - (d - 1) /\ l - d = j - 1
    <3>1. l - (d - 1) \in 1 .. 5 /\ l - d = (l - (d - 1)) - 1
      BY <2>1 DEF Levels
    <3>. QED
      BY <3>1
  <2>3. Below(j)
    <3> HIDE DEF Below
    <3>1. d - 1 <= l
      BY <2>1 DEF Levels
    <3>. QED
      BY <1>2, <2>2, <3>1
  <2>4. PICK i \in 1 .. Len(Contacts(p, n, j)) :
             \A f \in Levels : f <= j => c[f] = Contacts(p, n, j)[i][f]
    BY <2>3
  <2>5. Stands(p, n, j - 1) /\ Inherits(p, n, j, i)
    <3>1. Stands(p, n, j)
      BY <2>3
    <3> HIDE DEF Below, S, T
    <3>. QED
      BY <3>1, ContactBelow
  <2>6. PICK x \in 1 .. Len(Contacts(p, n, j - 1)) : \A f \in Levels :
              f < j => Contacts(p, n, j)[i][f] = Contacts(p, n, j - 1)[x][f]
    BY <2>5 DEF Inherits
  <2>7. \A f \in Levels : f <= j - 1 => c[f] = Contacts(p, n, j - 1)[x][f]
    BY <2>4, <2>6 DEF Levels
  <2>8. Below(j - 1)
    BY <2>5, <2>7
  <2> HIDE DEF Below
  <2>. QED
    BY <2>2, <2>8
<1>3. \A j \in Levels : j <= l => Below(j)
  <2>1. \A d \in Levels : d \in S
    <3> HIDE DEF S
    <3>. QED
      BY <1>1, <1>2, Climbing
  <2>2. SUFFICES ASSUME NEW j \in Levels, j <= l PROVE Below(j)
    OBVIOUS
  <2>3. l - j \in Levels /\ l - j <= l /\ l - (l - j) = j
    BY <2>2 DEF Levels
  <2>4. Below(l - (l - j))
    <3> HIDE DEF Below
    <3>. QED
      BY <2>1, <2>3
  <2> HIDE DEF Below
  <2>. QED
    BY <2>3, <2>4
<1>4. ASSUME NEW j \in Levels, j <= l, Stands(p, c, j) PROVE c \in ToSet(Contacts(p, c, j))
  <2>1. Below(j)
    BY <1>3, <1>4
  <2>2. PICK i \in 1 .. Len(Contacts(p, n, j)) :
             \A f \in Levels : f <= j => c[f] = Contacts(p, n, j)[i][f]
    BY <2>1
  <2>3. PICK s, t : s = Contacts(p, c, j) /\ t = Contacts(p, n, j)
    OBVIOUS
  <2>4. s \in Seq(Id) /\ t \in Seq(Id) /\ Alike(s, t, c, n, j)
    BY <1>4, <2>1, <2>3, RingsAlike, StandingRing
  <2>5. i \in 1 .. Len(s)
    BY <2>2, <2>3, <2>4 DEF Alike
  <2>6. \A f \in Levels : s[i][f] = c[f]
    BY <2>2, <2>3, <2>4, <2>5 DEF Alike
  <2>7. s[i] = c
    BY <2>4, <2>5, <2>6 DEF Id
  <2>. QED
    BY <2>3, <2>4, <2>5, <2>7 DEF ToSet
<1>5. 0 \in T
  BY DistrictOK, LevelCases
<1>6. ASSUME NEW j \in 1 .. 5, j - 1 \in T PROVE j \in T
  <2>1. SUFFICES ASSUME j <= l PROVE Stands(p, c, j)
    BY DEF Levels
  <2>2. j - 1 \in Levels /\ j \in Levels /\ j - 1 <= l
    BY <2>1 DEF Levels
  <2>3. Stands(p, c, j - 1)
    BY <1>6, <2>2
  <2>4. c \in ToSet(Contacts(p, c, j - 1))
    BY <1>4, <2>2, <2>3
  <2>5. Stands(p, n, j)
    BY <1>3, <2>1, <2>2
  <2>6. Up(p, n, j)
    BY <2>5, StandsAbove
  <2>7. Up(p, c, j)
    BY <2>4, <2>6 DEF Up
  <2>. QED
    BY <2>3, <2>7, StandsAbove
<1>7. Stands(p, c, l)
  <2>1. \A j \in Levels : j \in T
    <3> HIDE DEF T
    <3>. QED
      BY <1>5, <1>6, Climbing
  <2>. QED
    BY <2>1 DEF Levels
<1>8. l <= l
  BY DEF Levels
<1>. QED
  BY <1>4, <1>7, <1>8

LEMMA ComputedClimb ==
  ASSUME OrderByPlace, TablesComputed
  PROVE  ContactsClimb
<1>1. ASSUME NEW n \in Booted, NEW l \in Resides(n)
      PROVE  tables[n][l + 1].contact_nodes # {}
  <2>1. Setting(params) /\ params \in Params /\ n \in Id /\ l \in Levels
    BY <1>1, BootedRing DEF Resides, Setting
  <2>2. Stands(params, n, l) /\ Len(Peers(params, n, l)) > 0
    BY <1>1, <2>1, BootedRing
  <2>3. tables[n][l + 1].contact_nodes = ToSet(Contacts(params, n, l))
    BY <1>1, <2>1, <2>2, BootedRing
  <2>4. PICK q, s, t : q = Peers(params, n, l) /\ s = ContactNodes(params, l, q) /\ t = Contacts(params, n, l)
    OBVIOUS
  <2>5. q \in Seq(Id) /\ s \in Seq(Id) /\ t \in Seq(Id) /\ Len(t) = Len(s)
    BY <2>1, <2>2, <2>4, StandingRing
  <2>6. PICK w \in Nat : w > 0 /\ Len(s) = w
    BY <2>1, <2>2, <2>4, <2>5, ContactsAre
  <2>7. 1 \in DOMAIN t
    BY <2>5, <2>6
  <2>8. t[1] \in ToSet(t)
    BY <2>7 DEF ToSet
  <2>. QED
    BY <2>3, <2>4, <2>8
<1>2. ASSUME NEW n \in Booted, NEW l \in Resides(n), NEW m \in Booted, l + 1 \in Resides(m),
             NEW c \in tables[n][l + 1].contact_nodes \cap Booted
      PROVE  l + 1 \in Resides(c)
  <2>1. /\ Setting(params) /\ n \in Id /\ m \in Id /\ c \in Id
        /\ l \in Levels /\ l + 1 \in Levels
    BY <1>2, BootedRing DEF Resides
  <2>2. PICK k \in 1 .. 5 : k = l + 1
    BY <2>1 DEF Levels
  <2>3. k - 1 = l /\ k \in Levels
    BY <2>1, <2>2 DEF Levels
  <2>4. Stands(params, n, l) /\ Stands(params, m, k) /\ Len(Peers(params, m, k)) > 0
    BY <1>2, <2>1, <2>2, BootedRing
  <2>5. c \in ToSet(Contacts(params, n, l))
    BY <1>2, <2>1, <2>4, BootedRing
  <2>6. Stands(params, c, l) /\ c \in ToSet(Contacts(params, c, l))
    BY <2>1, <2>4, <2>5, ContactStands
  <2>7. Up(params, m, k)
    BY <2>1, <2>4, StandsAbove
  <2>8. Up(params, c, k)
    BY <2>3, <2>6, <2>7 DEF Up
  <2>9. Stands(params, c, k)
    BY <2>1, <2>3, <2>6, <2>8, StandsAbove
  <2>10. Alike(Peers(params, m, k), Peers(params, c, k), m, c, k)
    BY <2>1, <2>3, <2>4, <2>9, RingsAlike
  <2>11. Len(Peers(params, c, k)) > 0
    BY <2>4, <2>10 DEF Alike
  <2>. QED
    BY <1>2, <2>1, <2>2, <2>9, <2>11, BootedRing
<1>. QED
  BY <1>1, <1>2 DEF ContactsClimb

\* A request that climbs from contact node to contact node never gets stuck:
\* the contact nodes of a ring reside in the ring above it, where there is one.
THEOREM ContactsAlwaysClimb ==
  ASSUME OrderByPlace
  PROVE  BootSpec => []ContactsClimb
<1>1. TablesComputed => ContactsClimb
  BY ComputedClimb
<1>. QED
  BY <1>1, AlwaysComputed, PTL

-----------------------------------------------------------------------------
(* Ports.                                                                  *)

LEMMA DivUnique ==
  ASSUME NEW m \in Nat \ {0}, NEW q \in Nat, NEW r \in 0 .. m - 1
  PROVE  (m * q + r) \div m = q
<1>1. PICK a \in Nat : a = m * q + r
  <2>1. m * q + r \in Nat
    OBVIOUS
  <2>. QED
    BY <2>1
<1>2. PICK x \in Nat, y \in 0 .. m - 1 : x = a \div m /\ y = a % m
  BY Quotients
<1>3. a = m * x + y
  BY ONLY <1>2, a \in Nat, m \in Nat \ {0}
<1>4. ASSUME NEW u \in Nat, NEW v \in Nat, u > v PROVE m * u >= m * v + m
  <2>1. PICK d \in Nat : u = v + 1 + d
    <3>1. u - v - 1 \in Nat /\ u = v + 1 + (u - v - 1)
      BY <1>4
    <3>. QED
      BY <3>1
  <2>2. m * (v + 1 + d) = m * v + m + m * d /\ m * d \in Nat /\ m * v \in Nat
    BY ONLY m \in Nat \ {0}, v \in Nat, d \in Nat
  <2>. QED
    BY <2>1, <2>2
<1>5. PICK s \in Nat, t \in Nat : s = m * q /\ t = m * x
  OBVIOUS
<1>6. s + r = t + y
  BY <1>1, <1>3, <1>5
<1>7. ~ (x > q)
  <2>1. x > q => t >= s + m
    BY <1>4, <1>5
  <2>. QED
    BY <1>6, <2>1
<1>8. ~ (q > x)
  <2>1. q > x => s >= t + m
    BY <1>4, <1>5
  <2>. QED
    BY <1>6, <2>1
<1>9. x = q
  BY <1>7, <1>8
<1>. QED
  BY <1>1, <1>2, <1>9

\* Dividing by a and then by b is dividing by the product.
LEMMA NestedDiv ==
  ASSUME NEW n \in Nat, NEW a \in Nat \ {0}, NEW b \in Nat \ {0}
  PROVE  n \div a = b * (n \div (a * b)) + ((n \div a) % b)
<1>1. PICK q \in Nat, r \in 0 .. a - 1 : q = n \div a /\ r = n % a
  BY Quotients
<1>2. PICK x \in Nat, y \in 0 .. b - 1 : x = q \div b /\ y = q % b
  BY Quotients
<1>3. n = a * q + r
  BY ONLY <1>1, n \in Nat, a \in Nat \ {0}
<1>4. q = b * x + y
  BY ONLY <1>2, q \in Nat, b \in Nat \ {0}
<1>5. PICK m \in Nat \ {0} : m = a * b
  BY ProductPositive
<1>6. PICK s \in Nat : s = a * y + r
  <2>1. a * y + r \in Nat
    OBVIOUS
  <2>. QED
    BY <2>1
<1>7. s <= m - 1
  <2>1. PICK d \in Nat : b = y + 1 + d
    <3>1. b - y - 1 \in Nat /\ b = y + 1 + (b - y - 1)
      OBVIOUS
    <3>. QED
      BY <3>1
  <2>2. a * (y + 1 + d) = a * y + a + a * d /\ a * d \in Nat /\ a * y \in Nat
    BY ONLY a \in Nat \ {0}, y \in Nat, d \in Nat
  <2>3. m = a * y + a + a * d
    BY <1>5, <2>1, <2>2
  <2>4. PICK u \in Nat, v \in Nat : u = a * y /\ v = a * d
    BY <2>2
  <2>5. m = u + a + v /\ s = u + r
    BY <1>6, <2>3, <2>4
  <2>. QED
    BY <2>5
<1>8. n = m * x + s
  <2>1. a * (b * x + y) = (a * b) * x + a * y
    BY ONLY a \in Nat \ {0}, b \in Nat \ {0}, x \in Nat, y \in Nat
  <2>. QED
    BY <1>3, <1>4, <1>5, <1>6, <2>1
<1>9. n \div m = x
  BY <1>7, <1>8, DivUnique
<1>. QED
  BY <1>1, <1>2, <1>4, <1>5, <1>9

\* What is left of number i at level l, and the field of its id there.
Left(p, i, l) == i \div Weights(RadixOut(p))[l]

Worth(p, i, l) == convert_ID_int_to_string(p, i)[l] * Weights(RadixOut(p))[l]

\* A field takes the remainder of what is left, the last one takes all.
LEMMA FieldsAre ==
  ASSUME NEW p \in Params, NEW i \in Nat
  PROVE  /\ Left(p, i, 0) = i
         /\ \A l \in 0 .. 4 :
              /\ convert_ID_int_to_string(p, i)[l] = Left(p, i, l) % RadixOut(p)[l]
              /\ Left(p, i, l) * Weights(RadixOut(p))[l]
                   = Left(p, i, l + 1) * Weights(RadixOut(p))[l + 1] + Worth(p, i, l)
         /\ convert_ID_int_to_string(p, i)[5] = Left(p, i, 5)
<1>1. PICK size : size = Weights(RadixOut(p))
  OBVIOUS
<1>2. \A l \in Levels : size[l] \in Nat \ {0}
  BY <1>1, RadixesOut, WeightsPositive DEF RadixOutIs
<1>3. Left(p, i, 0) = i
  <2>1. size[0] = 1
    BY <1>1, WeightsAre
  <2>2. i \div 1 = i
    OBVIOUS
  <2>. QED
    BY <1>1, <2>1, <2>2 DEF Left
<1>4. \A l \in Levels : convert_ID_int_to_string(p, i)[l] =
         IF l = 5 THEN Left(p, i, 5) ELSE Left(p, i, l) % RadixOut(p)[l]
  BY DEF convert_ID_int_to_string, Left
<1>5. ASSUME NEW l \in 0 .. 4
      PROVE  Left(p, i, l) * size[l] = Left(p, i, l + 1) * size[l + 1] + Worth(p, i, l)
  <2>1. PICK a \in Nat \ {0}, r \in Nat \ {0} : a = size[l] /\ r = RadixOut(p)[l]
    BY <1>2, RadixesOut DEF RadixOutIs, Levels
  <2>2. size[l + 1] = a * r
    <3>1. l + 1 \in 1 .. 5 /\ (l + 1) - 1 = l
      OBVIOUS
    <3>2. Weights(RadixOut(p))[l + 1] = Weights(RadixOut(p))[(l + 1) - 1] * RadixOut(p)[(l + 1) - 1]
      BY <3>1, WeightsAre
    <3>. QED
      BY <1>1, <2>1, <3>1, <3>2
  <2>3. a * r \in Nat \ {0}
    BY ProductPositive
  <2>4. PICK u \in Nat, v \in Nat : u = i \div a /\ v = i \div (a * r)
    BY <2>3, Quotients
  <2>5. PICK d \in Nat : d = u % r
    BY Quotients
  <2>6. u = r * v + d
    BY <2>4, <2>5, NestedDiv
  <2>7. (r * v + d) * a = v * (a * r) + d * a
    BY ONLY a \in Nat \ {0}, r \in Nat \ {0}, v \in Nat, d \in Nat
  <2>8. Left(p, i, l) = u /\ Left(p, i, l + 1) = v
    BY <1>1, <2>1, <2>2, <2>4 DEF Left
  <2>9. Worth(p, i, l) = d * a
    <3>1. l \in Levels /\ l # 5
      BY DEF Levels
    <3>. QED
      BY <1>1, <1>4, <2>1, <2>5, <2>8, <3>1 DEF Worth
  <2>. QED
    BY <2>1, <2>2, <2>6, <2>7, <2>8, <2>9
<1>. QED
  BY <1>1, <1>3, <1>4, <1>5 DEF Levels

\* A number is the sum of what the fields of its id are worth.
LEMMA SumOfFields ==
  ASSUME NEW p \in Params, NEW i \in Nat
  PROVE  /\ i = Worth(p, i, 5) + Worth(p, i, 4) + Worth(p, i, 3) + Worth(p, i, 2) + Worth(p, i, 1)
                  + Worth(p, i, 0)
         /\ \A l \in Levels : Worth(p, i, l) \in Nat
<1>1. ASSUME NEW l \in Levels PROVE Worth(p, i, l) \in Nat /\ Left(p, i, l) * Weights(RadixOut(p))[l] \in Nat
  <2>1. PICK a \in Nat \ {0} : a = Weights(RadixOut(p))[l]
    BY RadixesOut, WeightsPositive DEF RadixOutIs
  <2>2. convert_ID_int_to_string(p, i) \in Id
    BY NumbersAreIds
  <2>3. PICK d \in Nat, u \in Nat : d = convert_ID_int_to_string(p, i)[l] /\ u = i \div a
    BY <2>2, Quotients DEF Id
  <2>4. d * a \in Nat /\ u * a \in Nat
    OBVIOUS
  <2>. QED
    BY <2>1, <2>3, <2>4 DEF Worth, Left
<1> DEFINE rest(l) == Left(p, i, l) * Weights(RadixOut(p))[l]
<1>2. \A l \in 0 .. 4 : rest(l) = rest(l + 1) + Worth(p, i, l)
  BY FieldsAre
<1>3. rest(0) = i
  <2>1. Left(p, i, 0) = i /\ Weights(RadixOut(p))[0] = 1
    BY FieldsAre, WeightsAre
  <2>. QED
    BY <2>1
<1>4. rest(5) = Worth(p, i, 5)
  BY FieldsAre DEF Worth
<1>5. \A l \in Levels : rest(l) \in Nat /\ Worth(p, i, l) \in Nat
  BY <1>1
<1> HIDE DEF rest
<1>6. rest(0) = rest(1) + Worth(p, i, 0) /\ rest(1) = rest(2) + Worth(p, i, 1)
      /\ rest(2) = rest(3) + Worth(p, i, 2) /\ rest(3) = rest(4) + Worth(p, i, 3)
      /\ rest(4) = rest(5) + Worth(p, i, 4)
  BY <1>2
<1>7. /\ rest(1) \in Nat /\ rest(2) \in Nat /\ rest(3) \in Nat /\ rest(4) \in Nat /\ rest(5) \in Nat
      /\ Worth(p, i, 0) \in Nat /\ Worth(p, i, 1) \in Nat /\ Worth(p, i, 2) \in Nat
      /\ Worth(p, i, 3) \in Nat /\ Worth(p, i, 4) \in Nat /\ Worth(p, i, 5) \in Nat
  BY <1>5, LevelCases
<1>. QED
  BY <1>3, <1>4, <1>5, <1>6, <1>7

LEMMA RadixesIn ==
  ASSUME NEW p \in Params
  PROVE  \A l \in Levels : Weights(RadixIn(p))[l] \in Nat
<1>1. ASSUME NEW l \in 0 .. 4 PROVE RadixIn(p)[l] \in Nat
  <2>1. Regions(p)[l + 1] \in Nat
    BY LevelNumbers DEF Levels
  <2>2. p.num_nodes_in_state \in Nat /\ p.num_cnodes_in_dist \in Nat \ {0}
    BY DEF Params
  <2>3. p.num_nodes_in_state \div p.num_cnodes_in_dist \in Nat
    BY <2>2, Quotients
  <2>. QED
    BY <2>1, <2>3 DEF RadixIn
<1> DEFINE S == {l \in Levels : Weights(RadixIn(p))[l] \in Nat}
<1>2. 0 \in S
  BY WeightsAre, LevelCases
<1>3. ASSUME NEW l \in 1 .. 5, l - 1 \in S PROVE l \in S
  <2>1. PICK a \in Nat, b \in Nat : a = Weights(RadixIn(p))[l - 1] /\ b = RadixIn(p)[l - 1]
    BY <1>1, <1>3
  <2>2. Weights(RadixIn(p))[l] = a * b /\ a * b \in Nat
    BY <2>1, WeightsAre
  <2>. QED
    BY <2>2 DEF Levels
<1> HIDE DEF S
<1>4. \A l \in Levels : l \in S
  BY <1>2, <1>3, Climbing
<1>. QED
  BY <1>4 DEF S

\* Where the conversions count alike, one is the inverse of the other.
LEMMA ConvertBack ==
  ASSUME NEW p \in Params, SameRadixes(p), NEW i \in 0 .. NumNodes(p) - 1
  PROVE  convert_ID_string_to_int(p, convert_ID_int_to_string(p, i)) = i
<1>1. PICK top \in Levels : /\ \A l \in 0 .. 4 : l < top => RadixIn(p)[l] = RadixOut(p)[l]
                            /\ top < 5 => p.num_continents = 1 /\ \A l \in top .. 4 : RadixOut(p)[l] = 1
  BY DEF SameRadixes
<1>2. PICK in, out : in = Weights(RadixIn(p)) /\ out = Weights(RadixOut(p))
  OBVIOUS
<1>3. \A l \in Levels : in[l] \in Nat /\ out[l] \in Nat \ {0}
  BY <1>2, RadixesIn, RadixesOut, WeightsPositive DEF RadixOutIs
<1>4. PICK node : node = convert_ID_int_to_string(p, i)
  OBVIOUS
<1>5. i \in Nat /\ node \in Id
  BY <1>4, NumbersAreIds
<1>6. \A l \in Levels : l <= top => in[l] = out[l]
  <2> DEFINE S == {l \in Levels : l <= top => in[l] = out[l]}
  <2>1. 0 \in S
    BY <1>2, WeightsAre, LevelCases
  <2>2. ASSUME NEW l \in 1 .. 5, l - 1 \in S PROVE l \in S
    <3>1. SUFFICES ASSUME l <= top PROVE in[l] = out[l]
      BY DEF Levels
    <3>2. l - 1 \in 0 .. 4 /\ l - 1 < top /\ l - 1 <= top
      BY <3>1 DEF Levels
    <3>3. in[l - 1] = out[l - 1] /\ RadixIn(p)[l - 1] = RadixOut(p)[l - 1]
      BY <1>1, <2>2, <3>2
    <3>. QED
      BY <1>2, <3>3, WeightsAre
  <2> HIDE DEF S
  <2>3. \A l \in Levels : l \in S
    BY <2>1, <2>2, Climbing
  <2>. QED
    BY <2>3 DEF S
<1>7. ASSUME NEW l \in Levels, ~ (l <= top \/ l = 5) PROVE node[l] = 0
  <2>1. l \in top .. 4 /\ l \in 0 .. 4 /\ top < 5
    BY <1>7 DEF Levels
  <2>2. node[l] = Left(p, i, l) % RadixOut(p)[l] /\ RadixOut(p)[l] = 1
    BY <1>1, <1>4, <1>5, <2>1, FieldsAre
  <2>3. PICK w \in Nat \ {0} : w = out[l]
    BY <1>3
  <2>4. PICK u \in Nat : u = Left(p, i, l)
    BY <1>2, <1>5, <2>3, Quotients DEF Left
  <2>5. u % 1 = 0
    OBVIOUS
  <2>. QED
    BY <2>2, <2>4, <2>5
<1>8. top < 5 => node[5] = 0
  <2>1. SUFFICES ASSUME top < 5 PROVE node[5] = 0
    OBVIOUS
  <2>2. PICK w \in Nat \ {0} : w = out[5]
    BY <1>3, LevelCases
  <2>3. NumNodes(p) = w
    <3>1. p.num_continents = 1
      BY <1>1, <2>1
    <3>. QED
      BY <1>2, <2>2, <3>1 DEF NumNodes
  <2>4. i < w
    BY <2>3
  <2>5. node[5] = i \div w
    BY <1>2, <1>4, <1>5, <2>2, FieldsAre DEF Left
  <2>6. (w * 0 + i) \div w = 0
    <3>1. 0 \in Nat /\ i \in 0 .. w - 1
      BY <1>5, <2>4
    <3>. QED
      BY <3>1, DivUnique
  <2>. QED
    BY <1>5, <2>5, <2>6
<1>9. ASSUME NEW l \in Levels PROVE node[l] * in[l] = Worth(p, i, l)
  <2>1. PICK a \in Nat, b \in Nat, d \in Nat : a = in[l] /\ b = out[l] /\ d = node[l]
    BY <1>3, <1>5 DEF Id
  <2>2. Worth(p, i, l) = d * b
    BY <1>2, <1>4, <2>1 DEF Worth
  <2>3. a = b \/ d = 0
    <3>1. CASE l <= top
      BY <1>6, <2>1, <3>1
    <3>2. CASE ~ (l <= top)
      <4>1. top < 5
        BY <3>2 DEF Levels
      <4>. QED
        BY <1>7, <1>8, <2>1, <3>2, <4>1
    <3>. QED
      BY <3>1, <3>2
  <2>4. d * a = d * b
    BY <2>3
  <2>. QED
    BY <2>1, <2>2, <2>4
<1>10. convert_ID_string_to_int(p, node) =
         Worth(p, i, 5) + Worth(p, i, 4) + Worth(p, i, 3) + Worth(p, i, 2) + Worth(p, i, 1) + Worth(p, i, 0)
  BY <1>2, <1>9, LevelCases DEF convert_ID_string_to_int
<1>. QED
  BY <1>4, <1>5, <1>10, SumOfFields

\* Every entry of a table carries the port its process listens on, when the two
\* functions that number the processes count the regions alike.
THEOREM PortsAlwaysMatch ==
  ASSUME \A p \in Parameters : SameRadixes(p)
  PROVE  BootSpec => []PortsMatch
<1>1. ASSUME TablesComputed PROVE PortsMatch
  <2>1. params \in Params /\ SameRadixes(params)
    BY <1>1, ParametersAssumption DEF TablesComputed
  <2>2. ASSUME NEW i \in 0 .. NumNodes(params) - 1
        PROVE  PortOf(params, convert_ID_int_to_string(params, i))
                 = (params.starting_port_number + i) % 2^16
    <3>1. convert_ID_string_to_int(params, convert_ID_int_to_string(params, i)) = i
      BY <2>1, ConvertBack
    <3>. QED
      BY <3>1 DEF PortOf
  <2>. QED
    BY <2>2 DEF PortsMatch
<1>2. TablesComputed => PortsMatch
  BY <1>1
<1>. QED
  BY <1>2, AlwaysComputed, PTL
===============================================================================
