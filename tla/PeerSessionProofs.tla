-------------------------- MODULE PeerSessionProofs --------------------------
(***************************************************************************)
(* Both ends of an established session, for any services and workload:     *)
(* a packet is handed to the protocol that sent it, every service is told  *)
(* of its stop once, and a silent remote is given up in time.              *)
(***************************************************************************)
EXTENDS PeerSession, SequenceTheorems, FiniteSetTheorems, WellFoundedInduction, TLAPS

-----------------------------------------------------------------------------
(* The services two nodes have in common.                                  *)

\* Every non-empty set of naturals has a least element.
LEMMA LeastNat ==
  ASSUME NEW T, T \subseteq Nat, T # {}
  PROVE  \E x \in T : \A y \in T : x <= y
<1>1. PICK x \in T : \A y \in T : ~ (<<y, x>> \in OpToRel(<, Nat))
  BY NatLessThanWellFounded, WFMin
<1>2. \A y \in T : ~ (y < x)
  BY <1>1 DEF OpToRel
<1>. QED
  BY <1>2

\* How many members of S come before x.
Rank(S, x) == Cardinality({y \in S : y < x})

LEMMA RankGrows ==
  ASSUME NEW S, S \subseteq Nat, IsFiniteSet(S), NEW x \in S, NEW y \in S, x < y
  PROVE  Rank(S, x) \in Nat /\ Rank(S, y) \in Nat /\ Rank(S, x) < Rank(S, y)
<1> DEFINE A == {z \in S : z < x}
           B == {z \in S : z < y}
<1>1. IsFiniteSet(A) /\ IsFiniteSet(B)
  BY FS_Subset
<1>2. A \subseteq B /\ x \in B /\ x \notin A
  <2>1. \A z \in S : z \in Nat
    OBVIOUS
  <2>2. \A z \in S : z < x => z < y
    BY <2>1
  <2>3. x \in Nat /\ ~ (x < x)
    BY <2>1
  <2>. QED
    BY <2>2, <2>3
<1>3. Cardinality(A) \in Nat /\ Cardinality(B) \in Nat
  BY <1>1, FS_CardinalityType
<1>4. Cardinality(A) <= Cardinality(B) /\ Cardinality(B) # Cardinality(A)
  <2> HIDE DEF A, B
  <2>. QED
    BY <1>1, <1>2, FS_Subset
<1>. QED
  BY <1>3, <1>4 DEF Rank

\* The ranks in a set of n are 0 to n - 1, each of them once.
LEMMA Ranks ==
  ASSUME NEW S, S \subseteq Nat, IsFiniteSet(S)
  PROVE  /\ Cardinality(S) \in Nat
         /\ \A i \in 1 .. Cardinality(S) : \E x \in S : Rank(S, x) = i - 1
<1> DEFINE n == Cardinality(S)
           f == [x \in S |-> Rank(S, x)]
<1>1. n \in Nat
  BY FS_CardinalityType
<1>2. ASSUME NEW x \in S PROVE Rank(S, x) \in 0 .. n - 1
  <2> DEFINE A == {z \in S : z < x}
  <2>1. A \subseteq S /\ x \notin A
    OBVIOUS
  <2>2. IsFiniteSet(A) /\ Cardinality(A) \in Nat
    BY <2>1, FS_Subset, FS_CardinalityType
  <2>3. Cardinality(A) <= n /\ Cardinality(A) # n
    <3> HIDE DEF A
    <3>. QED
      BY <2>1, FS_Subset
  <2>. QED
    BY <1>1, <2>2, <2>3 DEF Rank
<1>3. f \in Injection(S, 0 .. n - 1)
  <2>1. f \in [S -> 0 .. n - 1]
    BY <1>2
  <2>2. ASSUME NEW x \in S, NEW y \in S, f[x] = f[y] PROVE x = y
    <3>1. Rank(S, x) \in Nat /\ Rank(S, x) = Rank(S, y)
      BY <1>1, <1>2, <2>2
    <3>2. x < y => Rank(S, x) < Rank(S, y)
      BY RankGrows
    <3>3. y < x => Rank(S, y) < Rank(S, x)
      BY RankGrows
    <3>. QED
      BY <3>1, <3>2, <3>3
  <2>. QED
    BY <2>1, <2>2 DEF Injection, IsInjective
<1>4. IsFiniteSet(0 .. n - 1) /\ Cardinality(0 .. n - 1) = n
  <2>1. 0 \in Int /\ n - 1 \in Int /\ (IF 0 > n - 1 THEN 0 ELSE n - 1 - 0 + 1) = n
    BY <1>1
  <2>. QED
    BY <2>1, FS_Interval
<1>5. f \in Surjection(S, 0 .. n - 1)
  <2> HIDE DEF f
  <2>. QED
    BY <1>3, <1>4, FS_Injection
<1>6. ASSUME NEW i \in 1 .. n PROVE \E x \in S : Rank(S, x) = i - 1
  <2>1. i - 1 \in 0 .. n - 1
    BY <1>1
  <2>2. PICK x \in S : f[x] = i - 1
    BY <1>5, <2>1 DEF Surjection
  <2>. QED
    BY <2>2
<1>. QED
  BY <1>1, <1>6

Offered == [name : Services, version : Nat]

\* Both ends connect the same services in the same, ascending order.
LEMMA CommonSorted ==
  ASSUME NEW mine \in Seq(Offered), NEW theirs \in Seq(Offered)
  PROVE  /\ Common(mine, theirs) \in Seq(Services)
         /\ Common(theirs, mine) = Common(mine, theirs)
         /\ \A i, j \in 1 .. Len(Common(mine, theirs)) :
              i < j => Common(mine, theirs)[i] < Common(mine, theirs)[j]
<1> DEFINE S == {s.name : s \in ToSet(mine) \cap ToSet(theirs)}
           n == Cardinality(S)
           C == Common(mine, theirs)
<1>1. S \subseteq Services
  <2>1. \A s \in ToSet(mine) : s \in Offered
    BY DEF ToSet
  <2>2. \A s \in Offered : s.name \in Services
    BY DEF Offered
  <2>. QED
    BY <2>1, <2>2
<1>2. S \subseteq Nat /\ IsFiniteSet(S)
  BY <1>1, PeerAssumption, FS_Subset
<1>3. C = [i \in 1 .. n |-> CHOOSE x \in S : Rank(S, x) = i - 1]
  BY DEF Common, Rank
<1>4. S = {s.name : s \in ToSet(theirs) \cap ToSet(mine)}
  OBVIOUS
<1>5. Common(theirs, mine) = C
  <2>1. Common(theirs, mine)
        = [i \in 1 .. Cardinality({s.name : s \in ToSet(theirs) \cap ToSet(mine)}) |->
             CHOOSE x \in {s.name : s \in ToSet(theirs) \cap ToSet(mine)} :
               Rank({s.name : s \in ToSet(theirs) \cap ToSet(mine)}, x) = i - 1]
    BY DEF Common, Rank
  <2> HIDE DEF S, C
  <2>. QED
    BY <1>3, <1>4, <2>1
<1> HIDE DEF S, C
<1>6. n \in Nat /\ \A i \in 1 .. n : C[i] \in S /\ Rank(S, C[i]) = i - 1
  BY <1>2, <1>3, Ranks
<1>7. C \in Seq(Services) /\ Len(C) = n
  BY <1>1, <1>3, <1>6
<1>8. ASSUME NEW i \in 1 .. n, NEW j \in 1 .. n, i < j PROVE C[i] < C[j]
  <2>1. C[i] \in Nat /\ C[j] \in Nat
    BY <1>2, <1>6
  <2>2. ~ (C[j] < C[i]) /\ C[i] # C[j]
    <3>1. Rank(S, C[i]) < Rank(S, C[j])
      BY <1>6, <1>8
    <3>2. Rank(S, C[i]) \in Nat /\ Rank(S, C[j]) \in Nat
      BY <1>6
    <3>3. C[j] < C[i] => Rank(S, C[j]) < Rank(S, C[i])
      BY <1>2, <1>6, RankGrows
    <3>. QED
      BY <3>1, <3>2, <3>3
  <2>. QED
    BY <2>1, <2>2
<1>. QED
  BY <1>5, <1>7, <1>8 DEF C

-----------------------------------------------------------------------------
(* Command offsets.                                                        *)

Protos == Services \cup {P2P}

LEMMA ProtoTypes ==
  /\ P2P \notin Services /\ Unknown.proto \notin Protos
  /\ \A p \in Protos : p \in Nat /\ MaxCmdId(p) \in Nat
  /\ MaxCmdId(P2P) = 15 /\ \A p \in Services : MaxCmdId(p) = MaxCmd[p]
BY PeerAssumption DEF Protos, P2P, Unknown, MaxCmdId

\* f sums the first members of g.
IsSum(f, g, n) == f = [i \in 0 .. n |-> IF i = 0 THEN 0 ELSE f[i - 1] + g[i]]

\* There are sums of any number of members: those of the least number without
\* would be those of one member less, and one more.
LEMMA SumsExist ==
  ASSUME NEW g, NEW n \in Nat
  PROVE  \E f : IsSum(f, g, n)
<1> DEFINE T == {k \in Nat : ~ \E f : IsSum(f, g, k)}
<1> SUFFICES ASSUME T # {} PROVE FALSE
  OBVIOUS
<1>1. PICK k \in T : \A y \in T : k <= y
  BY LeastNat
<1>2. CASE k = 0
  <2> DEFINE f == [i \in 0 .. 0 |-> 0]
  <2>1. f = [i \in 0 .. 0 |-> IF i = 0 THEN 0 ELSE f[i - 1] + g[i]]
    OBVIOUS
  <2>. QED
    BY <1>2, <2>1 DEF IsSum
<1>3. CASE k # 0
  <2>1. k - 1 \in Nat /\ k - 1 \notin T
    BY <1>1, <1>3
  <2>2. PICK f : IsSum(f, g, k - 1)
    BY <2>1
  <2> DEFINE h == [i \in 0 .. k |-> IF i = k THEN f[k - 1] + g[k] ELSE f[i]]
  <2>3. \A i \in 0 .. k - 1 : f[i] = IF i = 0 THEN 0 ELSE f[i - 1] + g[i]
    BY <2>1, <2>2 DEF IsSum
  <2>4. \A i \in 0 .. k - 1 : h[i] = f[i]
    BY <2>1
  <2>5. ASSUME NEW i \in 0 .. k
        PROVE  h[i] = IF i = 0 THEN 0 ELSE h[i - 1] + g[i]
    <3>1. CASE i = k
      <4>1. h[i] = f[k - 1] + g[k] /\ k - 1 \in 0 .. k - 1
        BY <2>1, <3>1
      <4>. QED
        BY <1>3, <2>4, <3>1, <4>1
    <3>2. CASE i # k
      <4>1. i \in 0 .. k - 1 /\ (i # 0 => i - 1 \in 0 .. k - 1)
        BY <2>1, <3>2
      <4> HIDE DEF h
      <4>. QED
        BY <2>3, <2>4, <4>1
    <3>. QED
      BY <3>1, <3>2
  <2>6. h = [i \in 0 .. k |-> h[i]]
    OBVIOUS
  <2> HIDE DEF h
  <2>7. IsSum(h, g, k)
    BY <2>5, <2>6 DEF IsSum
  <2>. QED
    BY <1>1, <2>7
<1>. QED
  BY <1>2, <1>3

\* What the sums of naturals are.
LEMMA SumTypes ==
  ASSUME NEW f, NEW g, NEW n \in Nat, IsSum(f, g, n), \A i \in 1 .. n : g[i] \in Nat
  PROVE  /\ f[0] = 0
         /\ \A i \in 0 .. n : f[i] \in Nat
         /\ \A i \in 1 .. n : f[i] = f[i - 1] + g[i]
         /\ \A i, j \in 0 .. n : i <= j => f[i] <= f[j]
<1>1. \A i \in 0 .. n : f[i] = IF i = 0 THEN 0 ELSE f[i - 1] + g[i]
  BY DEF IsSum
<1>2. f[0] = 0 /\ \A i \in 1 .. n : f[i] = f[i - 1] + g[i]
  BY <1>1
<1>3. \A i \in 0 .. n : f[i] \in Nat
  <2> DEFINE T == {i \in 0 .. n : f[i] \notin Nat}
  <2> SUFFICES ASSUME T # {} PROVE FALSE
    OBVIOUS
  <2>1. T \subseteq Nat
    OBVIOUS
  <2>2. PICK i \in T : \A y \in T : i <= y
    BY <2>1, LeastNat
  <2>3. i # 0
    BY <1>2, <2>2
  <2>4. i \in 1 .. n /\ i - 1 \in 0 .. n /\ i - 1 \notin T
    BY <2>2, <2>3
  <2>5. f[i - 1] \in Nat /\ g[i] \in Nat
    BY <2>4
  <2>. QED
    BY <1>2, <2>2, <2>4, <2>5
<1>4. \A i, j \in 0 .. n : i <= j => f[i] <= f[j]
  <2> DEFINE T == {j \in 0 .. n : \E i \in 0 .. n : i <= j /\ ~ (f[i] <= f[j])}
  <2> SUFFICES ASSUME T # {} PROVE FALSE
    OBVIOUS
  <2>1. T \subseteq Nat
    OBVIOUS
  <2>2. PICK j \in T : \A y \in T : j <= y
    BY <2>1, LeastNat
  <2>3. PICK i \in 0 .. n : i <= j /\ ~ (f[i] <= f[j])
    BY <2>2
  <2>4. i # j
    BY <1>3, <2>2, <2>3
  <2>5. j \in 1 .. n /\ j - 1 \in 0 .. n /\ i <= j - 1 /\ j - 1 \notin T
    BY <2>2, <2>3, <2>4
  <2>6. f[i] <= f[j - 1]
    BY <2>5
  <2>7. f[j] = f[j - 1] + g[j] /\ g[j] \in Nat
    BY <1>2, <2>5
  <2>. QED
    BY <1>3, <2>2, <2>3, <2>5, <2>6, <2>7
<1>. QED
  BY <1>2, <1>3, <1>4

\* protocol_cmd_id_from_packet: the commands of a protocol follow those of the
\* protocols before it.
LEMMA RecvOffsets ==
  ASSUME NEW ps \in Seq(Protos)
  PROVE  \E f : /\ \A k : RecvOffset(ps, k) = f[k - 1]
                /\ IsSum(f, [i \in 1 .. Len(ps) |-> MaxCmdId(ps[i]) + 1], Len(ps))
<1> DEFINE n == Len(ps)
           g == [i \in 1 .. n |-> MaxCmdId(ps[i]) + 1]
           Is(f) == f = [k \in 0 .. Len(ps) |-> IF k = 0 THEN 0 ELSE f[k - 1] + (MaxCmdId(ps[k]) + 1)]
           F == CHOOSE f : Is(f)
<1>1. n \in Nat
  OBVIOUS
<1>2. PICK h : IsSum(h, g, n)
  BY <1>1, SumsExist
<1>3. \A f : IsSum(f, g, n) <=> Is(f)
  <2>1. \A i \in 0 .. n : i = 0 \/ i \in 1 .. n
    BY <1>1
  <2>2. \A f : \A i \in 0 .. n : (IF i = 0 THEN 0 ELSE f[i - 1] + g[i])
                              = IF i = 0 THEN 0 ELSE f[i - 1] + (MaxCmdId(ps[i]) + 1)
    BY <2>1
  <2>3. ASSUME NEW f
        PROVE  [i \in 0 .. n |-> IF i = 0 THEN 0 ELSE f[i - 1] + g[i]]
               = [i \in 0 .. n |-> IF i = 0 THEN 0 ELSE f[i - 1] + (MaxCmdId(ps[i]) + 1)]
    BY <2>2
  <2>. QED
    BY <2>3 DEF IsSum
<1>4. Is(F)
  BY <1>2, <1>3
<1>5. \A k : RecvOffset(ps, k) = F[k - 1]
  BY DEF RecvOffset
<1> HIDE DEF F
<1>. QED
  BY <1>3, <1>4, <1>5

\* send_packet moves a command behind the protocols before its own, of which
\* those without commands take no room.
Space(p) == IF MaxCmdId(p) = 0 THEN 0 ELSE MaxCmdId(p) + 1

LEMMA SendOffsets ==
  ASSUME NEW ps \in Seq(Protos)
  PROVE  \E f : /\ \A p : SendOffset(ps, p) = f[Before(ps, p)]
                /\ IsSum(f, [i \in 1 .. Len(ps) |-> Space(ps[i])], Len(ps))
<1> DEFINE n == Len(ps)
           g == [i \in 1 .. n |-> Space(ps[i])]
           Is(f) == f = [i \in 0 .. Len(ps) |-> IF i = 0 THEN 0 ELSE f[i - 1] + Space(ps[i])]
           F == CHOOSE f : Is(f)
<1>1. n \in Nat
  OBVIOUS
<1>2. PICK h : IsSum(h, g, n)
  BY <1>1, SumsExist
<1>3. \A f : IsSum(f, g, n) <=> Is(f)
  <2>1. \A i \in 0 .. n : i = 0 \/ i \in 1 .. n
    BY <1>1
  <2>2. \A f : \A i \in 0 .. n : (IF i = 0 THEN 0 ELSE f[i - 1] + g[i])
                              = IF i = 0 THEN 0 ELSE f[i - 1] + Space(ps[i])
    BY <2>1
  <2>3. ASSUME NEW f
        PROVE  [i \in 0 .. n |-> IF i = 0 THEN 0 ELSE f[i - 1] + g[i]]
               = [i \in 0 .. n |-> IF i = 0 THEN 0 ELSE f[i - 1] + Space(ps[i])]
    BY <2>2
  <2>. QED
    BY <2>3 DEF IsSum
<1>4. Is(F)
  BY <1>2, <1>3
<1>5. \A p : SendOffset(ps, p) = F[Before(ps, p)]
  BY DEF SendOffset, Space
<1> HIDE DEF F
<1>. QED
  BY <1>3, <1>4, <1>5

\* Where a protocol is in a list without repetition.
LEMMA BeforeIs ==
  ASSUME NEW ps \in Seq(Protos), NEW i \in 1 .. Len(ps),
         \A j \in 1 .. Len(ps) : ps[j] = ps[i] => j = i
  PROVE  Before(ps, ps[i]) = i - 1
<1> DEFINE I == {j \in 1 .. Len(ps) : ps[j] = ps[i]}
<1>1. I = {i}
  OBVIOUS
<1>2. SelectInSeq(ps, LAMBDA q : q = ps[i]) = IF I # {} THEN Min(I) ELSE 0
  BY DEF SelectInSeq
<1>3. Min({i}) = i
  BY DEF Min
<1>. QED
  BY <1>1, <1>2, <1>3 DEF Before

\* Sums of the same numbers are the same.
LEMMA SumsAgree ==
  ASSUME NEW f, NEW g, NEW h, NEW k, NEW n \in Nat, IsSum(f, g, n), IsSum(h, k, n),
         NEW m \in 0 .. n, \A i \in 1 .. m : g[i] = k[i]
  PROVE  f[m] = h[m]
<1> DEFINE T == {i \in 0 .. m : f[i] # h[i]}
<1>1. /\ \A i \in 0 .. n : f[i] = IF i = 0 THEN 0 ELSE f[i - 1] + g[i]
      /\ \A i \in 0 .. n : h[i] = IF i = 0 THEN 0 ELSE h[i - 1] + k[i]
  BY DEF IsSum
<1>2. T = {}
  <2> SUFFICES ASSUME T # {} PROVE FALSE
    OBVIOUS
  <2>1. T \subseteq Nat
    OBVIOUS
  <2>2. PICK i \in T : \A y \in T : i <= y
    BY <2>1, LeastNat
  <2>3. i \in 0 .. n /\ f[i] # h[i] /\ i # 0
    BY <1>1, <2>2
  <2>4. i \in 1 .. m /\ i - 1 \in 0 .. m /\ i - 1 \notin T
    BY <2>2, <2>3
  <2>5. f[i - 1] = h[i - 1] /\ g[i] = k[i]
    BY <2>4
  <2>. QED
    BY <1>1, <2>3, <2>5
<1>. QED
  BY <1>2

\* The protocols of a peer: P2P, and the common services in ascending order.
IsList(ps) ==
  /\ ps \in Seq(Protos) /\ Len(ps) >= 1 /\ ps[1] = P2P
  /\ \A i \in 2 .. Len(ps) : ps[i] \in Services
  /\ \A i, j \in 1 .. Len(ps) : i < j => ps[i] < ps[j]

LEMMA Lists ==
  ASSUME NEW C \in Seq(Services), \A i, j \in 1 .. Len(C) : i < j => C[i] < C[j]
  PROVE  /\ IsList(<<P2P>>) /\ IsList(<<P2P>> \o C)
         /\ ToSet(<<P2P>>) = {P2P} /\ ToSet(<<P2P>> \o C) = {P2P} \cup ToSet(C)
<1> DEFINE one == <<P2P>>
           ps == one \o C
<1>1. one \in Seq(Protos) /\ Len(one) = 1 /\ one[1] = P2P /\ C \in Seq(Protos) /\ Len(C) \in Nat
  BY DEF Protos
<1>2. /\ ps \in Seq(Protos) /\ Len(ps) = 1 + Len(C)
      /\ \A i \in 1 .. 1 + Len(C) : ps[i] = IF i <= 1 THEN one[i] ELSE C[i - 1]
  BY <1>1, ConcatProperties
<1>3. DOMAIN one = {1} /\ DOMAIN C = 1 .. Len(C) /\ DOMAIN ps = 1 .. 1 + Len(C)
  BY <1>1, <1>2
<1> HIDE DEF one, ps
<1>4. ps[1] = P2P /\ \A i \in 2 .. 1 + Len(C) : i - 1 \in 1 .. Len(C) /\ ps[i] = C[i - 1]
  BY <1>1, <1>2
<1>5. \A i \in 1 .. Len(C) : C[i] \in Services /\ C[i] \in Nat /\ C[i] > 0
  <2>1. \A p \in Services : p \in Nat /\ p > 0
    BY PeerAssumption
  <2>2. \A i \in 1 .. Len(C) : C[i] \in Services
    BY ElementOfSeq
  <2>. QED
    BY <2>1, <2>2
<1>6. ASSUME NEW i \in 1 .. Len(ps), NEW j \in 1 .. Len(ps), i < j PROVE ps[i] < ps[j]
  <2>1. j \in 2 .. 1 + Len(C) /\ j - 1 \in 1 .. Len(C) /\ ps[j] = C[j - 1]
    BY <1>1, <1>2, <1>4, <1>6
  <2>2. CASE i = 1
    BY <1>4, <1>5, <2>1, <2>2 DEF P2P
  <2>3. CASE i # 1
    <3>1. i - 1 \in 1 .. Len(C) /\ ps[i] = C[i - 1] /\ i - 1 < j - 1
      BY <1>1, <1>2, <1>4, <1>6, <2>3
    <3>. QED
      BY <2>1, <3>1
  <2>. QED
    BY <2>2, <2>3
<1>7. IsList(ps)
  <2>1. \A i \in 2 .. Len(ps) : ps[i] \in Services
    BY <1>1, <1>2, <1>4, <1>5
  <2>. QED
    BY <1>1, <1>2, <1>4, <1>6, <2>1 DEF IsList
<1>8. IsList(one)
  BY <1>1 DEF IsList
<1>9. ToSet(one) = {P2P}
  BY <1>1, <1>3 DEF ToSet
<1>10. ToSet(ps) = {P2P} \cup ToSet(C)
  <2>1. ASSUME NEW p \in ToSet(ps) PROVE p \in {P2P} \cup ToSet(C)
    <3>1. PICK i \in 1 .. 1 + Len(C) : p = ps[i]
      BY <1>3, <2>1 DEF ToSet
    <3>2. i = 1 \/ i \in 2 .. 1 + Len(C)
      BY <1>1
    <3>. QED
      BY <1>3, <1>4, <3>1, <3>2 DEF ToSet
  <2>2. ASSUME NEW p \in ToSet(C) PROVE p \in ToSet(ps)
    <3>1. PICK i \in 1 .. Len(C) : p = C[i]
      BY <1>3, <2>2 DEF ToSet
    <3>2. i + 1 \in 2 .. 1 + Len(C) /\ i + 1 \in 1 .. 1 + Len(C) /\ (i + 1) - 1 = i
      BY <1>1
    <3>3. ps[i + 1] = p
      BY <1>4, <3>1, <3>2
    <3>. QED
      BY <1>3, <3>2, <3>3 DEF ToSet
  <2>3. P2P \in ToSet(ps)
    <3>1. 1 \in 1 .. 1 + Len(C)
      BY <1>1
    <3>. QED
      BY <1>3, <1>4, <3>1 DEF ToSet
  <2>. QED
    BY <2>1, <2>2, <2>3
<1>. QED
  BY <1>7, <1>8, <1>9, <1>10 DEF one, ps

\* A protocol is in a list once.
LEMMA ListBefore ==
  ASSUME NEW ps, IsList(ps), NEW i \in 1 .. Len(ps)
  PROVE  Before(ps, ps[i]) = i - 1
<1>1. ps \in Seq(Protos) /\ Len(ps) \in Nat
  BY DEF IsList
<1>2. ASSUME NEW j \in 1 .. Len(ps), ps[j] = ps[i] PROVE j = i
  <2>1. ps[i] \in Nat
    BY <1>1, ProtoTypes, ElementOfSeq
  <2>2. ~ (j < i) /\ ~ (i < j)
    BY <1>2, <2>1 DEF IsList
  <2>. QED
    BY <1>1, <2>2
<1>. QED
  BY <1>1, <1>2, BeforeIs

\* The receiver's offsets in a list, and what fits below them.
LEMMA ListRecv ==
  ASSUME NEW ps, IsList(ps)
  PROVE  /\ RecvOffset(ps, 1) = 0
         /\ \A i \in 1 .. Len(ps) + 1 : RecvOffset(ps, i) \in Nat
         /\ \A i \in 1 .. Len(ps) : RecvOffset(ps, i + 1) = RecvOffset(ps, i) + (MaxCmdId(ps[i]) + 1)
         /\ \A i, j \in 1 .. Len(ps) + 1 : i <= j => RecvOffset(ps, i) <= RecvOffset(ps, j)
<1> DEFINE n == Len(ps)
           g == [i \in 1 .. n |-> MaxCmdId(ps[i]) + 1]
<1>1. ps \in Seq(Protos) /\ n \in Nat
  BY DEF IsList
<1>2. PICK f : (\A k : RecvOffset(ps, k) = f[k - 1]) /\ IsSum(f, g, n)
  BY <1>1, RecvOffsets
<1>3. \A i \in 1 .. n : g[i] = MaxCmdId(ps[i]) + 1 /\ g[i] \in Nat
  BY <1>1, ProtoTypes, ElementOfSeq
<1> HIDE DEF g
<1>4. /\ f[0] = 0
      /\ \A i \in 0 .. n : f[i] \in Nat
      /\ \A i \in 1 .. n : f[i] = f[i - 1] + g[i]
      /\ \A i, j \in 0 .. n : i <= j => f[i] <= f[j]
  BY <1>1, <1>2, <1>3, SumTypes
<1>5. RecvOffset(ps, 1) = 0
  <2>1. RecvOffset(ps, 1) = f[1 - 1] /\ 1 - 1 = 0
    BY <1>2
  <2>. QED
    BY <1>4, <2>1
<1>6. ASSUME NEW i \in 1 .. n + 1 PROVE RecvOffset(ps, i) = f[i - 1] /\ f[i - 1] \in Nat /\ i - 1 \in 0 .. n
  BY <1>1, <1>2, <1>4
<1>7. ASSUME NEW i \in 1 .. n PROVE RecvOffset(ps, i + 1) = RecvOffset(ps, i) + (MaxCmdId(ps[i]) + 1)
  <2>1. RecvOffset(ps, i + 1) = f[(i + 1) - 1] /\ RecvOffset(ps, i) = f[i - 1] /\ (i + 1) - 1 = i
    BY <1>2
  <2>. QED
    BY <1>3, <1>4, <2>1
<1>8. ASSUME NEW i \in 1 .. n + 1, NEW j \in 1 .. n + 1, i <= j
      PROVE  RecvOffset(ps, i) <= RecvOffset(ps, j)
  <2>1. i - 1 <= j - 1
    BY <1>1, <1>8
  <2>. QED
    BY <1>4, <1>6, <2>1
<1>. QED
  BY <1>5, <1>6, <1>7, <1>8

\* P2P sends at its own command ids, a service behind them.
LEMMA ListSend ==
  ASSUME NEW ps, IsList(ps)
  PROVE  /\ SendOffset(ps, P2P) = 0
         /\ \A i \in 2 .. Len(ps) : SendOffset(ps, ps[i]) \in Nat /\ SendOffset(ps, ps[i]) >= 16
<1> DEFINE n == Len(ps)
           g == [i \in 1 .. n |-> Space(ps[i])]
<1>1. ps \in Seq(Protos) /\ n \in Nat /\ n >= 1 /\ ps[1] = P2P
  BY DEF IsList
<1>2. PICK f : (\A p : SendOffset(ps, p) = f[Before(ps, p)]) /\ IsSum(f, g, n)
  BY <1>1, SendOffsets
<1>3. \A i \in 1 .. n : g[i] = Space(ps[i]) /\ g[i] \in Nat
  <2>1. \A i \in 1 .. n : MaxCmdId(ps[i]) \in Nat
    BY <1>1, ProtoTypes, ElementOfSeq
  <2>. QED
    BY <2>1 DEF Space
<1> HIDE DEF g
<1>4. /\ f[0] = 0
      /\ \A i \in 0 .. n : f[i] \in Nat
      /\ \A i \in 1 .. n : f[i] = f[i - 1] + g[i]
      /\ \A i, j \in 0 .. n : i <= j => f[i] <= f[j]
  BY <1>1, <1>2, <1>3, SumTypes
<1>5. \A i \in 1 .. n : SendOffset(ps, ps[i]) = f[i - 1]
  BY <1>2, ListBefore
<1>6. f[1] = 16
  <2>1. g[1] = 16
    BY <1>1, <1>3, ProtoTypes DEF Space
  <2>2. f[1] = f[1 - 1] + g[1]
    BY <1>1, <1>4
  <2>. QED
    BY <1>4, <2>1, <2>2
<1>7. SendOffset(ps, P2P) = 0
  <2>1. SendOffset(ps, ps[1]) = f[1 - 1] /\ 1 - 1 = 0
    BY <1>1, <1>5
  <2>. QED
    BY <1>1, <1>4, <2>1
<1>8. ASSUME NEW i \in 2 .. n PROVE SendOffset(ps, ps[i]) \in Nat /\ SendOffset(ps, ps[i]) >= 16
  <2>1. i \in 1 .. n /\ i - 1 \in 0 .. n /\ 1 \in 0 .. n /\ 1 <= i - 1
    BY <1>1
  <2>2. SendOffset(ps, ps[i]) = f[i - 1] /\ f[i - 1] \in Nat /\ f[1] <= f[i - 1]
    BY <1>4, <1>5, <2>1
  <2>. QED
    BY <1>6, <2>2
<1>. QED
  BY <1>7, <1>8

\* Only the last service in the order of names may have no command.
LastMayBeEmpty == \A p, q \in Services : MaxCmd[p] = 0 => q <= p

\* Then both ends agree on where a protocol's commands begin.
LEMMA SameOffset ==
  ASSUME LastMayBeEmpty, NEW ps, IsList(ps), NEW i \in 1 .. Len(ps)
  PROVE  SendOffset(ps, ps[i]) = RecvOffset(ps, i)
<1> DEFINE n == Len(ps)
           g == [k \in 1 .. n |-> Space(ps[k])]
           h == [k \in 1 .. n |-> MaxCmdId(ps[k]) + 1]
<1>1. ps \in Seq(Protos) /\ n \in Nat /\ i - 1 \in 0 .. n
  BY DEF IsList
<1>2. PICK f : (\A p : SendOffset(ps, p) = f[Before(ps, p)]) /\ IsSum(f, g, n)
  BY <1>1, SendOffsets
<1>3. PICK r : (\A k : RecvOffset(ps, k) = r[k - 1]) /\ IsSum(r, h, n)
  BY <1>1, RecvOffsets
<1>4. ASSUME NEW k \in 1 .. i - 1 PROVE g[k] = h[k]
  <2>1. k \in 1 .. n /\ k < i
    BY <1>1
  <2>2. MaxCmdId(ps[k]) # 0
    <3>1. ps[k] < ps[i]
      BY <2>1 DEF IsList
    <3>2. CASE k = 1
      BY <3>2, ProtoTypes DEF IsList
    <3>3. CASE k # 1
      <4>1. ps[k] \in Services /\ ps[i] \in Services
        BY <1>1, <2>1, <3>3 DEF IsList
      <4>2. ps[k] \in Nat /\ ps[i] \in Nat
        BY <4>1, PeerAssumption
      <4>. QED
        BY <3>1, <4>1, <4>2, ProtoTypes DEF LastMayBeEmpty
    <3>. QED
      BY <3>2, <3>3
  <2>. QED
    BY <2>1, <2>2 DEF Space
<1> HIDE DEF g, h
<1>5. f[i - 1] = r[i - 1]
  BY <1>1, <1>2, <1>3, <1>4, SumsAgree
<1>. QED
  BY <1>2, <1>3, <1>5, ListBefore

-----------------------------------------------------------------------------
(* Packets, and what they are taken for.                                   *)

Shared == Common(offer["dialler"], offer["listener"])
Full == <<P2P>> \o Shared
ByOffset == version <= compatible_p2p_version

ControlPacket(c) == [proto |-> P2P, cmd |-> c, protocol_id |-> P2P, cmd_id |-> c]
ControlPackets == {ControlPacket(c) : c \in Hello .. Pong}

\* All that services may send, from either end.
ServicePacket(pk) ==
  \E i \in 2 .. Len(Full) : \E c \in 0 .. MaxCmd[Full[i]] :
    pk = send_packet(Full, ByOffset, Full[i], c)

RawPackets == [proto : Nat, cmd : Nat, protocol_id : Nat, cmd_id : Nat]
ServicePackets == {pk \in RawPackets : ServicePacket(pk)}
Packets == ControlPackets \cup ServicePackets

LEMMA ControlSent ==
  ASSUME NEW ps, IsList(ps), NEW b \in BOOLEAN, NEW c \in Hello .. Pong
  PROVE  send_packet(ps, b, P2P, c) = ControlPacket(c)
<1>1. c + SendOffset(ps, P2P) = c
  BY ListSend DEF Hello, Pong
<1>. QED
  BY <1>1 DEF send_packet, ControlPacket

LEMMA ServiceSent ==
  ASSUME IsList(Full), NEW p \in ToSet(Full) \ {P2P}, NEW c \in 0 .. MaxCmd[p]
  PROVE  send_packet(Full, ByOffset, p, c) \in ServicePackets
<1>1. Full \in Seq(Protos) /\ Len(Full) \in Nat
  BY DEF IsList
<1>2. PICK i \in 1 .. Len(Full) : p = Full[i]
  BY <1>1 DEF ToSet
<1>3. i \in 2 .. Len(Full) /\ p \in Services
  BY <1>1, <1>2 DEF IsList
<1>4. SendOffset(Full, p) \in Nat /\ p \in Nat /\ c \in Nat
  BY <1>2, <1>3, ListSend, PeerAssumption
<1>5. send_packet(Full, ByOffset, p, c) \in RawPackets
  BY <1>4 DEF send_packet, RawPackets, P2P
<1>. QED
  BY <1>2, <1>3, <1>5 DEF ServicePackets, ServicePacket

Fits(ps, b, pk, i) ==
  IF b THEN pk.cmd_id < RecvOffset(ps, i) + MaxCmdId(ps[i]) + 1 ELSE pk.protocol_id = ps[i]

\* A packet is taken for a command of the first protocol it fits.
LEMMA Taken ==
  ASSUME NEW ps, IsList(ps), NEW b \in BOOLEAN, NEW pk, NEW to,
         to = protocol_cmd_id_from_packet(ps, b, pk)
  PROVE  \/ to = Unknown /\ \A i \in 1 .. Len(ps) : ~ Fits(ps, b, pk, i)
         \/ \E i \in 1 .. Len(ps) :
              /\ Fits(ps, b, pk, i) /\ \A j \in 1 .. i - 1 : ~ Fits(ps, b, pk, j)
              /\ to = [proto |-> ps[i], cmd |-> pk.cmd_id - (IF b THEN RecvOffset(ps, i) ELSE 0)]
<1> DEFINE fits == {i \in DOMAIN ps : Fits(ps, b, pk, i)}
           first == CHOOSE i \in fits : \A j \in fits : i <= j
<1>1. DOMAIN ps = 1 .. Len(ps) /\ Len(ps) \in Nat
  BY DEF IsList
<1>2. to = IF fits = {} THEN Unknown
           ELSE [proto |-> ps[first], cmd |-> pk.cmd_id - (IF b THEN RecvOffset(ps, first) ELSE 0)]
  BY DEF protocol_cmd_id_from_packet, Fits
<1>3. CASE fits = {}
  BY <1>1, <1>2, <1>3
<1>4. CASE fits # {}
  <2>1. fits \subseteq Nat
    BY <1>1
  <2>2. \E i \in fits : \A j \in fits : i <= j
    BY <1>4, <2>1, LeastNat
  <2>3. first \in fits /\ \A j \in fits : first <= j
    BY <2>2
  <2> HIDE DEF first
  <2>4. first \in 1 .. Len(ps) /\ Fits(ps, b, pk, first)
    BY <1>1, <2>3
  <2>5. ASSUME NEW j \in 1 .. first - 1 PROVE ~ Fits(ps, b, pk, j)
    <3>1. j \in DOMAIN ps /\ ~ (first <= j)
      BY <1>1, <2>4
    <3>. QED
      BY <2>3, <3>1
  <2>. QED
    BY <1>2, <1>4, <2>4, <2>5
<1>. QED
  BY <1>3, <1>4

\* The commands of P2P are recognised whatever list the receiver has.
LEMMA ControlTaken ==
  ASSUME NEW ps, IsList(ps), NEW b \in BOOLEAN, NEW c \in Hello .. Pong
  PROVE  protocol_cmd_id_from_packet(ps, b, ControlPacket(c)) = [proto |-> P2P, cmd |-> c]
<1> DEFINE pk == ControlPacket(c)
           to == protocol_cmd_id_from_packet(ps, b, pk)
<1>1. pk.cmd_id = c /\ pk.protocol_id = P2P /\ c \in Nat /\ c <= 3
  BY DEF ControlPacket, Hello, Pong
<1>2. ps[1] = P2P /\ 1 \in 1 .. Len(ps) /\ RecvOffset(ps, 1) = 0 /\ MaxCmdId(P2P) = 15
  BY ListRecv, ProtoTypes DEF IsList
<1> HIDE DEF pk
<1>3. Fits(ps, b, pk, 1)
  BY <1>1, <1>2 DEF Fits
<1>4. PICK i \in 1 .. Len(ps) :
        /\ \A j \in 1 .. i - 1 : ~ Fits(ps, b, pk, j)
        /\ to = [proto |-> ps[i], cmd |-> pk.cmd_id - (IF b THEN RecvOffset(ps, i) ELSE 0)]
  BY <1>2, <1>3, Taken
<1>5. i = 1
  BY <1>3, <1>4
<1>6. c - (IF b THEN RecvOffset(ps, 1) ELSE 0) = c
  BY <1>1, <1>2
<1>. QED
  BY <1>1, <1>2, <1>4, <1>5, <1>6 DEF pk

\* A packet of a service is never taken for a command P2P has.
LEMMA ServiceTaken ==
  ASSUME NEW ps, IsList(ps), IsList(Full), NEW b \in BOOLEAN, b => ByOffset,
         NEW pk \in ServicePackets, NEW to, to = protocol_cmd_id_from_packet(ps, b, pk)
  PROVE  \/ to = Unknown
         \/ to.proto \in Services /\ to.proto \in ToSet(ps)
         \/ to.proto = P2P /\ to.cmd \notin Hello .. Pong
<1>1. PICK k \in 2 .. Len(Full) : \E c \in 0 .. MaxCmd[Full[k]] :
        pk = send_packet(Full, ByOffset, Full[k], c)
  BY DEF ServicePackets, ServicePacket
<1>2. PICK c \in 0 .. MaxCmd[Full[k]] : pk = send_packet(Full, ByOffset, Full[k], c)
  BY <1>1
<1>3. Full[k] \in Services /\ Full[k] # P2P
  BY ProtoTypes DEF IsList
<1>4. c \in Nat /\ SendOffset(Full, Full[k]) \in Nat /\ SendOffset(Full, Full[k]) >= 16
  BY ListSend
<1>5. /\ pk.protocol_id = IF ByOffset THEN P2P ELSE Full[k]
      /\ ByOffset => pk.cmd_id \in Nat /\ pk.cmd_id >= 16
  BY <1>2, <1>4 DEF send_packet
<1>6. ps \in Seq(Protos) /\ Len(ps) \in Nat /\ ps[1] = P2P
  BY DEF IsList
<1>7. ASSUME NEW i \in 1 .. Len(ps), Fits(ps, b, pk, i),
             to = [proto |-> ps[i], cmd |-> pk.cmd_id - (IF b THEN RecvOffset(ps, i) ELSE 0)]
      PROVE  \/ to.proto \in Services /\ to.proto \in ToSet(ps)
             \/ to.proto = P2P /\ to.cmd \notin Hello .. Pong
  <2>1. CASE i # 1
    <3>1. ps[i] \in Services
      BY <1>6, <2>1 DEF IsList
    <3>2. ps[i] \in ToSet(ps)
      BY <1>6 DEF ToSet
    <3>. QED
      BY <1>7, <3>1, <3>2
  <2>2. CASE i = 1
    <3>1. ~ b
      <4>1. SUFFICES ASSUME b PROVE FALSE
        OBVIOUS
      <4>2. RecvOffset(ps, 1) = 0 /\ MaxCmdId(ps[1]) = 15
        BY <1>6, ListRecv, ProtoTypes
      <4>. QED
        BY <1>5, <1>7, <2>2, <4>1, <4>2 DEF Fits
    <3>2. ByOffset
      BY <1>3, <1>5, <1>6, <1>7, <2>2, <3>1 DEF Fits
    <3>3. to.proto = P2P /\ to.cmd = pk.cmd_id - 0
      BY <1>6, <1>7, <2>2, <3>1
    <3>. QED
      BY <1>5, <3>2, <3>3 DEF Hello, Pong
  <2>. QED
    BY <2>1, <2>2
<1>. QED
  BY <1>7, Taken

\* With the services both ends share, or before there are any, a packet of a
\* service is taken for what it is or for nothing.
LEMMA RightTaken ==
  ASSUME LastMayBeEmpty, IsList(Full), NEW ps \in {<<P2P>>, Full}, IsList(ps),
         NEW pk \in ServicePackets, NEW to, to = protocol_cmd_id_from_packet(ps, ByOffset, pk)
  PROVE  to \in {[proto |-> pk.proto, cmd |-> pk.cmd], Unknown}
<1>1. PICK k \in 2 .. Len(Full) : \E c \in 0 .. MaxCmd[Full[k]] :
        pk = send_packet(Full, ByOffset, Full[k], c)
  BY DEF ServicePackets, ServicePacket
<1>2. PICK c \in 0 .. MaxCmd[Full[k]] : pk = send_packet(Full, ByOffset, Full[k], c)
  BY <1>1
<1>3. Full[k] \in Services /\ Full[k] # P2P /\ k \in 1 .. Len(Full) /\ Len(Full) \in Nat
  BY ProtoTypes DEF IsList
<1>4. PICK r : r = RecvOffset(Full, k)
  OBVIOUS
<1>5. r = SendOffset(Full, Full[k]) /\ r \in Nat /\ r >= 16
  BY <1>3, <1>4, SameOffset, ListSend
<1>6. c \in Nat /\ MaxCmdId(Full[k]) \in Nat /\ c <= MaxCmdId(Full[k])
  BY <1>3, ProtoTypes DEF Protos
<1>7. /\ pk.proto = Full[k] /\ pk.cmd = c
      /\ pk.protocol_id = (IF ByOffset THEN P2P ELSE Full[k])
      /\ pk.cmd_id = IF ByOffset THEN c + r ELSE c
  BY <1>2, <1>5 DEF send_packet
<1>8. Len(ps) \in Nat /\ ps[1] = P2P
  BY DEF IsList
<1>9. ASSUME NEW i \in 1 .. Len(ps), Fits(ps, ByOffset, pk, i),
             \A j \in 1 .. i - 1 : ~ Fits(ps, ByOffset, pk, j),
             to = [proto |-> ps[i], cmd |-> pk.cmd_id - (IF ByOffset THEN RecvOffset(ps, i) ELSE 0)]
      PROVE  to = [proto |-> pk.proto, cmd |-> pk.cmd]
  <2>1. CASE ~ ByOffset
    BY <1>6, <1>7, <1>9, <2>1 DEF Fits
  <2>2. CASE ByOffset
    <3>1. pk.cmd_id = c + r /\ pk.cmd_id \in Nat
      BY <1>5, <1>6, <1>7, <2>2
    <3>2. \A j \in 1 .. Len(ps) :
            Fits(ps, ByOffset, pk, j) <=> pk.cmd_id < RecvOffset(ps, j) + MaxCmdId(ps[j]) + 1
      BY <2>2 DEF Fits
    <3>3. i # 1
      <4>1. RecvOffset(ps, 1) = 0 /\ MaxCmdId(ps[1]) = 15
        BY <1>8, ListRecv, ProtoTypes
      <4>2. ~ (c + r < 0 + 15 + 1)
        BY <1>5, <1>6
      <4>. QED
        BY <1>9, <3>1, <3>2, <4>1, <4>2
    <3>4. ps = Full
      <4>1. ASSUME ps = <<P2P>> PROVE FALSE
        <5>1. Len(ps) = 1
          BY <4>1
        <5>. QED
          BY <3>3, <5>1
      <4>. QED
        BY <4>1
    <3>5. \A j \in 1 .. Len(Full) :
            Fits(ps, ByOffset, pk, j) <=> pk.cmd_id < RecvOffset(Full, j + 1)
      <4>1. ASSUME NEW j \in 1 .. Len(Full)
            PROVE  RecvOffset(Full, j + 1) = RecvOffset(Full, j) + MaxCmdId(Full[j]) + 1
        <5>1. RecvOffset(Full, j + 1) = RecvOffset(Full, j) + (MaxCmdId(Full[j]) + 1)
          BY ListRecv
        <5>2. RecvOffset(Full, j) \in Nat /\ MaxCmdId(Full[j]) \in Nat
          <6>1. Full[j] \in Protos /\ j \in 1 .. Len(Full) + 1
            BY <1>3, ElementOfSeq DEF IsList
          <6>. QED
            BY <6>1, ListRecv, ProtoTypes
        <5>. QED
          BY <5>1, <5>2
      <4>. QED
        BY <3>2, <3>4, <4>1
    <3>6. Fits(ps, ByOffset, pk, k)
      <4>1. RecvOffset(Full, k + 1) = r + (MaxCmdId(Full[k]) + 1)
        BY <1>3, <1>4, ListRecv
      <4>2. c + r < r + (MaxCmdId(Full[k]) + 1)
        BY <1>5, <1>6
      <4>. QED
        BY <1>3, <3>1, <3>5, <4>1, <4>2
    <3>7. ~ (k < i)
      <4>1. SUFFICES ASSUME k < i PROVE FALSE
        OBVIOUS
      <4>2. k \in 1 .. i - 1
        BY <1>3, <1>8, <4>1
      <4>. QED
        BY <1>9, <3>6, <4>2
    <3>8. ~ (i < k)
      <4>1. SUFFICES ASSUME i < k PROVE FALSE
        OBVIOUS
      <4>2. i + 1 \in 1 .. Len(Full) + 1 /\ k \in 1 .. Len(Full) + 1 /\ i + 1 <= k
        BY <1>3, <1>8, <4>1
      <4>3. RecvOffset(Full, i + 1) <= r /\ RecvOffset(Full, i + 1) \in Nat
        BY <1>4, <4>2, ListRecv
      <4>4. pk.cmd_id < RecvOffset(Full, i + 1)
        BY <1>9, <3>4, <3>5
      <4>. QED
        BY <1>5, <1>6, <3>1, <4>3, <4>4
    <3>9. i = k
      BY <1>3, <1>8, <3>7, <3>8
    <3>10. to = [proto |-> Full[k], cmd |-> (c + r) - r]
      BY <1>4, <1>9, <2>2, <3>1, <3>4, <3>9
    <3>11. (c + r) - r = c
      BY <1>5, <1>6
    <3>. QED
      BY <1>7, <3>10, <3>11
  <2>. QED
    BY <2>1, <2>2
<1>10. \/ to = Unknown
       \/ \E i \in 1 .. Len(ps) :
            /\ Fits(ps, ByOffset, pk, i) /\ \A j \in 1 .. i - 1 : ~ Fits(ps, ByOffset, pk, j)
            /\ to = [proto |-> ps[i],
                     cmd |-> pk.cmd_id - (IF ByOffset THEN RecvOffset(ps, i) ELSE 0)]
  <2>1. ByOffset \in BOOLEAN
    BY DEF ByOffset
  <2> HIDE DEF ByOffset
  <2>. QED
    BY <2>1, Taken
<1>11. to = Unknown \/ to = [proto |-> pk.proto, cmd |-> pk.cmd]
  BY <1>9, <1>10
<1>. QED
  BY <1>11

-----------------------------------------------------------------------------
(* The inductive invariant.                                                *)

Lives == {"running", "kill decoder", "kill sender", "stopped"}

Types ==
  /\ offer \in Offers
  /\ life \in [Ends -> Lives]
  /\ hello_received \in [Ends -> BOOLEAN]
  /\ offset_based_dispatch \in [Ends -> BOOLEAN]
  /\ DOMAIN protocols = Ends
  /\ monitor \in [Ends -> [on : BOOLEAN, ping : Nat, pong : Nat]]
  /\ DOMAIN wire = Ends
  /\ starts \in [Ends -> SUBSET Protos]
  /\ stops \in [Ends -> [Protos -> Nat]]
  /\ errors \in [Ends -> [Services -> Nat]]

\* Until it is stopped, a peer has P2P alone or all common services, which it
\* connects with the hello that also settles how packets are dispatched.
DispatchOK(e) ==
  life[e] # "stopped" =>
    /\ protocols[e] \in {<<P2P>>, Full}
    /\ offset_based_dispatch[e] = (hello_received[e] /\ ByOffset)
    /\ ~ hello_received[e] => protocols[e] = <<P2P>>

\* The monitor pings at every interval, and starts with the hello.
MonitorOK(e) ==
  /\ monitor[e].ping \in {0, 1}
  /\ ~ hello_received[e] => monitor[e].ping = 0 /\ monitor[e].pong = 0
  /\ monitor[e].pong <= Threshold + 1 + monitor[e].ping

\* Who was told of a start or a stop: until the end of stop() nobody but the
\* services whose protocol raised, and only services told of a start raise.
HistoryOK(e) ==
  IF life[e] = "stopped"
  THEN /\ \A p \in Services : stops[e][p] = IF p \in starts[e] THEN 1 + errors[e][p] ELSE 0
       /\ stops[e][P2P] = 1
  ELSE /\ starts[e] = ToSet(protocols[e]) /\ P2P \in starts[e]
       /\ \A p \in Services : stops[e][p] = errors[e][p] /\ (p \notin starts[e] => errors[e][p] = 0)
       /\ stops[e][P2P] = 0

\* The hello is the first packet of a wire, and only while it is awaited.
GoodWire(w, awaited) ==
  /\ w \in Seq(Packets)
  /\ \A i \in 1 .. Len(w) : w[i] = ControlPacket(Hello) => i = 1 /\ awaited

WiresOK == \A e \in Ends : GoodWire(wire[e], ~ hello_received[Other(e)])

IInv == Types /\ WiresOK /\ \A e \in Ends : DispatchOK(e) /\ MonitorOK(e) /\ HistoryOK(e)

-----------------------------------------------------------------------------
(* Wires.                                                                  *)

\* What is sent after the hello.
Later == Packets \ {ControlPacket(Hello)}

LEMMA WireRules ==
  ASSUME NEW w, NEW awaited \in BOOLEAN, GoodWire(w, awaited)
  PROVE  /\ \A pks \in Seq(Later) : GoodWire(w \o pks, awaited)
         /\ w # <<>> => \A any \in BOOLEAN : GoodWire(Tail(w), any)
         /\ \A k \in 0 .. Len(w) : GoodWire(SubSeq(w, 1, k), awaited)
<1>1. w \in Seq(Packets) /\ Len(w) \in Nat
  BY DEF GoodWire
<1>2. ASSUME NEW pks \in Seq(Later) PROVE GoodWire(w \o pks, awaited)
  <2>1. pks \in Seq(Packets) /\ Len(pks) \in Nat /\ \A i \in 1 .. Len(pks) : pks[i] # ControlPacket(Hello)
    <3>1. \A i \in 1 .. Len(pks) : pks[i] \in Later
      BY ElementOfSeq
    <3>. QED
      BY <3>1 DEF Later
  <2>2. /\ w \o pks \in Seq(Packets) /\ Len(w \o pks) = Len(w) + Len(pks)
        /\ \A i \in 1 .. Len(w) + Len(pks) : (w \o pks)[i] = IF i <= Len(w) THEN w[i] ELSE pks[i - Len(w)]
    BY <1>1, <2>1, ConcatProperties
  <2>3. ASSUME NEW i \in 1 .. Len(w \o pks), (w \o pks)[i] = ControlPacket(Hello)
        PROVE  i = 1 /\ awaited
    <3>1. CASE i <= Len(w)
      BY <1>1, <2>2, <2>3, <3>1 DEF GoodWire
    <3>2. CASE ~ (i <= Len(w))
      <4>1. i - Len(w) \in 1 .. Len(pks) /\ (w \o pks)[i] = pks[i - Len(w)]
        BY <1>1, <2>1, <2>2, <3>2
      <4>. QED
        BY <2>1, <2>3, <4>1
    <3>. QED
      BY <3>1, <3>2
  <2>. QED
    BY <2>2, <2>3 DEF GoodWire
<1>3. ASSUME w # <<>>, NEW any \in BOOLEAN PROVE GoodWire(Tail(w), any)
  <2>1. /\ Tail(w) \in Seq(Packets) /\ Len(Tail(w)) = Len(w) - 1
        /\ \A i \in 1 .. Len(Tail(w)) : Tail(w)[i] = w[i + 1]
    BY <1>1, <1>3, HeadTailProperties
  <2>2. ASSUME NEW i \in 1 .. Len(Tail(w)) PROVE Tail(w)[i] # ControlPacket(Hello)
    <3>1. i + 1 \in 1 .. Len(w) /\ i + 1 # 1
      BY <1>1, <2>1
    <3>. QED
      BY <2>1, <3>1 DEF GoodWire
  <2>. QED
    BY <2>1, <2>2 DEF GoodWire
<1>4. ASSUME NEW k \in 0 .. Len(w) PROVE GoodWire(SubSeq(w, 1, k), awaited)
  <2>1. \A i \in 1 .. k : w[i] \in Packets /\ i \in 1 .. Len(w)
    BY <1>1, ElementOfSeq
  <2>2. /\ SubSeq(w, 1, k) \in Seq(Packets) /\ Len(SubSeq(w, 1, k)) = (IF 1 <= k THEN k - 1 + 1 ELSE 0)
        /\ \A i \in 1 .. k - 1 + 1 : SubSeq(w, 1, k)[i] = w[1 + i - 1]
    BY <2>1, SubSeqProperties
  <2>3. Len(SubSeq(w, 1, k)) = k
    BY <2>2
  <2>4. ASSUME NEW i \in 1 .. k PROVE SubSeq(w, 1, k)[i] = w[i]
    <3>1. i \in 1 .. k - 1 + 1 /\ 1 + i - 1 = i
      OBVIOUS
    <3>. QED
      BY <2>2, <3>1
  <2>. QED
    BY <2>1, <2>2, <2>3, <2>4 DEF GoodWire
<1>. QED
  BY <1>2, <1>3, <1>4

LEMMA EmptyWire == \A any \in BOOLEAN : GoodWire(<<>>, any)
BY DEF GoodWire

LEMMA OtherEnd == \A e \in Ends : Other(e) \in Ends /\ Other(Other(e)) = e /\ Other(e) # e
                                  /\ \A f \in Ends : f = e \/ f = Other(e)
BY DEF Ends, Other

\* What a step sends it appends to one wire.
LEMMA Sending ==
  ASSUME NEW w, DOMAIN w = Ends, NEW e \in Ends, NEW awaited \in BOOLEAN,
         GoodWire(w[e], awaited), NEW pks \in Seq(Later)
  PROVE  /\ DOMAIN Sends(w, e, pks) = Ends
         /\ GoodWire(Sends(w, e, pks)[e], awaited)
         /\ Sends(w, e, pks)[Other(e)] = w[Other(e)]
<1>1. Sends(w, e, pks)[e] = IF life[Other(e)] = "stopped" THEN <<>> ELSE w[e] \o pks
  BY DEF Sends
<1>2. GoodWire(w[e] \o pks, awaited)
  BY WireRules
<1>3. GoodWire(Sends(w, e, pks)[e], awaited)
  BY <1>1, <1>2, EmptyWire
<1>. QED
  BY <1>3, OtherEnd DEF Sends

-----------------------------------------------------------------------------
(* Steps.                                                                  *)

\* The two lists a peer may have.
LEMMA BothLists ==
  ASSUME offer \in Offers
  PROVE  /\ IsList(<<P2P>>) /\ IsList(Full)
         /\ ToSet(<<P2P>>) = {P2P} /\ ToSet(Full) = {P2P} \cup ToSet(Shared)
         /\ ToSet(Full) \subseteq Protos
         /\ \A e \in Ends : Common(offer[e], offer[Other(e)]) = Shared
<1>1. offer["dialler"] \in Seq(Offered) /\ offer["listener"] \in Seq(Offered)
  BY PeerAssumption DEF Ends, Offered
<1>2. /\ Shared \in Seq(Services)
      /\ Common(offer["listener"], offer["dialler"]) = Shared
      /\ \A i, j \in 1 .. Len(Shared) : i < j => Shared[i] < Shared[j]
  BY <1>1, CommonSorted DEF Shared
<1> HIDE DEF Shared
<1>3. /\ IsList(<<P2P>>) /\ IsList(Full)
      /\ ToSet(<<P2P>>) = {P2P} /\ ToSet(Full) = {P2P} \cup ToSet(Shared)
  BY <1>2, Lists DEF Full
<1>4. ToSet(Full) \subseteq Protos
  <2>1. \A i \in 1 .. Len(Full) : Full[i] \in Protos
    BY <1>3, ElementOfSeq DEF IsList
  <2>2. DOMAIN Full = 1 .. Len(Full)
    BY <1>3 DEF IsList
  <2>. QED
    BY <2>1, <2>2 DEF ToSet
<1>5. ASSUME NEW e \in Ends PROVE Common(offer[e], offer[Other(e)]) = Shared
  <2>1. CASE e = "dialler"
    BY <2>1 DEF Other, Shared
  <2>2. CASE e = "listener"
    BY <1>2, <2>2 DEF Other
  <2>. QED
    BY <2>1, <2>2 DEF Ends
<1>. QED
  BY <1>3, <1>4, <1>5

\* What depends on the configuration stays what it is.
LEMMA SameConfig ==
  ASSUME UNCHANGED config
  PROVE  /\ offer' = offer /\ Full' = Full /\ ByOffset' = ByOffset /\ Packets' = Packets
<1>1. offer' = offer /\ version' = version
  BY DEF config
<1>2. Full' = Full /\ ByOffset' = ByOffset
  BY <1>1 DEF Full, Shared, ByOffset
<1>3. Packets' = Packets
  BY <1>2 DEF Packets, ServicePackets, ServicePacket
<1>. QED
  BY <1>1, <1>2, <1>3

\* Nobody stops, or starts again.
LifeKept ==
  /\ life' \in [Ends -> Lives]
  /\ \A e \in Ends : life'[e] = "stopped" <=> life[e] = "stopped"

Wires(w) == DOMAIN w = Ends /\ \A e \in Ends : GoodWire(w[e], ~ hello_received[Other(e)])
MonitorType == [Ends -> [on : BOOLEAN, ping : Nat, pong : Nat]]

\* A step that changes no protocol keeps the invariant with the wires and the
\* monitors.
LEMMA QuietStep ==
  ASSUME IInv, UNCHANGED <<config, hello_received, offset_based_dispatch, protocols, history>>,
         LifeKept, monitor' \in MonitorType, \A e \in Ends : MonitorOK(e)', Wires(wire')
  PROVE  IInv'
<1>1. Types'
  BY DEF IInv, Types, LifeKept, MonitorType, Wires, config, history
<1>2. /\ offer' = offer /\ Full' = Full /\ ByOffset' = ByOffset /\ Packets' = Packets
  BY SameConfig
<1>3. WiresOK'
  <2>1. ASSUME NEW e \in Ends PROVE GoodWire(wire[e], ~ hello_received[Other(e)])'
    <3>1. GoodWire(wire'[e], ~ hello_received[Other(e)]) /\ hello_received' = hello_received
      BY DEF Wires
    <3>. QED
      BY <1>2, <3>1 DEF GoodWire
  <2>. QED
    BY <2>1 DEF WiresOK
<1>4. ASSUME NEW e \in Ends PROVE DispatchOK(e)' /\ HistoryOK(e)'
  <2>1. DispatchOK(e) /\ HistoryOK(e) /\ (life'[e] = "stopped" <=> life[e] = "stopped")
    BY DEF IInv, LifeKept
  <2>2. DispatchOK(e)'
    BY <1>2, <2>1 DEF DispatchOK
  <2>3. HistoryOK(e)'
    BY <2>1 DEF HistoryOK, history
  <2>. QED
    BY <2>2, <2>3
<1>. QED
  BY <1>1, <1>3, <1>4 DEF IInv

\* A peer's list, and what it may send with it.
LEMMA PeerLists ==
  ASSUME IInv, NEW e \in Ends, life[e] # "stopped"
  PROVE  /\ IsList(protocols[e]) /\ ToSet(protocols[e]) \subseteq Protos
         /\ offset_based_dispatch[e] \in BOOLEAN
         /\ \A c \in Disconnect .. Pong : Control(e, c) = ControlPacket(c) /\ Control(e, c) \in Later
<1>1. protocols[e] \in {<<P2P>>, Full} /\ offset_based_dispatch[e] \in BOOLEAN
  BY DEF IInv, DispatchOK, Types
<1>2. IsList(protocols[e]) /\ ToSet(protocols[e]) \subseteq Protos
  BY <1>1, BothLists DEF IInv, Types, Protos
<1>3. ASSUME NEW c \in Disconnect .. Pong
      PROVE  Control(e, c) = ControlPacket(c) /\ Control(e, c) \in Later
  <2>1. c \in Hello .. Pong /\ c # Hello
    BY DEF Disconnect, Hello, Pong
  <2>2. Control(e, c) = ControlPacket(c)
    BY <1>1, <1>2, <2>1, ControlSent DEF Control
  <2>3. ControlPacket(c) \in Packets
    BY <2>1 DEF Packets, ControlPackets
  <2>4. ControlPacket(c).cmd = c /\ ControlPacket(Hello).cmd = Hello
    BY DEF ControlPacket
  <2>. QED
    BY <2>1, <2>2, <2>3, <2>4 DEF Later
<1>. QED
  BY <1>1, <1>2, <1>3

\* What the decoder may take the next packet for.
LEMMA HeadTaken ==
  ASSUME IInv, NEW e \in Ends, life[e] # "stopped", wire[Other(e)] # <<>>, NEW to,
         to = protocol_cmd_id_from_packet(protocols[e], offset_based_dispatch[e], Head(wire[Other(e)]))
  PROVE  /\ to.proto = P2P /\ to.cmd = Hello => ~ hello_received[e]
         /\ to.proto \in Services => to.proto \in ToSet(protocols[e])
<1>1. PICK w : w = wire[Other(e)]
  OBVIOUS
<1>2. GoodWire(w, ~ hello_received[e]) /\ w # <<>> /\ hello_received[e] \in BOOLEAN
  BY <1>1, OtherEnd DEF IInv, WiresOK, Types
<1>3. w \in Seq(Packets) /\ 1 \in 1 .. Len(w) /\ Head(w) = w[1] /\ w[1] \in Packets
  BY <1>2 DEF GoodWire
<1>4. PICK pk : pk = w[1]
  OBVIOUS
<1>5. pk \in Packets /\ (pk = ControlPacket(Hello) => ~ hello_received[e])
  BY <1>2, <1>3, <1>4 DEF GoodWire
<1>6. PICK ps, b : ps = protocols[e] /\ b = offset_based_dispatch[e]
  OBVIOUS
<1>7. IsList(ps) /\ IsList(Full) /\ b \in BOOLEAN /\ (b => ByOffset)
  BY <1>6, PeerLists, BothLists DEF IInv, Types, DispatchOK
<1>8. to = protocol_cmd_id_from_packet(ps, b, pk)
  BY <1>1, <1>3, <1>4, <1>6
<1>9. CASE pk \in ControlPackets
  <2>1. PICK c \in Hello .. Pong : pk = ControlPacket(c)
    BY <1>9 DEF ControlPackets
  <2>2. to = [proto |-> P2P, cmd |-> c]
    BY <1>7, <1>8, <2>1, ControlTaken
  <2>3. to.proto = P2P /\ to.cmd = c
    BY <2>2
  <2>. QED
    BY <1>5, <2>1, <2>3, ProtoTypes
<1>10. CASE pk \in ServicePackets
  <2>1. \/ to = Unknown
        \/ to.proto \in Services /\ to.proto \in ToSet(ps)
        \/ to.proto = P2P /\ to.cmd \notin Hello .. Pong
    BY <1>7, <1>8, <1>10, ServiceTaken
  <2>2. Hello \in Hello .. Pong /\ P2P \notin Services
    BY ProtoTypes DEF Hello, Pong
  <2>3. Unknown.proto \notin Services /\ Unknown.proto # P2P
    BY ProtoTypes DEF Protos
  <2>. QED
    BY <1>6, <2>1, <2>2, <2>3
<1>. QED
  BY <1>5, <1>9, <1>10 DEF Packets

\* The stop of a peer, and the end of a handler, leave it unstopped or stopped.
LEMMA Halts ==
  ASSUME life \in [Ends -> Lives], NEW e \in Ends, NEW b \in BOOLEAN
  PROVE  /\ Stopping(e, b) => LifeKept
         /\ life' = [life EXCEPT ![e] = IF @ = "kill decoder" THEN "kill sender" ELSE @] => LifeKept
         /\ life' = life => LifeKept
<1>1. \A f \in Ends : life[f] \in Lives
  OBVIOUS
<1>2. Stopping(e, b) => LifeKept
  BY <1>1 DEF Stopping, LifeKept, Lives
<1>3. life' = [life EXCEPT ![e] = IF @ = "kill decoder" THEN "kill sender" ELSE @] => LifeKept
  BY <1>1 DEF LifeKept, Lives
<1>4. life' = life => LifeKept
  BY <1>1 DEF LifeKept
<1>. QED
  BY <1>2, <1>3, <1>4

\* The wires while nothing else is sent, with one packet taken, and with more sent.
LEMMA WireSteps ==
  ASSUME IInv, NEW e \in Ends
  PROVE  /\ Wires(wire)
         /\ \A pks \in Seq(Later) : Wires(Sends(wire, e, pks))
         /\ wire[Other(e)] # <<>> =>
              /\ Wires([wire EXCEPT ![Other(e)] = Tail(@)])
              /\ \A pks \in Seq(Later) : Wires(Sends([wire EXCEPT ![Other(e)] = Tail(@)], e, pks))
<1>1. DOMAIN wire = Ends /\ \A f \in Ends : hello_received[f] \in BOOLEAN
  BY DEF IInv, Types
<1>2. Wires(wire)
  BY <1>1 DEF IInv, WiresOK, Wires
<1>3. ASSUME NEW w, Wires(w), NEW pks \in Seq(Later) PROVE Wires(Sends(w, e, pks))
  <2>1. GoodWire(w[e], ~ hello_received[Other(e)]) /\ GoodWire(w[Other(e)], ~ hello_received[e])
    BY <1>3, OtherEnd DEF Wires
  <2>2. /\ DOMAIN Sends(w, e, pks) = Ends
        /\ GoodWire(Sends(w, e, pks)[e], ~ hello_received[Other(e)])
        /\ Sends(w, e, pks)[Other(e)] = w[Other(e)]
    <3>1. PICK awaited \in BOOLEAN : awaited = ~ hello_received[Other(e)]
      OBVIOUS
    <3>2. DOMAIN w = Ends /\ GoodWire(w[e], awaited)
      BY <1>3, <2>1, <3>1 DEF Wires
    <3>3. /\ DOMAIN Sends(w, e, pks) = Ends
          /\ GoodWire(Sends(w, e, pks)[e], awaited)
          /\ Sends(w, e, pks)[Other(e)] = w[Other(e)]
      BY <3>2, Sending
    <3>. QED
      BY <3>1, <3>3
  <2>3. ASSUME NEW f \in Ends PROVE GoodWire(Sends(w, e, pks)[f], ~ hello_received[Other(f)])
    <3>1. CASE f = e
      BY <2>2, <3>1
    <3>2. CASE f = Other(e)
      BY <2>1, <2>2, <3>2, OtherEnd
    <3>. QED
      BY <3>1, <3>2, OtherEnd
  <2>. QED
    BY <2>2, <2>3 DEF Wires
<1>4. ASSUME wire[Other(e)] # <<>> PROVE Wires([wire EXCEPT ![Other(e)] = Tail(@)])
  <2>1. PICK w : w = [wire EXCEPT ![Other(e)] = Tail(@)]
    OBVIOUS
  <2>2. DOMAIN w = Ends /\ w[e] = wire[e] /\ w[Other(e)] = Tail(wire[Other(e)])
    BY <1>1, <2>1, OtherEnd
  <2>3. GoodWire(wire[e], ~ hello_received[Other(e)]) /\ GoodWire(wire[Other(e)], ~ hello_received[e])
    BY <1>2, OtherEnd DEF Wires
  <2>4. GoodWire(Tail(wire[Other(e)]), ~ hello_received[e])
    BY <1>1, <1>4, <2>3, WireRules
  <2>5. ASSUME NEW f \in Ends PROVE GoodWire(w[f], ~ hello_received[Other(f)])
    <3>1. CASE f = e
      BY <2>2, <2>3, <3>1
    <3>2. CASE f = Other(e)
      BY <2>2, <2>4, <3>2, OtherEnd
    <3>. QED
      BY <3>1, <3>2, OtherEnd
  <2>. QED
    BY <2>1, <2>2, <2>5 DEF Wires
<1>. QED
  BY <1>2, <1>3, <1>4

LEMMA SameMonitor ==
  ASSUME IInv, UNCHANGED <<monitor, hello_received>>
  PROVE  monitor' \in MonitorType /\ \A e \in Ends : MonitorOK(e)'
BY DEF IInv, Types, MonitorType, MonitorOK

\* A step that also leaves the monitors alone.
LEMMA StillStep ==
  ASSUME IInv, UNCHANGED <<config, hello_received, offset_based_dispatch, protocols, history, monitor>>,
         LifeKept, Wires(wire')
  PROVE  IInv'
BY SameMonitor, QuietStep

\* The greenlets that do not send.
LEMMA GreenletSteps ==
  ASSUME IInv, NEW e \in Ends,
         KillDecoder(e) \/ Quit(e) \/ DeferredStop(e) \/ check_if_dumb_remote(e) \/ Hang(e)
  PROVE  IInv'
<1>1. UNCHANGED <<config, hello_received, offset_based_dispatch, protocols, history, monitor, wire>>
  BY DEF KillDecoder, Quit, DeferredStop, check_if_dumb_remote, Hang, Calm
<1>2. Wires(wire')
  BY <1>1, WireSteps
<1>3. life \in [Ends -> Lives]
  BY DEF IInv, Types
<1>4. LifeKept
  <2>1. CASE KillDecoder(e)
    BY <1>3, <2>1 DEF KillDecoder, LifeKept, Lives
  <2>2. CASE Quit(e)
    BY <1>3, <2>2, Halts DEF Quit
  <2>3. CASE DeferredStop(e)
    BY <1>3, <2>3, Halts DEF DeferredStop
  <2>4. CASE check_if_dumb_remote(e)
    BY <1>3, <2>4, Halts DEF check_if_dumb_remote
  <2>5. CASE Hang(e)
    BY <1>3, <2>5, Halts DEF Hang
  <2>. QED
    BY <2>1, <2>2, <2>3, <2>4, <2>5
<1>. QED
  BY <1>1, <1>2, <1>4, StillStep

\* A service sends what both ends number alike.
LEMMA SendStep ==
  ASSUME IInv, NEW e \in Ends, Send(e)
  PROVE  IInv'
<1>1. PICK p \in ToSet(protocols[e]) \ {P2P} : \E c \in {0, MaxCmd[p]} :
        wire' = Sends(wire, e, <<send_packet(protocols[e], offset_based_dispatch[e], p, c)>>)
  BY DEF Send
<1>2. PICK c \in {0, MaxCmd[p]} :
        wire' = Sends(wire, e, <<send_packet(protocols[e], offset_based_dispatch[e], p, c)>>)
  BY <1>1
<1>3. life[e] # "stopped" /\ offer \in Offers
  BY DEF Send, Runs, IInv, Types
<1>4. protocols[e] \in {<<P2P>>, Full} /\ p # P2P /\ ToSet(<<P2P>>) = {P2P}
  BY <1>1, <1>3, BothLists DEF IInv, DispatchOK
<1>5. protocols[e] = Full
  BY <1>1, <1>4
<1>6. hello_received[e]
  BY <1>1, <1>3, <1>4 DEF IInv, DispatchOK
<1>7. offset_based_dispatch[e] = ByOffset
  <2>1. offset_based_dispatch[e] = (hello_received[e] /\ ByOffset) /\ ByOffset \in BOOLEAN
    BY <1>3 DEF IInv, DispatchOK, ByOffset
  <2>. QED
    BY <1>6, <2>1
<1>8. p \in ToSet(Full) \ {P2P} /\ c \in 0 .. MaxCmd[p]
  <2>1. p \in Services
    BY <1>1, <1>3, <1>5, BothLists DEF Protos
  <2>2. MaxCmd[p] \in Nat
    BY <2>1, PeerAssumption
  <2>. QED
    BY <1>1, <1>2, <1>5, <2>2
<1>9. PICK pk : pk = send_packet(Full, ByOffset, p, c)
  OBVIOUS
<1>10. pk \in Later
  <2>1. pk \in ServicePackets
    BY <1>3, <1>8, <1>9, BothLists, ServiceSent
  <2>2. pk.proto = p
    BY <1>9 DEF send_packet
  <2>3. ControlPacket(Hello).proto = P2P
    BY DEF ControlPacket
  <2>. QED
    BY <1>1, <2>1, <2>2, <2>3 DEF Later, Packets
<1>11. <<pk>> \in Seq(Later) /\ wire' = Sends(wire, e, <<pk>>)
  BY <1>2, <1>5, <1>7, <1>9, <1>10
<1>12. Wires(wire')
  BY <1>11, WireSteps
<1>13. LifeKept
  BY Halts DEF Send, IInv, Types
<1>. QED
  BY <1>12, <1>13, StillStep DEF Send, Calm

\* The monitor gives up or pings, and an interval passes.
LEMMA MonitorSteps ==
  ASSUME IInv, (\E e \in Ends : MonitorWakes(e)) \/ Tick
  PROVE  IInv'
<1>1. monitor \in MonitorType /\ \A e \in Ends : MonitorOK(e)
  BY DEF IInv, Types, MonitorType
<1>2. Threshold \in Nat /\ life \in [Ends -> Lives]
  BY PeerAssumption DEF IInv, Types
<1>3. CASE \E e \in Ends : MonitorWakes(e)
  <2>1. PICK e \in Ends : MonitorWakes(e)
    BY <1>3
  <2>2. PICK m \in [on : BOOLEAN, ping : Nat, pong : Nat] : m = monitor[e]
    BY <1>1 DEF MonitorType
  <2>3. life[e] # "stopped" /\ m.ping = 1 /\ hello_received[e] /\ m.pong <= Threshold + 1 + 1
    BY <1>1, <2>1, <2>2 DEF MonitorWakes, Runs, MonitorOK
  <2>4. CASE m.pong - m.ping > Threshold
    <3>1. monitor' = [monitor EXCEPT ![e].on = FALSE] /\ Stopping(e, FALSE) /\ wire' = wire
      BY <2>1, <2>2, <2>4 DEF MonitorWakes
    <3>2. monitor' = [monitor EXCEPT ![e] = [m EXCEPT !.on = FALSE]]
      BY <2>2, <3>1
    <3>3. monitor' \in MonitorType
      BY <1>1, <3>2 DEF MonitorType
    <3>4. \A f \in Ends : monitor'[f].ping = monitor[f].ping /\ monitor'[f].pong = monitor[f].pong
      BY <1>1, <2>2, <3>2 DEF MonitorType
    <3>5. UNCHANGED <<config, hello_received, offset_based_dispatch, protocols, history>>
      BY <2>1 DEF MonitorWakes, Calm
    <3>6. \A f \in Ends : MonitorOK(f)'
      BY <1>1, <3>4, <3>5 DEF MonitorOK
    <3>7. LifeKept /\ Wires(wire')
      BY <1>2, <3>1, Halts, WireSteps
    <3>. QED
      BY <3>3, <3>5, <3>6, <3>7, QuietStep
  <2>5. CASE ~ (m.pong - m.ping > Threshold)
    <3>1. monitor' = [monitor EXCEPT ![e].ping = 0] /\ wire' = Sends(wire, e, <<Control(e, Ping)>>) /\ life' = life
      BY <2>1, <2>2, <2>5 DEF MonitorWakes
    <3>2. monitor' = [monitor EXCEPT ![e] = [m EXCEPT !.ping = 0]]
      BY <2>2, <3>1
    <3>3. monitor' \in MonitorType
      BY <1>1, <3>2 DEF MonitorType
    <3>4. monitor'[e].ping = 0 /\ monitor'[e].pong = m.pong /\ m.pong <= Threshold + 1
      <4>1. m.pong <= Threshold + 1
        BY <1>2, <2>3, <2>5
      <4>2. monitor'[e] = [m EXCEPT !.ping = 0]
        BY <1>1, <3>2 DEF MonitorType
      <4>. QED
        BY <4>1, <4>2
    <3>5. UNCHANGED <<config, hello_received, offset_based_dispatch, protocols, history>>
      BY <2>1 DEF MonitorWakes, Calm
    <3>6. ASSUME NEW f \in Ends PROVE MonitorOK(f)'
      <4>1. CASE f = e
        BY <1>2, <2>3, <3>4, <3>5, <4>1 DEF MonitorOK
      <4>2. CASE f # e
        <5>1. monitor'[f] = monitor[f]
          BY <1>1, <3>2, <4>2 DEF MonitorType
        <5>. QED
          BY <1>1, <3>5, <5>1 DEF MonitorOK
      <4>. QED
        BY <4>1, <4>2
    <3>7. LifeKept
      BY <1>2, <3>1, Halts
    <3>8. <<Control(e, Ping)>> \in Seq(Later)
      <4>1. Ping \in Disconnect .. Pong
        BY DEF Ping, Disconnect, Pong
      <4>. QED
        BY <2>3, <4>1, PeerLists
    <3>9. Wires(wire')
      BY <3>1, <3>8, WireSteps
    <3>. QED
      BY <3>3, <3>5, <3>6, <3>7, <3>9, QuietStep
  <2>. QED
    BY <2>4, <2>5
<1>4. CASE Tick
  <2>1. UNCHANGED <<config, life, hello_received, offset_based_dispatch, protocols, wire, history>>
    BY <1>4 DEF Tick
  <2>2. \A e \in Ends : Runs(e) => hello_received[e] /\ monitor[e].ping = 0
    BY <1>4 DEF Tick, Runs
  <2>3. monitor' = [e \in Ends |-> IF Runs(e) /\ monitor[e].on
            THEN [monitor[e] EXCEPT !.ping = @ + 1, !.pong = @ + 1] ELSE monitor[e]]
    BY <1>4 DEF Tick
  <2>4. ASSUME NEW e \in Ends
        PROVE  monitor'[e] \in [on : BOOLEAN, ping : Nat, pong : Nat] /\ MonitorOK(e)'
    <3>1. PICK m \in [on : BOOLEAN, ping : Nat, pong : Nat] : m = monitor[e]
      BY <1>1 DEF MonitorType
    <3>2. CASE Runs(e) /\ monitor[e].on
      <4>1. monitor'[e] = [m EXCEPT !.ping = @ + 1, !.pong = @ + 1]
        BY <2>3, <3>1, <3>2
      <4>2. monitor'[e] = [on |-> m.on, ping |-> m.ping + 1, pong |-> m.pong + 1]
        BY <4>1
      <4>3. hello_received'[e] /\ m.ping = 0 /\ m.pong <= Threshold + 1 + 0
        BY <1>1, <2>1, <2>2, <3>1, <3>2 DEF MonitorOK
      <4>4. monitor'[e].ping = 1 /\ monitor'[e].pong = m.pong + 1 /\ m.pong \in Nat
        BY <4>2, <4>3
      <4>. QED
        BY <1>2, <4>2, <4>3, <4>4 DEF MonitorOK
    <3>3. CASE ~ (Runs(e) /\ monitor[e].on)
      <4>1. monitor'[e] = monitor[e]
        BY <2>3, <3>3
      <4>. QED
        BY <1>1, <2>1, <3>1, <4>1 DEF MonitorOK
    <3>. QED
      BY <3>2, <3>3
  <2>5. monitor' \in MonitorType
    <3>1. monitor' = [e \in Ends |-> monitor'[e]]
      BY <2>3
    <3>. QED
      BY <2>4, <3>1 DEF MonitorType
  <2>6. LifeKept /\ Wires(wire')
    <3>1. "dialler" \in Ends
      BY DEF Ends
    <3>. QED
      BY <1>2, <2>1, <3>1, Halts, WireSteps
  <2>. QED
    BY <2>1, <2>4, <2>5, <2>6, QuietStep
<1>. QED
  BY <1>3, <1>4

Unconnected == UNCHANGED <<config, hello_received, offset_based_dispatch, protocols, history>>

After(e) == life' = [life EXCEPT ![e] = IF @ = "kill decoder" THEN "kill sender" ELSE @]
Heard(e) == monitor' = monitor \/ monitor' = [monitor EXCEPT ![e].pong = 0]
Took(e) ==
  \/ wire' = [wire EXCEPT ![Other(e)] = Tail(@)]
  \/ \E c \in {Disconnect, Pong} :
       wire' = Sends([wire EXCEPT ![Other(e)] = Tail(@)], e, <<Control(e, c)>>)

\* The packets of the handlers that change no protocol.
LEMMA QuietHandlers ==
  ASSUME IInv, NEW e \in Ends, life[e] # "stopped", wire[Other(e)] # <<>>,
         Unconnected, Heard(e), Took(e), Stopping(e, TRUE) \/ After(e)
  PROVE  IInv'
<1>1. life[e] # "stopped" /\ wire[Other(e)] # <<>>
  OBVIOUS
<1>2. LifeKept
  BY Halts DEF IInv, Types, After
<1>3. Wires(wire')
  <2>1. CASE wire' = [wire EXCEPT ![Other(e)] = Tail(@)]
    BY <1>1, <2>1, WireSteps
  <2>2. CASE \E c \in {Disconnect, Pong} :
               wire' = Sends([wire EXCEPT ![Other(e)] = Tail(@)], e, <<Control(e, c)>>)
    <3>1. PICK c \in {Disconnect, Pong} :
            wire' = Sends([wire EXCEPT ![Other(e)] = Tail(@)], e, <<Control(e, c)>>)
      BY <2>2
    <3>2. c \in Disconnect .. Pong
      BY DEF Disconnect, Pong
    <3>3. <<Control(e, c)>> \in Seq(Later)
      BY <1>1, <3>2, PeerLists
    <3>. QED
      BY <1>1, <3>1, <3>3, WireSteps
  <2>. QED
    BY <2>1, <2>2 DEF Took
<1>4. monitor' \in MonitorType /\ \A f \in Ends : MonitorOK(f)'
  <2>1. CASE monitor' = monitor
    BY <2>1, SameMonitor DEF Unconnected
  <2>2. CASE monitor' = [monitor EXCEPT ![e].pong = 0]
    <3>1. monitor \in MonitorType /\ \A f \in Ends : MonitorOK(f)
      BY DEF IInv, Types, MonitorType
    <3>2. PICK m \in [on : BOOLEAN, ping : Nat, pong : Nat] : m = monitor[e]
      BY <3>1 DEF MonitorType
    <3>3. monitor' = [monitor EXCEPT ![e] = [m EXCEPT !.pong = 0]]
      BY <2>2, <3>2
    <3>4. monitor' \in MonitorType
      BY <3>1, <3>3 DEF MonitorType
    <3>5. monitor'[e].ping = m.ping /\ monitor'[e].pong = 0
      <4>1. monitor'[e] = [m EXCEPT !.pong = 0]
        BY <3>1, <3>3 DEF MonitorType
      <4>. QED
        BY <4>1
    <3>6. ASSUME NEW f \in Ends PROVE MonitorOK(f)'
      <4>1. CASE f = e
        BY <3>1, <3>2, <3>5, <4>1, PeerAssumption DEF MonitorOK, Unconnected
      <4>2. CASE f # e
        <5>1. monitor'[f] = monitor[f]
          BY <3>1, <3>3, <4>2 DEF MonitorType
        <5>. QED
          BY <3>1, <5>1 DEF MonitorOK, Unconnected
      <4>. QED
        BY <4>1, <4>2
    <3>. QED
      BY <3>4, <3>6
  <2>. QED
    BY <2>1, <2>2 DEF Heard
<1>. QED
  BY <1>2, <1>3, <1>4, QuietStep DEF Unconnected

\* The hello: it comes once, so that common services are connected once.
LEMMA HelloStep ==
  ASSUME IInv, NEW e \in Ends, life[e] # "stopped", wire[Other(e)] # <<>>,
         ~ hello_received[e], ~ myself, HandleHello(e),
         After(e), UNCHANGED config, stops' = stops, errors' = errors
  PROVE  IInv'
<1> DEFINE Bye == send_packet(protocols[e], ByOffset, P2P, Disconnect)
           PingOut == send_packet(protocols[e], ByOffset, P2P, Ping)
           Sent(agree) == (IF ByOffset THEN <<>> ELSE <<Bye>>) \o (IF agree THEN <<>> ELSE <<Bye>>) \o <<PingOut>>
           Connected(agree) == IF agree THEN Common(offer[e], offer[Other(e)]) ELSE <<>>
<1>1. PICK agree \in BOOLEAN :
        /\ hello_received' = [hello_received EXCEPT ![e] = TRUE]
        /\ offset_based_dispatch' = [offset_based_dispatch EXCEPT ![e] = ByOffset]
        /\ protocols' = [protocols EXCEPT ![e] = @ \o Connected(agree)]
        /\ starts' = [starts EXCEPT ![e] = @ \cup ToSet(Connected(agree))]
        /\ monitor' = [monitor EXCEPT ![e].on = TRUE, ![e].ping = 0]
        /\ wire' = Sends([wire EXCEPT ![Other(e)] = Tail(@)], e, Sent(agree))
  BY DEF HandleHello, ByOffset
<1>2. life[e] # "stopped" /\ wire[Other(e)] # <<>> /\ Types
  BY DEF IInv
<1>3. protocols[e] = <<P2P>> /\ ByOffset \in BOOLEAN /\ starts[e] = {P2P}
  <2>1. DispatchOK(e) /\ HistoryOK(e)
    BY DEF IInv
  <2>2. protocols[e] = <<P2P>>
    BY <1>2, <2>1 DEF DispatchOK
  <2>3. starts[e] = ToSet(protocols[e])
    BY <1>2, <2>1 DEF HistoryOK
  <2>4. ToSet(<<P2P>>) = {P2P}
    BY <1>2, BothLists DEF Types
  <2>. QED
    BY <2>2, <2>3, <2>4 DEF ByOffset
<1>4. PICK C : C = Connected(agree)
  OBVIOUS
<1>5. /\ <<P2P>> \o C \in {<<P2P>>, Full} /\ {P2P} \cup ToSet(C) = ToSet(<<P2P>> \o C)
      /\ {P2P} \cup ToSet(C) \subseteq Protos
  <2>1. CASE agree
    <3>1. C = Shared
      BY <1>2, <1>4, <2>1, BothLists DEF Types
    <3>. QED
      BY <1>2, <3>1, BothLists DEF Types, Full
  <2>2. CASE ~ agree
    <3>1. C = <<>>
      BY <1>4, <2>2
    <3>2. <<P2P>> \o C = <<P2P>> /\ ToSet(C) = {}
      BY <3>1 DEF ToSet
    <3>. QED
      BY <1>2, <3>2, BothLists DEF Types, Protos
  <2>. QED
    BY <2>1, <2>2
<1>6. /\ offer' = offer /\ Full' = Full /\ ByOffset' = ByOffset /\ Packets' = Packets
  BY SameConfig
<1>7. /\ life' \in [Ends -> Lives] /\ \A f \in Ends : life'[f] = "stopped" <=> life[f] = "stopped"
  BY <1>2, Halts DEF LifeKept, Types, After
<1>8. /\ protocols'[e] = <<P2P>> \o C /\ starts'[e] = {P2P} \cup ToSet(C)
      /\ hello_received'[e] = TRUE /\ offset_based_dispatch'[e] = ByOffset
  BY <1>1, <1>2, <1>3, <1>4 DEF Types
<1>9. ASSUME NEW f \in Ends, f # e
      PROVE  /\ protocols'[f] = protocols[f] /\ starts'[f] = starts[f]
             /\ hello_received'[f] = hello_received[f]
             /\ offset_based_dispatch'[f] = offset_based_dispatch[f]
             /\ monitor'[f] = monitor[f]
  <2> HIDE DEF Connected, Sent
  <2>. QED
    BY <1>1, <1>2, <1>9 DEF Types
<1>10. PICK m \in [on : BOOLEAN, ping : Nat, pong : Nat] : m = monitor[e]
  BY <1>2 DEF Types
<1>11. monitor' = [monitor EXCEPT ![e] = [m EXCEPT !.on = TRUE, !.ping = 0]]
  <2>1. monitor' = [monitor EXCEPT ![e].on = TRUE, ![e].ping = 0]
    BY <1>1
  <2>2. DOMAIN monitor = Ends /\ \A f \in Ends : monitor[f] \in [on : BOOLEAN, ping : Nat, pong : Nat]
    BY <1>2 DEF Types
  <2>. QED
    BY <1>10, <2>1, <2>2
<1>12. Types'
  <2>1. hello_received' \in [Ends -> BOOLEAN] /\ offset_based_dispatch' \in [Ends -> BOOLEAN]
    BY <1>1, <1>2, <1>3 DEF Types
  <2>2. DOMAIN protocols' = Ends
    BY <1>1, <1>2 DEF Types
  <2>3. monitor' \in [Ends -> [on : BOOLEAN, ping : Nat, pong : Nat]]
    BY <1>2, <1>11 DEF Types
  <2>4. DOMAIN wire' = Ends
    <3>1. DOMAIN Sends([wire EXCEPT ![Other(e)] = Tail(@)], e, Sent(agree)) = DOMAIN wire
      BY DEF Sends
    <3>. QED
      BY <1>1, <1>2, <3>1 DEF Types
  <2>5. starts' \in [Ends -> SUBSET Protos]
    <3>1. starts' = [starts EXCEPT ![e] = {P2P} \cup ToSet(C)]
      BY <1>1, <1>3, <1>4
    <3>. QED
      BY <1>2, <1>5, <3>1 DEF Types
  <2>. QED
    BY <1>2, <1>6, <1>7, <2>1, <2>2, <2>3, <2>4, <2>5 DEF Types
<1>13. Sent(agree) \in Seq(Later)
  <2>1. IsList(protocols[e])
    BY <1>2, PeerLists
  <2>2. Bye = ControlPacket(Disconnect) /\ PingOut = ControlPacket(Ping)
    <3>1. Disconnect \in Hello .. Pong /\ Ping \in Hello .. Pong
      BY DEF Hello, Disconnect, Ping, Pong
    <3>. QED
      BY <1>3, <2>1, <3>1, ControlSent
  <2>3. ControlPacket(Disconnect) \in Later /\ ControlPacket(Ping) \in Later
    <3>1. Disconnect \in Disconnect .. Pong /\ Ping \in Disconnect .. Pong
      BY DEF Disconnect, Ping, Pong
    <3>. QED
      BY <1>2, <3>1, PeerLists
  <2>4. PICK x, y : x = Bye /\ y = PingOut
    OBVIOUS
  <2>5. Sent(agree) = (IF ByOffset THEN <<>> ELSE <<x>>) \o (IF agree THEN <<>> ELSE <<x>>) \o <<y>>
    BY <2>4
  <2>6. x \in Later /\ y \in Later
    BY <2>2, <2>3, <2>4
  <2> HIDE DEF Sent
  <2>. QED
    BY <2>5, <2>6
<1>14. WiresOK'
  <2>1. PICK pks : pks = Sent(agree)
    OBVIOUS
  <2>2. pks \in Seq(Later) /\ wire' = Sends([wire EXCEPT ![Other(e)] = Tail(@)], e, pks)
    BY <1>1, <1>13, <2>1
  <2>3. PICK w : w = [wire EXCEPT ![Other(e)] = Tail(@)]
    OBVIOUS
  <2>4. DOMAIN w = Ends /\ w[e] = wire[e] /\ w[Other(e)] = Tail(wire[Other(e)])
    BY <1>2, <2>3, OtherEnd DEF Types
  <2>5. PICK a, b : a = (~ hello_received[Other(e)]) /\ b = (~ hello_received[e])
    OBVIOUS
  <2>6. a \in BOOLEAN /\ b \in BOOLEAN /\ GoodWire(wire[e], a) /\ GoodWire(wire[Other(e)], b)
    BY <2>5, OtherEnd DEF IInv, WiresOK
  <2>7. GoodWire(Tail(wire[Other(e)]), FALSE)
    BY <1>2, <2>6, WireRules
  <2>8. DOMAIN wire' = Ends /\ GoodWire(wire'[e], a) /\ wire'[Other(e)] = w[Other(e)]
    <3>1. wire' = Sends(w, e, pks) /\ GoodWire(w[e], a) /\ pks \in Seq(Later)
      BY <2>2, <2>3, <2>4, <2>6
    <3>. QED
      BY <2>4, <2>6, <3>1, Sending
  <2>9. ASSUME NEW f \in Ends PROVE GoodWire(wire[f], ~ hello_received[Other(f)])'
    <3>1. CASE f = e
      <4>1. hello_received'[Other(e)] = hello_received[Other(e)]
        BY <1>9, OtherEnd
      <4>. QED
        BY <1>6, <2>5, <2>8, <3>1, <4>1 DEF GoodWire
    <3>2. CASE f = Other(e)
      <4>1. Other(f) = e /\ wire'[f] = Tail(wire[Other(e)])
        BY <2>4, <2>8, <3>2, OtherEnd
      <4>. QED
        BY <1>6, <1>8, <2>7, <4>1 DEF GoodWire
    <3>. QED
      BY <3>1, <3>2, OtherEnd
  <2>. QED
    BY <2>9 DEF WiresOK
<1>15. ASSUME NEW f \in Ends PROVE DispatchOK(f)' /\ MonitorOK(f)' /\ HistoryOK(f)'
  <2>1. DispatchOK(f) /\ MonitorOK(f) /\ HistoryOK(f) /\ (life'[f] = "stopped" <=> life[f] = "stopped")
    BY <1>7 DEF IInv
  <2>2. CASE f # e
    BY <1>6, <1>9, <2>1, <2>2 DEF DispatchOK, MonitorOK, HistoryOK
  <2>3. CASE f = e
    <3>1. DispatchOK(e)'
      BY <1>3, <1>5, <1>6, <1>8 DEF DispatchOK
    <3>2. MonitorOK(e)'
      <4>1. m.pong = 0
        BY <1>10, <2>1, <2>3 DEF MonitorOK
      <4>2. monitor'[e] = [m EXCEPT !.on = TRUE, !.ping = 0]
        BY <1>2, <1>11 DEF Types
      <4>3. monitor'[e].ping = 0 /\ monitor'[e].pong = 0
        BY <4>1, <4>2
      <4>. QED
        BY <1>8, <4>3, PeerAssumption DEF MonitorOK
    <3>3. HistoryOK(e)'
      <4>1. starts'[e] = ToSet(protocols'[e]) /\ starts[e] \subseteq starts'[e]
        BY <1>3, <1>5, <1>8
      <4>. QED
        BY <1>2, <2>1, <2>3, <4>1 DEF HistoryOK
    <3>. QED
      BY <2>3, <3>1, <3>2, <3>3
  <2>. QED
    BY <2>2, <2>3
<1>. QED
  BY <1>12, <1>14, <1>15 DEF IInv

\* A ProtocolError of a service stops its protocol, which had been started, and
\* which may have been stopped before.
LEMMA FailStep ==
  ASSUME IInv, NEW e \in Ends, life[e] # "stopped", wire[Other(e)] # <<>>, After(e),
         NEW p \in Services, p \in ToSet(protocols[e]),
         UNCHANGED config, hello_received' = hello_received, protocols' = protocols,
         offset_based_dispatch' = offset_based_dispatch, starts' = starts, monitor' = monitor,
         wire' = [wire EXCEPT ![Other(e)] = Tail(@)],
         stops' = [stops EXCEPT ![e][p] = @ + 1],
         errors' = [errors EXCEPT ![e][p] = @ + 1]
  PROVE  IInv'
<1>1. Types /\ p \in Protos
  BY DEF IInv, Protos
<1>2. LifeKept
  BY <1>1, Halts DEF Types, After
<1>3. Wires(wire')
  BY WireSteps
<1>4. monitor' \in MonitorType /\ \A f \in Ends : MonitorOK(f)'
  BY SameMonitor
<1>5. offer' = offer /\ Full' = Full /\ ByOffset' = ByOffset /\ Packets' = Packets
  BY SameConfig
<1>6. PICK s \in [Protos -> Nat] : s = stops[e]
  BY <1>1 DEF Types
<1>7. stops' = [stops EXCEPT ![e] = [s EXCEPT ![p] = @ + 1]]
  BY <1>6
<1>8. [s EXCEPT ![p] = @ + 1] \in [Protos -> Nat]
  BY <1>1, <1>6
<1>12. PICK r \in [Services -> Nat] : r = errors[e]
  BY <1>1 DEF Types
<1>13. errors' = [errors EXCEPT ![e] = [r EXCEPT ![p] = @ + 1]]
  BY <1>12
<1>9. Types'
  <2>1. stops' \in [Ends -> [Protos -> Nat]]
    BY <1>1, <1>7, <1>8 DEF Types
  <2>2. errors' \in [Ends -> [Services -> Nat]]
    <3>1. [r EXCEPT ![p] = @ + 1] \in [Services -> Nat]
      BY <1>12
    <3>. QED
      BY <1>1, <1>13, <3>1 DEF Types
  <2>. QED
    BY <1>1, <1>2, <1>3, <1>4, <1>5, <2>1, <2>2 DEF Types, LifeKept, Wires, MonitorType
<1>10. WiresOK'
  <2>1. ASSUME NEW f \in Ends PROVE GoodWire(wire[f], ~ hello_received[Other(f)])'
    <3>1. PICK w : w = wire'
      OBVIOUS
    <3>2. GoodWire(w[f], ~ hello_received[Other(f)]) /\ hello_received' = hello_received
      BY <1>3, <3>1 DEF Wires
    <3>. QED
      BY <1>5, <3>1, <3>2 DEF GoodWire
  <2>. QED
    BY <2>1 DEF WiresOK
<1>11. ASSUME NEW f \in Ends PROVE DispatchOK(f)' /\ HistoryOK(f)'
  <2>1. DispatchOK(f) /\ HistoryOK(f) /\ (life'[f] = "stopped" <=> life[f] = "stopped")
    BY <1>2 DEF IInv, LifeKept
  <2>2. DispatchOK(f)'
    BY <1>5, <2>1 DEF DispatchOK
  <2>3. CASE f # e
    <3>1. stops'[f] = stops[f] /\ errors'[f] = errors[f]
      BY <1>1, <1>7, <1>13, <2>3 DEF Types
    <3>. QED
      BY <2>1, <2>2, <3>1 DEF HistoryOK
  <2>4. CASE f = e
    <3>1. errors'[e] = [r EXCEPT ![p] = @ + 1] /\ stops'[e] = [s EXCEPT ![p] = @ + 1]
      BY <1>1, <1>7, <1>13 DEF Types
    <3>2. p # P2P /\ p \in starts[e] /\ P2P \in Protos
      BY <2>1, <2>4, PeerAssumption DEF HistoryOK, Protos, P2P
    <3>3. /\ starts[e] = ToSet(protocols[e]) /\ P2P \in starts[e] /\ s[P2P] = 0
          /\ \A q \in Services : s[q] = r[q] /\ (q \notin starts[e] => r[q] = 0)
      <4>1. life[e] # "stopped" /\ HistoryOK(e)
        BY <2>1, <2>4
      <4>2. /\ starts[e] = ToSet(protocols[e]) /\ P2P \in starts[e] /\ stops[e][P2P] = 0
            /\ \A q \in Services : stops[e][q] = errors[e][q] /\ (q \notin starts[e] => errors[e][q] = 0)
        BY <4>1 DEF HistoryOK
      <4>. QED
        BY <1>6, <1>12, <4>2
    <3>4. ASSUME NEW q \in Services
          PROVE  stops'[e][q] = errors'[e][q] /\ (q \notin starts[e] => errors'[e][q] = 0)
      <4>1. q \in Protos
        BY DEF Protos
      <4>. QED
        BY <1>1, <1>6, <1>12, <3>1, <3>2, <3>3, <4>1
    <3>5. stops'[e][P2P] = 0
      BY <1>6, <3>1, <3>2, <3>3
    <3>6. life'[e] # "stopped"
      BY <2>1, <2>4
    <3>. QED
      BY <2>2, <2>4, <3>3, <3>4, <3>5, <3>6 DEF HistoryOK
  <2>. QED
    BY <2>3, <2>4
<1>. QED
  BY <1>4, <1>9, <1>10, <1>11 DEF IInv

\* The end of stop() tells every protocol.
LEMMA FinishStep ==
  ASSUME IInv, NEW e \in Ends, Finish(e)
  PROVE  IInv'
<1>1. Types /\ life[e] = "kill sender"
  BY DEF IInv, Finish
<1>2. /\ UNCHANGED config /\ hello_received' = hello_received
      /\ offset_based_dispatch' = offset_based_dispatch /\ starts' = starts /\ errors' = errors
  BY DEF Finish
<1>3. offer' = offer /\ Full' = Full /\ ByOffset' = ByOffset /\ Packets' = Packets
  BY <1>2, SameConfig
<1>4. life' = [life EXCEPT ![e] = "stopped"] /\ protocols' = [protocols EXCEPT ![e] = <<>>]
  BY DEF Finish
<1>5. PICK s \in [Protos -> Nat] : s = stops[e]
  BY <1>1 DEF Types
<1>6. PICK t \in [Protos -> Nat] : t = [p \in Protos |-> IF p \in ToSet(protocols[e]) THEN s[p] + 1 ELSE s[p]]
  <2>1. PICK ps : ps = ToSet(protocols[e])
    OBVIOUS
  <2>2. \A p \in Protos : s[p] \in Nat /\ s[p] + 1 \in Nat
    BY <1>5
  <2>3. [p \in Protos |-> IF p \in ps THEN s[p] + 1 ELSE s[p]] \in [Protos -> Nat]
    BY <2>2
  <2>. QED
    BY <2>1, <2>3
<1>7. stops' = [stops EXCEPT ![e] = t]
  <2>1. stops' = [stops EXCEPT ![e] = [p \in DOMAIN @ |-> IF p \in ToSet(protocols[e]) THEN @[p] + 1 ELSE @[p]]]
    BY DEF Finish
  <2>2. stops' = [stops EXCEPT ![e] = [p \in DOMAIN s |-> IF p \in ToSet(protocols[e]) THEN s[p] + 1 ELSE s[p]]]
    BY <1>5, <2>1
  <2>3. DOMAIN s = Protos
    BY <1>5
  <2>. QED
    BY <1>6, <2>2, <2>3
<1>8. PICK m \in [on : BOOLEAN, ping : Nat, pong : Nat] : m = monitor[e]
  BY <1>1 DEF Types
<1>9. monitor' = [monitor EXCEPT ![e] = [m EXCEPT !.on = FALSE]]
  <2>1. monitor' = [monitor EXCEPT ![e].on = FALSE]
    BY DEF Finish
  <2>. QED
    BY <1>8, <2>1
<1>10. PICK k \in 0 .. Len(wire[e]) : wire' = [wire EXCEPT ![e] = SubSeq(@, 1, k), ![Other(e)] = <<>>]
  BY DEF Finish
<1>11. DOMAIN wire' = Ends /\ wire'[e] = SubSeq(wire[e], 1, k) /\ wire'[Other(e)] = <<>>
  <2>1. Other(e) \in Ends /\ Other(e) # e
    BY OtherEnd
  <2>. QED
    BY <1>1, <1>10, <2>1 DEF Types
<1>12. Types'
  <2>1. life' \in [Ends -> Lives]
    BY <1>1, <1>4 DEF Types, Lives
  <2>2. monitor' \in [Ends -> [on : BOOLEAN, ping : Nat, pong : Nat]]
    BY <1>1, <1>8, <1>9 DEF Types
  <2>3. stops' \in [Ends -> [Protos -> Nat]]
    BY <1>1, <1>6, <1>7 DEF Types
  <2>4. DOMAIN protocols' = Ends
    BY <1>1, <1>4 DEF Types
  <2>. QED
    BY <1>1, <1>2, <1>3, <1>11, <2>1, <2>2, <2>3, <2>4 DEF Types
<1>13. WiresOK'
  <2>1. PICK a \in BOOLEAN : a = ~ hello_received[Other(e)]
    OBVIOUS
  <2>2. PICK b \in BOOLEAN : b = ~ hello_received[e]
    OBVIOUS
  <2>3. GoodWire(wire[e], a)
    BY <2>1 DEF IInv, WiresOK
  <2>4. GoodWire(SubSeq(wire[e], 1, k), a) /\ GoodWire(<<>>, b)
    BY <1>10, <2>3, WireRules, EmptyWire
  <2>5. ASSUME NEW f \in Ends PROVE GoodWire(wire[f], ~ hello_received[Other(f)])'
    <3>1. CASE f = e
      BY <1>2, <1>3, <1>11, <2>1, <2>4, <3>1 DEF GoodWire
    <3>2. CASE f = Other(e)
      <4>1. Other(f) = e
        BY <3>2, OtherEnd
      <4>. QED
        BY <1>2, <1>3, <1>11, <2>2, <2>4, <3>2, <4>1 DEF GoodWire
    <3>. QED
      BY <3>1, <3>2, OtherEnd
  <2>. QED
    BY <2>5 DEF WiresOK
<1>14. ASSUME NEW f \in Ends PROVE DispatchOK(f)' /\ MonitorOK(f)' /\ HistoryOK(f)'
  <2>1. DispatchOK(f) /\ MonitorOK(f) /\ HistoryOK(f)
    BY DEF IInv
  <2>2. CASE f # e
    <3>1. /\ life'[f] = life[f] /\ protocols'[f] = protocols[f] /\ monitor'[f] = monitor[f]
          /\ stops'[f] = stops[f]
      BY <1>1, <1>4, <1>7, <1>9, <2>2 DEF Types
    <3>. QED
      BY <1>2, <1>3, <2>1, <3>1 DEF DispatchOK, MonitorOK, HistoryOK
  <2>3. CASE f = e
    <3>1. life'[e] = "stopped" /\ stops'[e] = t
      BY <1>1, <1>4, <1>7 DEF Types
    <3>2. monitor'[e].ping = monitor[e].ping /\ monitor'[e].pong = monitor[e].pong
      <4>1. monitor'[e] = [m EXCEPT !.on = FALSE]
        BY <1>1, <1>9 DEF Types
      <4>. QED
        BY <1>8, <4>1
    <3>3. /\ starts[e] = ToSet(protocols[e]) /\ P2P \in starts[e] /\ s[P2P] = 0
          /\ \A p \in Services : s[p] = errors[e][p] /\ (p \notin starts[e] => errors[e][p] = 0)
      <4>1. life[e] # "stopped" /\ HistoryOK(e)
        BY <1>1, <2>1, <2>3
      <4>2. /\ starts[e] = ToSet(protocols[e]) /\ P2P \in starts[e] /\ stops[e][P2P] = 0
            /\ \A p \in Services : stops[e][p] = errors[e][p] /\ (p \notin starts[e] => errors[e][p] = 0)
        BY <4>1 DEF HistoryOK
      <4>. QED
        BY <1>5, <4>2
    <3>4. ASSUME NEW p \in Services
          PROVE  t[p] = IF p \in starts[e] THEN 1 + errors[e][p] ELSE 0
      <4>1. t[p] = IF p \in ToSet(protocols[e]) THEN s[p] + 1 ELSE s[p]
        BY <1>6 DEF Protos
      <4>2. errors \in [Ends -> [Services -> Nat]]
        BY <1>1 DEF Types
      <4>. QED
        BY <3>3, <4>1, <4>2
    <3>7. t[P2P] = 1
      BY <1>6, <3>3 DEF Protos
    <3>5. HistoryOK(e)'
      BY <1>2, <3>1, <3>4, <3>7 DEF HistoryOK
    <3>6. DispatchOK(e)' /\ MonitorOK(e)'
      BY <1>2, <2>1, <2>3, <3>1, <3>2 DEF DispatchOK, MonitorOK
    <3>. QED
      BY <2>3, <3>5, <3>6
  <2>. QED
    BY <2>2, <2>3
<1>. QED
  BY <1>12, <1>13, <1>14 DEF IInv

\* Every handler.
LEMMA HandleStep ==
  ASSUME IInv, NEW e \in Ends, _handle_packet(e)
  PROVE  IInv'
<1> DEFINE pk == Head(wire[Other(e)])
           to == protocol_cmd_id_from_packet(protocols[e], offset_based_dispatch[e], pk)
           Popped == [wire EXCEPT ![Other(e)] = Tail(@)]
           Is(c) == to.proto = P2P /\ to.cmd = c
           Quiet == UNCHANGED <<hello_received, offset_based_dispatch, protocols, deferred, starts>>
<1>1. wire[Other(e)] # <<>> /\ life[e] # "stopped" /\ UNCHANGED config
  BY DEF _handle_packet
<1>2. \/ Is(Hello) /\ HandleHello(e) /\ After(e) /\ UNCHANGED <<stops, errors>>
      \/ wire' = Popped /\ Quiet /\ Stopping(e, TRUE) /\ UNCHANGED <<monitor, stops, errors>>
      \/ wire' = Sends(Popped, e, <<Control(e, Pong)>>) /\ Quiet /\ After(e) /\ UNCHANGED <<monitor, stops, errors>>
      \/ monitor' = [monitor EXCEPT ![e].pong = 0] /\ wire' = Popped /\ Quiet /\ After(e) /\ UNCHANGED <<stops, errors>>
      \/ wire' = Popped /\ Quiet /\ After(e) /\ UNCHANGED <<monitor, stops, errors>>
      \/ to.proto \in Services /\ wire' = Popped /\ Quiet /\ After(e) /\ UNCHANGED monitor
         /\ stops' = [stops EXCEPT ![e][to.proto] = @ + 1]
         /\ errors' = [errors EXCEPT ![e][to.proto] = @ + 1]
  BY DEF _handle_packet, After
<1>3. /\ Is(Hello) => ~ hello_received[e]
      /\ to.proto \in Services => to.proto \in ToSet(protocols[e])
  BY <1>1, HeadTaken
<1> HIDE DEF to
<1>4. CASE Is(Hello) /\ HandleHello(e) /\ After(e) /\ UNCHANGED <<stops, errors>>
  <2>1. CASE myself
    <3>1. /\ wire' = Sends(Popped, e, <<Control(e, Disconnect)>>)
          /\ UNCHANGED <<hello_received, offset_based_dispatch, protocols, monitor, starts>>
      BY <1>4, <2>1 DEF HandleHello
    <3>2. Unconnected /\ Heard(e) /\ Took(e)
      BY <1>1, <1>4, <3>1 DEF Unconnected, Heard, Took, history
    <3>. QED
      BY <1>1, <1>4, <3>2, QuietHandlers
  <2>2. CASE ~ myself
    BY <1>1, <1>3, <1>4, <2>2, HelloStep
  <2>. QED
    BY <2>1, <2>2
<1>5. CASE wire' = Popped /\ Quiet /\ Stopping(e, TRUE) /\ UNCHANGED <<monitor, stops, errors>>
  <2>1. Unconnected /\ Heard(e) /\ Took(e)
    BY <1>1, <1>5 DEF Unconnected, Heard, Took, history
  <2>. QED
    BY <1>1, <1>5, <2>1, QuietHandlers
<1>6. CASE wire' = Sends(Popped, e, <<Control(e, Pong)>>) /\ Quiet /\ After(e) /\ UNCHANGED <<monitor, stops, errors>>
  <2>1. Unconnected /\ Heard(e) /\ Took(e)
    BY <1>1, <1>6 DEF Unconnected, Heard, Took, history
  <2>. QED
    BY <1>1, <1>6, <2>1, QuietHandlers
<1>7. CASE monitor' = [monitor EXCEPT ![e].pong = 0] /\ wire' = Popped /\ Quiet /\ After(e) /\ UNCHANGED <<stops, errors>>
  <2>1. Unconnected /\ Heard(e) /\ Took(e)
    BY <1>1, <1>7 DEF Unconnected, Heard, Took, history
  <2>. QED
    BY <1>1, <1>7, <2>1, QuietHandlers
<1>8. CASE wire' = Popped /\ Quiet /\ After(e) /\ UNCHANGED <<monitor, stops, errors>>
  <2>1. Unconnected /\ Heard(e) /\ Took(e)
    BY <1>1, <1>8 DEF Unconnected, Heard, Took, history
  <2>. QED
    BY <1>1, <1>8, <2>1, QuietHandlers
<1>9. CASE /\ to.proto \in Services /\ wire' = Popped /\ Quiet /\ After(e) /\ UNCHANGED monitor
             /\ stops' = [stops EXCEPT ![e][to.proto] = @ + 1]
           /\ errors' = [errors EXCEPT ![e][to.proto] = @ + 1]
  <2>1. PICK p \in Services : p = to.proto
    BY <1>9
  <2>. QED
    BY <1>1, <1>3, <1>9, <2>1, FailStep
<1>. QED
  BY <1>2, <1>4, <1>5, <1>6, <1>7, <1>8, <1>9

LEMMA Initially == ASSUME Init PROVE IInv
<1>1. offer \in Offers /\ life = [e \in Ends |-> "running"]
  BY DEF Init
<1>2. PICK pk : pk = send_packet(<<P2P>>, FALSE, P2P, Hello)
  OBVIOUS
<1>3. pk = ControlPacket(Hello) /\ pk \in Packets
  <2>1. Hello \in Hello .. Pong
    BY DEF Hello, Pong
  <2>2. pk = ControlPacket(Hello)
    BY <1>1, <1>2, <2>1, BothLists, ControlSent
  <2>. QED
    BY <2>1, <2>2 DEF Packets, ControlPackets
<1>4. wire = [e \in Ends |-> <<pk>>] /\ hello_received = [e \in Ends |-> FALSE]
  BY <1>2 DEF Init
<1>5. GoodWire(<<pk>>, TRUE)
  BY <1>3 DEF GoodWire
<1>6. WiresOK
  BY <1>4, <1>5, OtherEnd DEF WiresOK
<1>7. Types
  <2>1. life \in [Ends -> Lives] /\ DOMAIN wire = Ends
    BY <1>1, <1>4 DEF Lives
  <2>2. hello_received \in [Ends -> BOOLEAN] /\ offset_based_dispatch \in [Ends -> BOOLEAN]
    BY DEF Init
  <2>3. DOMAIN protocols = Ends
    BY DEF Init
  <2>4. monitor \in [Ends -> [on : BOOLEAN, ping : Nat, pong : Nat]]
    BY DEF Init
  <2>5. starts \in [Ends -> SUBSET Protos] /\ errors \in [Ends -> [Services -> Nat]]
    BY DEF Init, Protos
  <2>6. stops \in [Ends -> [Protos -> Nat]]
    BY DEF Init, Protos
  <2>. QED
    BY <1>1, <2>1, <2>2, <2>3, <2>4, <2>5, <2>6 DEF Types
<1>8. ASSUME NEW e \in Ends PROVE DispatchOK(e) /\ MonitorOK(e) /\ HistoryOK(e)
  <2>1. /\ life[e] = "running" /\ hello_received[e] = FALSE /\ offset_based_dispatch[e] = FALSE
        /\ protocols[e] = <<P2P>> /\ starts[e] = {P2P} /\ \A p \in Services : errors[e][p] = 0
    BY DEF Init
  <2>2. \A p \in Protos : stops[e][p] = 0
    BY DEF Init, Protos
  <2>3. monitor[e].ping = 0 /\ monitor[e].pong = 0
    BY DEF Init
  <2>4. ToSet(<<P2P>>) = {P2P}
    BY <1>1, BothLists
  <2>5. DispatchOK(e)
    BY <2>1 DEF DispatchOK
  <2>6. MonitorOK(e)
    BY <2>3, PeerAssumption DEF MonitorOK
  <2>7. HistoryOK(e)
    BY <2>1, <2>2, <2>4 DEF HistoryOK, Protos
  <2>. QED
    BY <2>5, <2>6, <2>7
<1>. QED
  BY <1>6, <1>7, <1>8 DEF IInv

LEMMA Stays == ASSUME IInv, UNCHANGED vars PROVE IInv'
<1>1. UNCHANGED <<config, hello_received, offset_based_dispatch, protocols, history, monitor, wire>> /\ life' = life
  BY DEF vars, config, history
<1>2. "dialler" \in Ends /\ life \in [Ends -> Lives]
  BY DEF Ends, IInv, Types
<1>3. LifeKept /\ Wires(wire')
  BY <1>1, <1>2, Halts, WireSteps
<1>. QED
  BY <1>1, <1>3, StillStep

\* Both ends keep the invariant, whatever they do and in whatever order the
\* greenlets of peer.py, p2p_protocol.py and protocol.py run.
THEOREM PeerInvariant == Spec => []IInv
<1>1. Init => IInv
  BY Initially
<1>2. IInv /\ [Next]_vars => IInv'
  <2> SUFFICES ASSUME IInv, [Next]_vars PROVE IInv'
    OBVIOUS
  <2>1. ASSUME NEW e \in Ends, _handle_packet(e) PROVE IInv'
    BY <2>1, HandleStep
  <2>2. ASSUME NEW e \in Ends, KillDecoder(e) \/ Quit(e) \/ DeferredStop(e) \/ check_if_dumb_remote(e) \/ Hang(e)
        PROVE  IInv'
    BY <2>2, GreenletSteps
  <2>3. ASSUME NEW e \in Ends, Finish(e) PROVE IInv'
    BY <2>3, FinishStep
  <2>4. ASSUME NEW e \in Ends, Send(e) PROVE IInv'
    BY <2>4, SendStep
  <2>5. CASE (\E e \in Ends : MonitorWakes(e)) \/ Tick
    BY <2>5, MonitorSteps
  <2>6. CASE UNCHANGED vars
    BY <2>6, Stays
  <2>. QED
    BY <2>1, <2>2, <2>3, <2>4, <2>5, <2>6 DEF Next
<1>. QED
  BY <1>1, <1>2, PTL DEF Spec

-----------------------------------------------------------------------------
(* The theorems.                                                           *)

\* Peer.stop, called by the decoder, by another greenlet or twice, tells every
\* service that was started of the peer's stop exactly once, beyond one stop for
\* every ProtocolError of its protocol, and nobody else.
THEOREM EveryStopTold == Spec => []EachStartStopped
<1>1. IInv => EachStartStopped
  BY DEF IInv, HistoryOK, EachStartStopped
<1>. QED
  BY <1>1, PeerInvariant, PTL

\* ConnectionMonitor gives a silent remote up in time: the running peer's last
\* pong is never older than the threshold and two ping intervals.
THEOREM SilentRemoteEnds == Spec => []SilenceEnds
<1>1. ASSUME IInv, NEW e \in Ends PROVE monitor[e].pong <= Threshold + 2
  <2>1. MonitorOK(e) /\ monitor \in [Ends -> [on : BOOLEAN, ping : Nat, pong : Nat]]
    BY <1>1 DEF IInv, Types
  <2>2. PICK m \in [on : BOOLEAN, ping : Nat, pong : Nat] : m = monitor[e]
    BY <2>1
  <2>3. m.ping <= 1 /\ m.pong <= Threshold + 1 + m.ping /\ Threshold \in Nat
    BY <2>1, <2>2, PeerAssumption DEF MonitorOK
  <2>4. m.pong <= Threshold + 2
    BY <2>3
  <2>. QED
    BY <2>2, <2>4
<1>2. IInv => SilenceEnds
  BY <1>1 DEF SilenceEnds
<1>. QED
  BY <1>2, PeerInvariant, PTL

\* Unless a service without commands comes before another one, whose packets
\* send_packet and protocol_cmd_id_from_packet then number differently
\* (peer.py:188), a packet is handed to the protocol and command it was sent as,
\* or to none, for any services, versions and orders of registration.
THEOREM PacketsReachTheirProtocol ==
  ASSUME LastMayBeEmpty
  PROVE  Spec => []RightProtocol
<1>1. ASSUME IInv, NEW e \in Ends, NEW i \in DOMAIN wire[Other(e)],
             hello_received[e], life[e] # "stopped"
      PROVE  protocol_cmd_id_from_packet(protocols[e], offset_based_dispatch[e], wire[Other(e)][i])
             \in {[proto |-> wire[Other(e)][i].proto, cmd |-> wire[Other(e)][i].cmd], Unknown}
  <2>1. PICK w : w = wire[Other(e)]
    OBVIOUS
  <2>2. PICK pk : pk = w[i]
    OBVIOUS
  <2>3. w \in Seq(Packets)
    BY <1>1, <2>1, OtherEnd DEF IInv, WiresOK, GoodWire
  <2>4. pk \in Packets
    BY <1>1, <2>1, <2>2, <2>3
  <2>5. PICK ps : ps = protocols[e]
    OBVIOUS
  <2>6. DispatchOK(e) /\ offer \in Offers
    BY <1>1 DEF IInv, Types
  <2>7. ps \in {<<P2P>>, Full} /\ offset_based_dispatch[e] = ByOffset
    <3>1. offset_based_dispatch[e] = (hello_received[e] /\ ByOffset) /\ ByOffset \in BOOLEAN
      BY <1>1, <2>6 DEF DispatchOK, ByOffset
    <3>. QED
      BY <1>1, <2>5, <2>6, <3>1 DEF DispatchOK
  <2>8. IsList(ps) /\ IsList(Full)
    BY <2>6, <2>7, BothLists
  <2>9. PICK to : to = protocol_cmd_id_from_packet(ps, ByOffset, pk)
    OBVIOUS
  <2>10. to \in {[proto |-> pk.proto, cmd |-> pk.cmd], Unknown}
    <3>1. CASE pk \in ControlPackets
      <4>1. PICK c \in Hello .. Pong : pk = ControlPacket(c)
        BY <3>1 DEF ControlPackets
      <4>2. ByOffset \in BOOLEAN
        BY DEF ByOffset
      <4>3. to = [proto |-> P2P, cmd |-> c]
        BY <2>8, <2>9, <4>1, <4>2, ControlTaken
      <4>4. pk.proto = P2P /\ pk.cmd = c
        BY <4>1 DEF ControlPacket
      <4>. QED
        BY <4>3, <4>4
    <3>2. CASE pk \in ServicePackets
      BY <2>7, <2>8, <2>9, <3>2, RightTaken
    <3>. QED
      BY <2>4, <3>1, <3>2 DEF Packets
  <2>. QED
    BY <2>1, <2>2, <2>5, <2>7, <2>9, <2>10
<1>2. IInv => RightProtocol
  BY <1>1 DEF RightProtocol
<1>. QED
  BY <1>2, PeerInvariant, PTL
===============================================================================
