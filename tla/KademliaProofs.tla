----------------------------- MODULE KademliaProofs -----------------------------
(***************************************************************************)
(* The routing table of a node, for any size of ids and buckets, any       *)
(* remotes with even ids and anything they send at any time: the table     *)
(* stays sound, and only silent nodes leave it.                            *)
(***************************************************************************)
EXTENDS Kademlia, FiniteSetTheorems, SequenceTheorems, WellFoundedInduction, TLAPS

-----------------------------------------------------------------------------
(* Numbers.                                                                *)

\* Every non-empty set of naturals has a least element.
LEMMA LeastNat ==
  ASSUME NEW T, T \subseteq Nat, T # {}
  PROVE  \E x \in T : \A y \in T : x <= y
<1>1. PICK x \in T : \A y \in T : ~ (<<y, x>> \in OpToRel(<, Nat))
  BY NatLessThanWellFounded, WFMin
<1>2. \A y \in T : ~ (y < x)
  BY <1>1 DEF OpToRel
<1>. QED
  BY <1>2

LEMMA Constants ==
  /\ IdBits \in Nat /\ IdBits > 0 /\ K \in Nat /\ K > 1
  /\ Timeout \in Nat /\ PerSecond \in Nat /\ PerSecond > 0
  /\ MaxNow \in Nat /\ MaxPackets \in Nat
BY TableAssumption, ProtocolAssumption, KademliaAssumption

\* pow(2, d) for a d that is not 0 is even.
LEMMA Doubles ==
  /\ \A d \in 0 .. IdBits : Pow[d] \in Nat /\ Pow[d] > 0
  /\ \A d \in 1 .. IdBits : d - 1 \in 0 .. IdBits /\ Pow[d] = 2 * Pow[d - 1]
<1>1. ASSUME NEW d \in 1 .. IdBits PROVE d - 1 \in 0 .. IdBits - 1 /\ Pow[d] = 2 * Pow[d - 1]
  <2>1. d - 1 \in 0 .. IdBits - 1 /\ (d - 1) + 1 = d
    BY Constants
  <2>. QED
    BY <2>1, PowAssumption
<1>2. \A d \in 0 .. IdBits : Pow[d] \in Nat
  BY PowAssumption
<1> DEFINE Bad == {d \in 0 .. IdBits : ~ (Pow[d] > 0)}
<1>3. ASSUME Bad # {} PROVE FALSE
  <2>0. Bad \subseteq Nat
    BY Constants
  <2>1. PICK d \in Bad : \A y \in Bad : d <= y
    BY <1>3, <2>0, LeastNat
  <2>2. CASE d = 0
    BY <2>1, <2>2, PowAssumption
  <2>3. CASE d # 0
    <3>1. d \in 1 .. IdBits
      BY <2>1, <2>3, Constants
    <3>2. d - 1 \in 0 .. IdBits /\ d - 1 \notin Bad
      BY <2>1, <3>1, Constants
    <3>. QED
      BY <1>1, <1>2, <2>1, <3>1, <3>2
  <2>. QED
    BY <2>2, <2>3
<1>. QED
  BY <1>1, <1>2, <1>3, Constants

\* A larger power of two is a multiple of a smaller one.
LEMMA Powers ==
  ASSUME NEW m \in 1 .. IdBits, NEW d \in m .. IdBits
  PROVE  \E c \in Nat : c > 0 /\ Pow[d] = c * Pow[m]
<1> DEFINE Bad == {e \in m .. IdBits : ~ \E c \in Nat : c > 0 /\ Pow[e] = c * Pow[m]}
<1>0. m \in Nat /\ m >= 1 /\ m \in 0 .. IdBits /\ Pow[m] \in Nat
  BY Constants, Doubles
<1>1. ASSUME Bad # {} PROVE FALSE
  <2>1. Bad \subseteq Nat
    BY <1>0
  <2>2. PICK e \in Bad : \A y \in Bad : e <= y
    BY <1>1, <2>1, LeastNat
  <2>3. e # m
    <3>1. 1 \in Nat /\ 1 > 0 /\ Pow[m] = 1 * Pow[m]
      BY <1>0
    <3>. QED
      BY <2>2, <3>1
  <2>4. e - 1 \in m .. IdBits /\ e \in 1 .. IdBits /\ e - 1 \notin Bad
    BY <1>0, <2>2, <2>3, Constants
  <2>5. PICK c \in Nat : c > 0 /\ Pow[e - 1] = c * Pow[m]
    BY <2>4
  <2>6. Pow[e] = 2 * (c * Pow[m])
    BY <2>4, <2>5, Doubles
  <2>7. 2 * c \in Nat /\ 2 * c > 0 /\ 2 * (c * Pow[m]) = (2 * c) * Pow[m]
    BY <1>0, <2>5
  <2>. QED
    BY <2>2, <2>6, <2>7
<1>. QED
  BY <1>1

\* The size of the blocks over which the remote ids are scattered.
Grain == CHOOSE m \in 1 .. IdBits : Scattered(m)

LEMMA GrainFacts ==
  ASSUME ScatteredRemotes
  PROVE  /\ Grain \in 1 .. IdBits /\ Grain \in Nat /\ Scattered(Grain)
         /\ Pow[Grain] \in Nat /\ Pow[Grain] > 1
<1>1. Grain \in 1 .. IdBits /\ Scattered(Grain)
  BY DEF ScatteredRemotes, Grain
<1>2. Grain - 1 \in 0 .. IdBits /\ Pow[Grain] = 2 * Pow[Grain - 1]
  BY <1>1, Doubles
<1>3. Pow[Grain - 1] \in Nat /\ Pow[Grain - 1] > 0
  BY <1>2, Doubles
<1>. QED
  BY <1>1, <1>2, <1>3, Constants

LEMMA RemoteIds == \A n \in Remotes : n \in Nat
BY KademliaAssumption, Doubles, Constants DEF Ids

\* Quotient and remainder.
LEMMA Quotient ==
  ASSUME NEW a \in Nat, NEW g \in Nat, NEW r \in Nat, r < g
  PROVE  (a * g + r) \div g = a /\ (a * g + r) % g = r
OBVIOUS

LEMMA Blocks ==
  ASSUME NEW q \in Nat, NEW c \in Nat, NEW g \in Nat, c > 0
  PROVE  /\ q * c \in Nat /\ q * (c * g) = (q * c) * g
         /\ q * c + c - 1 \in Nat /\ q * (c * g) + c * g = (q * c + c - 1) * g + g
OBVIOUS

-----------------------------------------------------------------------------
(* Lists.                                                                  *)

\* A list without its first occurrence of a node.
LEMMA RemoveFirstFacts ==
  ASSUME NEW S, NEW s \in Seq(S), NEW x
  PROVE  /\ RemoveFirst(s, x) \in Seq(S)
         /\ Len(RemoveFirst(s, x)) <= Len(s)
         /\ Range(RemoveFirst(s, x)) \subseteq Range(s)
         /\ Range(s) \ {x} \subseteq Range(RemoveFirst(s, x))
         /\ x \in Range(s) => Len(RemoveFirst(s, x)) = Len(s) - 1
         /\ IsInjective(s) => IsInjective(RemoveFirst(s, x)) /\ x \notin Range(RemoveFirst(s, x))
<1>1. CASE ~ \E i \in 1 .. Len(s) : s[i] = x
  <2>1. RemoveFirst(s, x) = s
    BY <1>1 DEF RemoveFirst
  <2>2. x \notin Range(s)
    BY <1>1 DEF Range
  <2>. QED
    BY <2>1, <2>2
<1>2. CASE \E i \in 1 .. Len(s) : s[i] = x
  <2> DEFINE I == {i \in 1 .. Len(s) : s[i] = x}
             k == Min(I)
             a == SubSeq(s, 1, k - 1)
             b == SubSeq(s, k + 1, Len(s))
             r == RemoveFirst(s, x)
  <2>1. I # {} /\ I \subseteq Nat
    BY <1>2
  <2>2. k \in I /\ \A i \in I : k <= i
    BY <2>1, LeastNat DEF Min
  <2>3. r = a \o b
    BY <1>2, <2>1 DEF RemoveFirst, RemoveAt, SelectInSeq
  <2>4. k \in 1 .. Len(s) /\ s[k] = x /\ Len(s) \in Nat /\ k \in Nat
    BY <2>2
  <2> HIDE DEF k, I, r
  <2>5. a \in Seq(S) /\ Len(a) = k - 1 /\ \A i \in 1 .. k - 1 : a[i] = s[i]
    BY <2>4
  <2>6. b \in Seq(S) /\ Len(b) = Len(s) - k /\ \A i \in 1 .. Len(s) - k : b[i] = s[k + i]
    BY <2>4
  <2> HIDE DEF a, b
  <2>6a. a \o b \in Seq(S) /\ Len(a \o b) = Len(a) + Len(b)
    BY <2>5, <2>6, ConcatProperties
  <2>7. a \o b \in Seq(S) /\ Len(a \o b) = Len(s) - 1
    BY <2>4, <2>5, <2>6, <2>6a
  <2>7a. \A i \in 1 .. Len(a) + Len(b) : (a \o b)[i] = IF i <= Len(a) THEN a[i] ELSE b[i - Len(a)]
    BY <2>5, <2>6, ConcatProperties
  <2>8. \A i \in 1 .. Len(s) - 1 : (a \o b)[i] = IF i < k THEN s[i] ELSE s[i + 1]
    <3>1. TAKE i \in 1 .. Len(s) - 1
    <3>0. i \in 1 .. Len(a) + Len(b)
      BY <2>4, <2>5, <2>6
    <3>1a. i \in Nat /\ i >= 1 /\ i <= Len(s) - 1 /\ Len(s) \in Nat /\ k \in Nat
      BY <2>4
    <3>2. CASE i < k
      <4>1. i <= Len(a) /\ i \in 1 .. k - 1
        BY <2>4, <2>5, <3>1a, <3>2
      <4>. QED
        BY <2>5, <2>7a, <3>0, <3>2, <4>1
    <3>3. CASE i >= k
      <4>1. ~ (i <= Len(a)) /\ i - Len(a) = i - k + 1 /\ i - k + 1 \in 1 .. Len(s) - k /\ k + (i - k + 1) = i + 1
        BY <2>4, <2>5, <3>1a, <3>3
      <4>2. (a \o b)[i] = b[i - Len(a)]
        BY <2>7a, <3>0, <4>1
      <4>3. b[i - k + 1] = s[k + (i - k + 1)]
        BY <2>6, <4>1
      <4>4. ~ (i < k)
        BY <3>1a, <3>3
      <4>. QED
        BY <4>1, <4>2, <4>3, <4>4
    <3>4. i < k \/ i >= k
      BY <3>1a
    <3>. QED
      BY <3>2, <3>3, <3>4, Zenon
  <2> DEFINE c == a \o b
             at(i) == IF i < k THEN i ELSE i + 1
  <2>9. c \in Seq(S) /\ Len(c) = Len(s) - 1 /\ DOMAIN c = 1 .. Len(s) - 1 /\ DOMAIN s = 1 .. Len(s)
    BY <2>7, <2>4
  <2>10. \A i \in DOMAIN c : at(i) \in DOMAIN s /\ at(i) # k /\ c[i] = s[at(i)]
    BY <2>4, <2>8, <2>9
  <2>11. \A i \in DOMAIN s : i # k => \E j \in DOMAIN c : at(j) = i
    <3>1. TAKE i \in DOMAIN s
    <3>2. CASE i < k
      <4>1. i \in DOMAIN c /\ at(i) = i
        BY <2>4, <2>9, <3>2
      <4>. QED
        BY <4>1
    <3>3. CASE i > k
      <4>1. i - 1 \in DOMAIN c /\ at(i - 1) = i
        BY <2>4, <2>9, <3>3
      <4>. QED
        BY <4>1
    <3>. QED
      BY <2>4, <2>9, <3>2, <3>3
  <2>12. \A i, j \in DOMAIN c : at(i) = at(j) => i = j
    BY <2>4, <2>9
  <2> HIDE DEF c, at
  <2>13. r = c
    BY <2>3 DEF c
  <2>14. Range(c) \subseteq Range(s)
    BY <2>10 DEF Range
  <2>15. Range(s) \ {x} \subseteq Range(c)
    <3>1. ASSUME NEW y \in Range(s), y # x PROVE y \in Range(c)
      <4>1. PICK i \in DOMAIN s : s[i] = y
        BY DEF Range
      <4>2. PICK j \in DOMAIN c : at(j) = i
        BY <2>4, <2>11, <3>1, <4>1
      <4>. QED
        BY <2>10, <4>1, <4>2 DEF Range
    <3>. QED
      BY <3>1
  <2>16. ASSUME IsInjective(s) PROVE IsInjective(c) /\ x \notin Range(c)
    <3>1. \A i, j \in DOMAIN c : c[i] = c[j] => i = j
      BY <2>10, <2>12, <2>16 DEF IsInjective
    <3>2. \A i \in DOMAIN c : c[i] # x
      BY <2>4, <2>9, <2>10, <2>16 DEF IsInjective
    <3>. QED
      BY <3>1, <3>2 DEF IsInjective, Range
  <2>. QED
    BY <2>4, <2>9, <2>13, <2>14, <2>15, <2>16 DEF r
<1>. QED
  BY <1>1, <1>2

\* A list with a node at its tail that it did not have.
LEMMA AppendFacts ==
  ASSUME NEW S, NEW s \in Seq(S), NEW x \in S
  PROVE  /\ Append(s, x) \in Seq(S) /\ Len(Append(s, x)) = Len(s) + 1
         /\ Range(Append(s, x)) = Range(s) \cup {x}
         /\ IsInjective(s) /\ x \notin Range(s) => IsInjective(Append(s, x))
<1> DEFINE t == Append(s, x)
<1>1. t \in Seq(S) /\ Len(t) = Len(s) + 1 /\ Len(s) \in Nat
  OBVIOUS
<1>2. (\A i \in 1 .. Len(s) : t[i] = s[i]) /\ t[Len(s) + 1] = x
  OBVIOUS
<1>3. DOMAIN s = 1 .. Len(s) /\ DOMAIN t = 1 .. Len(s) + 1
  BY <1>1
<1> HIDE DEF t
<1>4. Range(t) = Range(s) \cup {x}
  <2>1. Range(t) \subseteq Range(s) \cup {x}
    <3>1. ASSUME NEW i \in DOMAIN t PROVE t[i] \in Range(s) \cup {x}
      <4>1. CASE i \in 1 .. Len(s)
        BY <1>2, <1>3, <4>1 DEF Range
      <4>2. CASE i = Len(s) + 1
        BY <1>2, <4>2
      <4>. QED
        BY <1>1, <1>3, <3>1, <4>1, <4>2
    <3>. QED
      BY <3>1 DEF Range
  <2>2. \A i \in DOMAIN s : i \in DOMAIN t /\ t[i] = s[i]
    BY <1>1, <1>2, <1>3
  <2>3. Len(s) + 1 \in DOMAIN t
    BY <1>1, <1>3
  <2>. QED
    BY <1>2, <2>1, <2>2, <2>3 DEF Range
<1>5. ASSUME IsInjective(s), x \notin Range(s) PROVE IsInjective(t)
  <2>1. SUFFICES ASSUME NEW i \in DOMAIN t, NEW j \in DOMAIN t, t[i] = t[j], i # j PROVE FALSE
    BY DEF IsInjective
  <2>2. \A k \in DOMAIN s : s[k] # x
    BY <1>5 DEF Range
  <2>3. CASE i \in DOMAIN s /\ j \in DOMAIN s
    BY <1>2, <1>3, <1>5, <2>1, <2>3 DEF IsInjective
  <2>4. CASE i \notin DOMAIN s \/ j \notin DOMAIN s
    BY <1>1, <1>2, <1>3, <2>1, <2>2, <2>4
  <2>. QED
    BY <2>3, <2>4
<1>. QED
  BY <1>1, <1>4, <1>5 DEF t

\* The loop that distributes a list.
IsPart(part, s, mid, upto, len) ==
  part = [i \in 0 .. len |->
            IF i = 0 THEN <<>>
            ELSE IF (s[i] <= mid) = upto THEN Append(part[i - 1], s[i]) ELSE part[i - 1]]

LEMMA PartExists ==
  ASSUME NEW s, NEW mid, NEW upto, NEW len \in Nat
  PROVE  \E part : IsPart(part, s, mid, upto, len)
<1> DEFINE Bad == {m \in 0 .. len : ~ \E part : IsPart(part, s, mid, upto, m)}
<1>1. ASSUME Bad # {} PROVE FALSE
  <2>1. Bad \subseteq Nat
    OBVIOUS
  <2>2. PICK m \in Bad : \A y \in Bad : m <= y
    BY <1>1, <2>1, LeastNat
  <2>3. CASE m = 0
    <3> DEFINE g == [i \in 0 .. 0 |-> <<>>]
    <3>1. IsPart(g, s, mid, upto, 0)
      BY DEF IsPart
    <3>. QED
      BY <2>2, <2>3, <3>1
  <2>4. CASE m # 0
    <3>1. m - 1 \in 0 .. len /\ m \in Nat /\ m > 0 /\ m - 1 \notin Bad
      BY <2>2, <2>4
    <3>2. PICK g : IsPart(g, s, mid, upto, m - 1)
      BY <3>1
    <3> DEFINE last == IF (s[m] <= mid) = upto THEN Append(g[m - 1], s[m]) ELSE g[m - 1]
               h == [i \in 0 .. m |-> IF i = m THEN last ELSE g[i]]
               Next_(f, i) == IF i = 0 THEN <<>>
                             ELSE IF (s[i] <= mid) = upto THEN Append(f[i - 1], s[i]) ELSE f[i - 1]
    <3>3. \A i \in 0 .. m - 1 : g[i] = Next_(g, i)
      BY <3>1, <3>2 DEF IsPart
    <3>4. last = Next_(g, m)
      BY <3>1
    <3> HIDE DEF last
    <3>5. h[m] = last /\ \A i \in 0 .. m - 1 : h[i] = g[i]
      BY <3>1
    <3>6. ASSUME NEW i \in 0 .. m PROVE h[i] = Next_(h, i)
      <4> HIDE DEF h
      <4>1. CASE i = 0
        <5>1. 0 \in 0 .. m - 1
          BY <3>1
        <5>. QED
          BY <3>3, <3>5, <4>1, <5>1
      <4>2. CASE i # 0
        <5>1. i - 1 \in 0 .. m - 1 /\ h[i - 1] = g[i - 1]
          BY <3>1, <3>5, <4>2
        <5>2. Next_(h, i) = Next_(g, i)
          BY <5>1
        <5>3. CASE i = m
          BY <3>4, <3>5, <5>2, <5>3
        <5>4. CASE i # m
          <6>1. i \in 0 .. m - 1
            BY <3>1, <5>4
          <6>. QED
            BY <3>3, <3>5, <5>2, <6>1
        <5>. QED
          BY <5>3, <5>4
      <4>. QED
        BY <4>1, <4>2
    <3>7. h = [i \in 0 .. m |-> h[i]]
      OBVIOUS
    <3>8. IsPart(h, s, mid, upto, m)
      <4> HIDE DEF h
      <4>1. h = [i \in 0 .. m |-> Next_(h, i)]
        <5> HIDE DEF Next_
        <5>. QED
          BY <3>6, <3>7
      <4>. QED
        BY <4>1 DEF IsPart
    <3>. QED
      BY <2>2, <3>8
  <2>. QED
    BY <2>3, <2>4
<1>2. len \in 0 .. len
  OBVIOUS
<1>. QED
  BY <1>1, <1>2

Side(s, mid, upto) == {x \in Range(s) : (x <= mid) = upto}

LEMMA PartFacts ==
  ASSUME NEW S, NEW s \in Seq(S), NEW mid, NEW upto
  PROVE  /\ Part(s, mid, upto) \in Seq(S) /\ Len(Part(s, mid, upto)) <= Len(s)
         /\ Range(Part(s, mid, upto)) = Side(s, mid, upto)
         /\ IsInjective(s) => IsInjective(Part(s, mid, upto))
<1> DEFINE part == CHOOSE part : IsPart(part, s, mid, upto, Len(s))
<1>1. Len(s) \in Nat /\ DOMAIN s = 1 .. Len(s)
  OBVIOUS
<1>2. Part(s, mid, upto) = part[Len(s)]
  BY DEF Part, IsPart
<1>3. IsPart(part, s, mid, upto, Len(s))
  BY <1>1, PartExists
<1> HIDE DEF part
<1> DEFINE Taken(j) == {s[i] : i \in {i \in 1 .. j : (s[i] <= mid) = upto}}
           Good(j) == /\ part[j] \in Seq(S) /\ Len(part[j]) <= j
                      /\ Range(part[j]) = Taken(j)
                      /\ IsInjective(s) => IsInjective(part[j])
           Bad == {j \in 0 .. Len(s) : ~ Good(j)}
<1>4. Good(0)
  <2>1. part[0] = <<>>
    BY <1>1, <1>3 DEF IsPart
  <2>2. Range(<<>>) = {} /\ IsInjective(<<>>) /\ <<>> \in Seq(S) /\ Len(<<>>) = 0
    BY DEF Range, IsInjective
  <2>3. Taken(0) = {}
    OBVIOUS
  <2>. QED
    BY <2>1, <2>2, <2>3
<1>5. ASSUME NEW j \in 1 .. Len(s), Good(j - 1) PROVE Good(j)
  <2>1. part[j] = IF (s[j] <= mid) = upto THEN Append(part[j - 1], s[j]) ELSE part[j - 1]
    <3>1. j \in 0 .. Len(s) /\ j # 0
      BY <1>1
    <3>. QED
      BY <1>3, <3>1, Zenon DEF IsPart
  <2>2. j \in Nat /\ j - 1 \in Nat /\ s[j] \in S /\ 1 .. j = (1 .. j - 1) \cup {j}
    BY <1>1
  <2> HIDE DEF Taken
  <2>3. Len(part[j - 1]) \in Nat
    BY <1>5
  <2>4. CASE (s[j] <= mid) = upto
    <3>1. part[j] = Append(part[j - 1], s[j])
      BY <2>1, <2>4
    <3>2. /\ part[j] \in Seq(S) /\ Len(part[j]) = Len(part[j - 1]) + 1
          /\ Range(part[j]) = Range(part[j - 1]) \cup {s[j]}
          /\ IsInjective(part[j - 1]) /\ s[j] \notin Range(part[j - 1]) => IsInjective(part[j])
      BY <1>5, <2>2, <3>1, AppendFacts
    <3>3. Taken(j) = Taken(j - 1) \cup {s[j]}
      BY <2>2, <2>4 DEF Taken
    <3>4. IsInjective(s) => s[j] \notin Taken(j - 1)
      BY <1>1, <2>2 DEF Taken, IsInjective
    <3>. QED
      BY <1>5, <2>2, <2>3, <3>2, <3>3, <3>4
  <2>5. CASE (s[j] <= mid) # upto
    <3>1. part[j] = part[j - 1]
      BY <2>1, <2>5
    <3>2. Taken(j) = Taken(j - 1)
      BY <2>2, <2>5 DEF Taken
    <3>. QED
      BY <1>5, <2>2, <2>3, <3>1, <3>2
  <2>. QED
    BY <2>4, <2>5
<1>6. ASSUME Bad # {} PROVE FALSE
  <2>1. Bad \subseteq Nat
    OBVIOUS
  <2>2. PICK j \in Bad : \A y \in Bad : j <= y
    BY <1>6, <2>1, LeastNat
  <2>3. j # 0
    BY <1>4, <2>2
  <2> HIDE DEF Good
  <2>4. j \in 1 .. Len(s) /\ j - 1 \in 0 .. Len(s) /\ j - 1 \notin Bad
    BY <1>1, <2>2, <2>3
  <2>. QED
    BY <1>5, <2>2, <2>4
<1>7. Good(Len(s))
  <2> HIDE DEF Good
  <2>. QED
    BY <1>1, <1>6
<1>8. Taken(Len(s)) = Side(s, mid, upto)
  BY <1>1 DEF Range, Side
<1>. QED
  BY <1>2, <1>7, <1>8

-----------------------------------------------------------------------------
(* Buckets.                                                                *)

Bucket == [start : Nat, end : Nat, nodes : Seq(Remotes), cache : Seq(Remotes), updated : Nat]

\* The range is a block of 2 ** d ids, the q-th of that size.
Dyadic(b, d) == \E q \in Nat : b.start = q * Pow[d] /\ b.end = b.start + Pow[d] - 1

BucketOK(b) ==
  /\ b \in Bucket
  /\ \E d \in Grain .. IdBits : Dyadic(b, d)
  /\ IsInjective(b.nodes) /\ Len(b.nodes) <= K
  /\ \A n \in Range(b.nodes) \cup Range(b.cache) : in_range(b, n)

LEMMA Products ==
  ASSUME NEW q \in Nat, NEW w \in Nat
  PROVE  /\ q * w \in Nat /\ q * (2 * w) = 2 * (q * w)
         /\ (2 * q) * w = 2 * (q * w) /\ (2 * q + 1) * w = 2 * (q * w) + w
OBVIOUS

\* A bucket starts and ends where blocks do.
LEMMA BlockEnds ==
  ASSUME ScatteredRemotes, NEW b \in Bucket, NEW d \in Grain .. IdBits, Dyadic(b, d)
  PROVE  /\ \E h \in Nat : b.start = h * Pow[Grain]
         /\ \E h \in Nat : b.end = h * Pow[Grain] + (Pow[Grain] - 1)
         /\ b.start < b.end
<1> DEFINE g == Pow[Grain]
<1>1. g \in Nat /\ g > 1 /\ Grain \in 1 .. IdBits
  BY GrainFacts
<1>2. PICK c \in Nat : c > 0 /\ Pow[d] = c * g
  BY <1>1, Powers
<1>3. PICK q \in Nat : b.start = q * (c * g) /\ b.end = b.start + c * g - 1
  BY <1>2 DEF Dyadic
<1>4. b.start \in Nat /\ b.end \in Nat
  BY DEF Bucket
<1> HIDE DEF g
<1>5. PICK e, z \in Nat : e = q * c + c - 1 /\ z = e * g /\ q * (c * g) + c * g = z + g
  BY <1>1, <1>2, Blocks
<1>6. q * c \in Nat /\ b.start = (q * c) * g
  BY <1>1, <1>2, <1>3, Blocks
<1>7. PICK y, w \in Nat : y = q * (c * g) /\ w = c * g
  BY <1>1
<1>8. b.end = z + g - 1
  BY <1>1, <1>3, <1>5, <1>7
<1>9. w > 1
  BY <1>1, <1>2, <1>7
<1>10. b.start < b.end
  BY <1>3, <1>4, <1>7, <1>9
<1>11. b.end = e * g + (g - 1)
  BY <1>1, <1>5, <1>8
<1>. QED
  BY <1>6, <1>10, <1>11 DEF g

\* A remote id is not the last of a bucket: the test of bucket_by_node is the one
\* of in_range.
LEMMA NotTheEnd ==
  ASSUME ScatteredRemotes, NEW b, BucketOK(b), NEW n \in Remotes
  PROVE  /\ n \in Nat /\ b.start \in Nat /\ b.end \in Nat /\ b.start < b.end
         /\ n <= b.end <=> n < b.end
<1>1. PICK d \in Grain .. IdBits : Dyadic(b, d)
  BY DEF BucketOK
<1>2. b \in Bucket /\ b.start \in Nat /\ b.end \in Nat /\ n \in Nat
  BY RemoteIds DEF BucketOK, Bucket
<1>3. PICK h \in Nat : b.end = h * Pow[Grain] + (Pow[Grain] - 1)
  BY <1>1, <1>2, BlockEnds
<1>4. Pow[Grain] \in Nat /\ Pow[Grain] > 1 /\ Scattered(Grain)
  BY GrainFacts
<1>5. b.end % Pow[Grain] = Pow[Grain] - 1
  <2>1. Pow[Grain] - 1 \in Nat /\ Pow[Grain] - 1 < Pow[Grain]
    BY <1>4
  <2>. QED
    BY <1>3, <1>4, <2>1, Quotient
<1>6. n # b.end
  BY <1>4, <1>5 DEF Scattered
<1>7. b.start < b.end
  BY <1>1, <1>2, BlockEnds
<1>. QED
  BY <1>2, <1>6, <1>7

\* The nodes of a full bucket are more than a block holds.
LEMMA FullIsBig ==
  ASSUME ScatteredRemotes, NEW b, BucketOK(b), is_full(b)
  PROVE  \E d \in Grain + 1 .. IdBits : Dyadic(b, d)
<1>1. PICK d \in Grain .. IdBits : Dyadic(b, d)
  BY DEF BucketOK
<1>0. /\ b \in Bucket /\ b.start \in Nat /\ b.end \in Nat /\ b.nodes \in Seq(Remotes)
      /\ IsInjective(b.nodes) /\ Len(b.nodes) = K
  BY DEF BucketOK, Bucket, is_full
<1>2. ASSUME d = Grain PROVE FALSE
  <2> DEFINE g == Pow[Grain]
             S == Range(b.nodes)
  <2>1. g \in Nat /\ g > 1 /\ Scattered(Grain)
    BY GrainFacts
  <2>2. PICK q \in Nat : b.start = q * g /\ b.end = b.start + g - 1
    BY <1>1, <1>2 DEF Dyadic
  <2> HIDE DEF g
  <2>3. ASSUME NEW n \in S PROVE n \in Remotes /\ n \div g = q
    <3>1. n \in Remotes /\ n \in Nat
      BY <1>0, RemoteIds DEF Range
    <3>2. b.start <= n /\ n <= b.end
      BY DEF BucketOK, in_range
    <3>3. PICK r \in Nat : r = n - b.start /\ r < g
      BY <1>0, <2>1, <2>2, <3>1, <3>2
    <3>4. n = q * g + r
      BY <1>0, <2>2, <3>1, <3>3
    <3>. QED
      BY <2>1, <3>1, <3>3, <3>4, Quotient
  <2>4. S \in SUBSET Remotes
    BY <2>3
  <2>5. Cardinality(S) = K
    <3>1. b.nodes \in Bijection(1 .. K, S)
      <4>1. DOMAIN b.nodes = 1 .. K /\ b.nodes = [i \in 1 .. K |-> b.nodes[i]]
        BY <1>0
      <4>2. \A i \in 1 .. K : b.nodes[i] \in S
        BY <4>1 DEF Range
      <4>3. \A x \in S : \E i \in 1 .. K : b.nodes[i] = x
        BY <4>1 DEF Range
      <4> HIDE DEF S
      <4>5. b.nodes \in [1 .. K -> S]
        BY <4>1, <4>2, Zenon
      <4>6. b.nodes \in Injection(1 .. K, S)
        BY <1>0, <4>5, Zenon DEF Injection
      <4>7. b.nodes \in Surjection(1 .. K, S)
        BY <4>3, <4>5, Zenon DEF Surjection
      <4>. QED
        BY <4>6, <4>7 DEF Bijection
    <3>. QED
      BY <3>1, Constants, FS_CountingElements DEF ExistsBijection
  <2>6. PICK x, y \in S : x \div g # y \div g
    BY <2>1, <2>4, <2>5 DEF Scattered, g
  <2>. QED
    BY <2>3, <2>6
<1>3. d \in Grain + 1 .. IdBits
  BY <1>2, GrainFacts, Constants
<1>. QED
  BY <1>1, <1>3

\* A bucket that takes a node, or stays as it is.
LEMMA AddKeepsBucket ==
  ASSUME ScatteredRemotes, NEW b, BucketOK(b), NEW n \in Remotes, in_range(b, n), NEW now_ \in Nat
  PROVE  LET c == bucket_add(b, n, now_) IN
         /\ BucketOK(c) /\ c.start = b.start /\ c.end = b.end
         /\ Range(b.nodes) \subseteq Range(c.nodes)
         /\ Range(c.nodes) \subseteq Range(b.nodes) \cup {n}
         /\ n \in Range(c.nodes) \/ is_full(c)
<1> DEFINE c == bucket_add(b, n, now_)
           rest == RemoveFirst(b.nodes, n)
           list == IF Contains(b.nodes, n) \/ ~ is_full(b) THEN Append(rest, n) ELSE b.nodes
<1>1. /\ b \in Bucket /\ b.nodes \in Seq(Remotes) /\ b.start \in Nat /\ b.end \in Nat
      /\ IsInjective(b.nodes) /\ Len(b.nodes) <= K /\ Len(b.nodes) \in Nat
  BY DEF BucketOK, Bucket
<1>2. c = [b EXCEPT !.updated = now_, !.nodes = list]
  BY DEF bucket_add
<1>3. Contains(b.nodes, n) <=> n \in Range(b.nodes)
  BY <1>1 DEF Contains, Range
<1>4. /\ rest \in Seq(Remotes) /\ Len(rest) <= Len(b.nodes) /\ Range(rest) \subseteq Range(b.nodes)
      /\ Range(b.nodes) \ {n} \subseteq Range(rest) /\ Len(rest) \in Nat
      /\ n \in Range(b.nodes) => Len(rest) = Len(b.nodes) - 1
      /\ IsInjective(rest) /\ n \notin Range(rest)
  <2>1. /\ rest \in Seq(Remotes) /\ Len(rest) <= Len(b.nodes) /\ Range(rest) \subseteq Range(b.nodes)
        /\ Range(b.nodes) \ {n} \subseteq Range(rest)
        /\ n \in Range(b.nodes) => Len(rest) = Len(b.nodes) - 1
        /\ IsInjective(b.nodes) => IsInjective(rest) /\ n \notin Range(rest)
    BY <1>1, RemoveFirstFacts, Zenon
  <2> HIDE DEF rest
  <2>2. Len(rest) \in Nat
    BY <2>1
  <2>. QED
    BY <1>1, <2>1, <2>2
<1>5. /\ Append(rest, n) \in Seq(Remotes) /\ Len(Append(rest, n)) = Len(rest) + 1
      /\ Range(Append(rest, n)) = Range(rest) \cup {n} /\ IsInjective(Append(rest, n))
  BY <1>4, AppendFacts
<1> HIDE DEF rest
<1>6. /\ list \in Seq(Remotes) /\ IsInjective(list) /\ Len(list) <= K
      /\ Range(b.nodes) \subseteq Range(list) /\ Range(list) \subseteq Range(b.nodes) \cup {n}
      /\ n \in Range(list) \/ Len(list) = K
  <2>1. CASE n \in Range(b.nodes)
    BY <1>1, <1>3, <1>4, <1>5, <2>1
  <2>2. CASE n \notin Range(b.nodes) /\ ~ is_full(b)
    BY <1>1, <1>3, <1>4, <1>5, <2>2, Constants DEF is_full
  <2>3. CASE n \notin Range(b.nodes) /\ is_full(b)
    BY <1>1, <1>3, <2>3 DEF is_full
  <2>. QED
    BY <2>1, <2>2, <2>3
<1> HIDE DEF list, c
<1>7. /\ c \in Bucket /\ c.start = b.start /\ c.end = b.end /\ c.nodes = list /\ c.cache = b.cache
  BY <1>1, <1>2, <1>6 DEF Bucket
<1>8. BucketOK(c)
  BY <1>6, <1>7 DEF BucketOK, Dyadic, in_range
<1>. QED
  BY <1>6, <1>7, <1>8 DEF is_full, c

Filled(s, e, now_, nodes, cache) == [KBucket(s, e, now_) EXCEPT !.nodes = nodes, !.cache = cache]

LEMMA FilledBucket ==
  ASSUME NEW s, NEW e, NEW now_, NEW nodes, NEW cache
  PROVE  Filled(s, e, now_, nodes, cache)
           = [start |-> s, end |-> e, nodes |-> nodes, cache |-> cache, updated |-> now_]
<1> DEFINE b == KBucket(s, e, now_)
<1>1. PICK em : em = <<>>
  OBVIOUS
<1>2. b = [start |-> s, end |-> e, nodes |-> em, cache |-> em, updated |-> now_]
  BY <1>1 DEF KBucket
<1>3. [b EXCEPT !.nodes = nodes, !.cache = cache] = [[b EXCEPT !.nodes = nodes] EXCEPT !.cache = cache]
  OBVIOUS
<1>4. [b EXCEPT !.nodes = nodes]
        = [[start |-> s, end |-> e, nodes |-> em, cache |-> em, updated |-> now_] EXCEPT !.nodes = nodes]
  BY <1>2
<1>5. [[start |-> s, end |-> e, nodes |-> em, cache |-> em, updated |-> now_] EXCEPT !.nodes = nodes]
        = [start |-> s, end |-> e, nodes |-> nodes, cache |-> em, updated |-> now_]
  OBVIOUS
<1>6. [[start |-> s, end |-> e, nodes |-> nodes, cache |-> em, updated |-> now_] EXCEPT !.cache = cache]
        = [start |-> s, end |-> e, nodes |-> nodes, cache |-> cache, updated |-> now_]
  OBVIOUS
<1>. QED
  BY <1>3, <1>4, <1>5, <1>6, Zenon DEF Filled

\* The halves of a bucket that has to split.
LEMMA SplitKeepsBuckets ==
  ASSUME ScatteredRemotes, NEW b, BucketOK(b), is_full(b), NEW now_ \in Nat
  PROVE  \E lo, hi : /\ split(b, now_) = <<lo, hi>> /\ BucketOK(lo) /\ BucketOK(hi)
                     /\ lo.start = b.start /\ hi.end = b.end /\ hi.start = lo.end + 1
                     /\ Range(lo.nodes) \cup Range(hi.nodes) = Range(b.nodes)
<1>1. PICK d \in Grain + 1 .. IdBits : Dyadic(b, d)
  BY FullIsBig
<1>1a. d - 1 \in Grain .. IdBits /\ d \in 1 .. IdBits
  BY GrainFacts, Constants
<1>2. /\ b \in Bucket /\ b.nodes \in Seq(Remotes) /\ b.cache \in Seq(Remotes)
      /\ b.start \in Nat /\ b.end \in Nat
      /\ IsInjective(b.nodes) /\ Len(b.nodes) <= K
  BY DEF BucketOK, Bucket
<1>3. PICK w \in Nat : w > 0 /\ w = Pow[d - 1] /\ Pow[d] = 2 * w
  BY <1>1a, Doubles
<1>4. PICK q \in Nat : b.start = q * (2 * w) /\ b.end = b.start + 2 * w - 1
  BY <1>1, <1>3 DEF Dyadic
<1>4a. PICK z \in Nat : z = q * w /\ q * (2 * w) = 2 * z /\ (2 * q) * w = 2 * z /\ (2 * q + 1) * w = 2 * z + w
  BY Products
<1>5. PICK s \in Nat : s = b.start /\ s = (2 * q) * w /\ s + w = (2 * q + 1) * w
  <2>1. 2 * z \in Nat /\ b.start = 2 * z
    BY <1>4, <1>4a
  <2>. QED
    BY <1>4a, <2>1
<1> DEFINE mid == midpoint(b)
           nlo == Part(b.nodes, mid, TRUE)
           nhi == Part(b.nodes, mid, FALSE)
           clo == Part(b.cache, mid, TRUE)
           chi == Part(b.cache, mid, FALSE)
           lo == [start |-> b.start, end |-> mid, nodes |-> nlo, cache |-> clo, updated |-> now_]
           hi == [start |-> mid + 1, end |-> b.end, nodes |-> nhi, cache |-> chi, updated |-> now_]
<1>6. split(b, now_) = <<lo, hi>>
  <2>1. split(b, now_) = <<Filled(b.start, mid, now_, nlo, clo), Filled(mid + 1, b.end, now_, nhi, chi)>>
    BY Zenon DEF split, Filled
  <2> HIDE DEF mid, nlo, nhi, clo, chi
  <2>2. Filled(b.start, mid, now_, nlo, clo) = lo
    BY FilledBucket
  <2>3. Filled(mid + 1, b.end, now_, nhi, chi) = hi
    BY FilledBucket
  <2> HIDE DEF lo, hi
  <2>. QED
    BY <2>1, <2>2, <2>3
<1>7. mid = s + w - 1 /\ mid \in Nat
  <2>1. b.end - b.start = 2 * w - 1
    BY <1>2, <1>4
  <2>2. (2 * w - 1) \div 2 = w - 1
    BY <1>3
  <2>3. mid = s + (w - 1)
    BY <1>5, <2>1, <2>2 DEF midpoint
  <2>. QED
    BY <1>3, <2>3
<1>8. /\ nlo \in Seq(Remotes) /\ Len(nlo) <= Len(b.nodes) /\ IsInjective(nlo)
      /\ Range(nlo) = Side(b.nodes, mid, TRUE)
  BY <1>2, PartFacts, Zenon
<1>9. /\ nhi \in Seq(Remotes) /\ Len(nhi) <= Len(b.nodes) /\ IsInjective(nhi)
      /\ Range(nhi) = Side(b.nodes, mid, FALSE)
  BY <1>2, PartFacts, Zenon
<1>10. /\ clo \in Seq(Remotes) /\ Range(clo) = Side(b.cache, mid, TRUE)
       /\ chi \in Seq(Remotes) /\ Range(chi) = Side(b.cache, mid, FALSE)
  BY <1>2, PartFacts, Zenon
<1> HIDE DEF mid, nlo, nhi, clo, chi
<1>11. lo \in Bucket /\ hi \in Bucket
  BY <1>2, <1>7, <1>8, <1>9, <1>10 DEF Bucket
<1>12. Dyadic(lo, d - 1) /\ Dyadic(hi, d - 1)
  <2>1. lo.start = (2 * q) * Pow[d - 1] /\ lo.end = lo.start + Pow[d - 1] - 1
    BY <1>3, <1>5, <1>7
  <2>2. hi.start = (2 * q + 1) * Pow[d - 1] /\ hi.end = hi.start + Pow[d - 1] - 1
    BY <1>3, <1>4, <1>5, <1>7
  <2>3. 2 * q \in Nat /\ 2 * q + 1 \in Nat
    OBVIOUS
  <2>. QED
    BY <2>1, <2>2, <2>3 DEF Dyadic
<1>13. ASSUME NEW n \in Range(b.nodes) \cup Range(b.cache)
       PROVE  n \in Nat /\ b.start <= n /\ n <= b.end /\ (n <= mid \/ mid + 1 <= n)
  <2>1. n \in Remotes
    BY <1>2 DEF Range
  <2>2. in_range(b, n)
    BY DEF BucketOK
  <2>. QED
    BY <1>7, <2>1, <2>2, RemoteIds DEF in_range
<1>14. BucketOK(lo)
  <2>1. \A n \in Range(nlo) \cup Range(clo) : in_range(lo, n)
    BY <1>8, <1>10, <1>13 DEF in_range, Side
  <2>2. d - 1 \in Grain .. IdBits
    BY <1>1a
  <2>3. Len(nlo) <= K
    BY <1>2, <1>8, Constants
  <2>. QED
    BY <1>8, <1>11, <1>12, <2>1, <2>2, <2>3 DEF BucketOK
<1>15. BucketOK(hi)
  <2>1. \A n \in Range(nhi) \cup Range(chi) : in_range(hi, n)
    BY <1>9, <1>10, <1>13 DEF in_range, Side
  <2>2. d - 1 \in Grain .. IdBits
    BY <1>1a
  <2>3. Len(nhi) <= K
    BY <1>2, <1>9, Constants
  <2>. QED
    BY <1>9, <1>11, <1>12, <2>1, <2>2, <2>3 DEF BucketOK
<1>16. Range(nlo) \cup Range(nhi) = Range(b.nodes)
  BY <1>8, <1>9, <1>13 DEF Side
<1>. QED
  BY <1>6, <1>14, <1>15, <1>16

-----------------------------------------------------------------------------
(* Tables.                                                                 *)

TableOK(t) ==
  /\ t \in Seq(Bucket) /\ Len(t) >= 1
  /\ \A i \in DOMAIN t : BucketOK(t[i])
  /\ t[1].start = 0 /\ t[Len(t)].end = Pow[IdBits] - 1
  /\ \A i \in 1 .. Len(t) - 1 : t[i + 1].start = t[i].end + 1

\* bucket_by_node finds the bucket in whose range the node lies.
LEMMA BucketOf ==
  ASSUME ScatteredRemotes, NEW t, TableOK(t), NEW n \in Remotes
  PROVE  /\ EndsAbove(t, n) # {}
         /\ bucket_by_node(t, n) \in DOMAIN t
         /\ in_range(t[bucket_by_node(t, n)], n)
<1> DEFINE A == EndsAbove(t, n)
           i == bucket_by_node(t, n)
<1>1. t \in Seq(Bucket) /\ Len(t) \in Nat /\ Len(t) >= 1 /\ DOMAIN t = 1 .. Len(t)
  BY DEF TableOK
<1>2. \A j \in DOMAIN t : /\ n \in Nat /\ t[j].start \in Nat /\ t[j].end \in Nat
                          /\ n <= t[j].end <=> n < t[j].end
  BY NotTheEnd DEF TableOK
<1>3. Len(t) \in A
  <2>1. n <= Pow[IdBits] - 1
    BY KademliaAssumption, Doubles, Constants DEF Ids
  <2>2. Len(t) \in DOMAIN t
    BY <1>1
  <2>. QED
    BY <1>2, <2>1, <2>2 DEF TableOK, EndsAbove
<1>4. A \subseteq Nat
  BY <1>1 DEF EndsAbove
<1>5. i \in A /\ \A j \in A : i <= j
  BY <1>3, <1>4, LeastNat DEF bucket_by_node, Min
<1>6. i \in DOMAIN t /\ n < t[i].end
  BY <1>5 DEF EndsAbove
<1> HIDE DEF i
<1>7. t[i].start <= n
  <2>1. CASE i = 1
    BY <1>2, <1>6, <2>1 DEF TableOK
  <2>2. CASE i # 1
    <3>1. i - 1 \in DOMAIN t /\ i - 1 \in 1 .. Len(t) - 1 /\ i \in Nat /\ (i - 1) + 1 = i
      BY <1>1, <1>6, <2>2
    <3>2. i - 1 \notin A
      BY <1>5, <3>1
    <3>3. ~ (n < t[i - 1].end)
      BY <3>1, <3>2 DEF EndsAbove
    <3>4. t[i].start = t[i - 1].end + 1
      BY <3>1 DEF TableOK
    <3>. QED
      BY <1>2, <3>1, <3>3, <3>4
  <2>. QED
    BY <2>1, <2>2
<1>. QED
  BY <1>2, <1>3, <1>6, <1>7 DEF in_range, i

\* A table whose buckets are replaced by buckets of the same ranges.
LEMMA SameRanges ==
  ASSUME NEW t, TableOK(t), NEW u, u = [i \in DOMAIN t |-> u[i]],
         \A i \in DOMAIN t : BucketOK(u[i]) /\ u[i].start = t[i].start /\ u[i].end = t[i].end
  PROVE  TableOK(u)
<1>1. t \in Seq(Bucket) /\ Len(t) \in Nat /\ Len(t) >= 1 /\ DOMAIN t = 1 .. Len(t)
  BY DEF TableOK
<1>2. \A i \in 1 .. Len(t) : u[i] \in Bucket
  BY <1>1 DEF BucketOK
<1>3. u \in Seq(Bucket) /\ Len(u) = Len(t) /\ DOMAIN u = 1 .. Len(t)
  BY <1>1, <1>2
<1>4. u[1].start = 0 /\ u[Len(u)].end = Pow[IdBits] - 1
  BY <1>1, <1>3 DEF TableOK
<1>5. \A i \in 1 .. Len(u) - 1 : u[i + 1].start = u[i].end + 1
  <2>1. TAKE i \in 1 .. Len(u) - 1
  <2>2. i \in DOMAIN t /\ i + 1 \in DOMAIN t /\ i \in 1 .. Len(t) - 1
    BY <1>1, <1>3
  <2>. QED
    BY <2>2 DEF TableOK
<1>. QED
  BY <1>1, <1>3, <1>4, <1>5 DEF TableOK

LEMMA ReplaceBucket ==
  ASSUME NEW t, TableOK(t), NEW i \in DOMAIN t, NEW c, BucketOK(c),
         c.start = t[i].start, c.end = t[i].end
  PROVE  /\ TableOK([t EXCEPT ![i] = c])
         /\ Range(c.nodes) \subseteq Members([t EXCEPT ![i] = c])
         /\ Members(t) \subseteq Members([t EXCEPT ![i] = c]) \cup Range(t[i].nodes)
         /\ Members([t EXCEPT ![i] = c]) \subseteq Members(t) \cup Range(c.nodes)
<1> DEFINE u == [t EXCEPT ![i] = c]
<1>1. u = [j \in DOMAIN t |-> u[j]] /\ DOMAIN u = DOMAIN t /\ u[i] = c /\ \A j \in DOMAIN t : j # i => u[j] = t[j]
  OBVIOUS
<1> HIDE DEF u
<1>2. \A j \in DOMAIN t : BucketOK(u[j]) /\ u[j].start = t[j].start /\ u[j].end = t[j].end
  BY <1>1 DEF TableOK
<1>3. TableOK(u)
  BY <1>1, <1>2, SameRanges
<1>4. Range(c.nodes) \subseteq Members(u)
  BY <1>1 DEF Members
<1>5. Members(t) \subseteq Members(u) \cup Range(t[i].nodes)
  BY <1>1 DEF Members
<1>6. Members(u) \subseteq Members(t) \cup Range(c.nodes)
  BY <1>1 DEF Members
<1>. QED
  BY <1>3, <1>4, <1>5, <1>6 DEF u

\* Two elements in the place of the i-th.
Twofold(s, i, lo, hi) == SubSeq(s, 1, i - 1) \o <<lo, hi>> \o SubSeq(s, i + 1, Len(s))

IsTwofold(r, s, i, lo, hi) ==
  \A j \in 1 .. Len(s) + 1 :
     r[j] = IF j < i THEN s[j] ELSE IF j = i THEN lo ELSE IF j = i + 1 THEN hi ELSE s[j - 1]

LEMMA TwoForOne ==
  ASSUME NEW S, NEW s \in Seq(S), NEW i \in 1 .. Len(s), NEW lo \in S, NEW hi \in S
  PROVE  /\ Twofold(s, i, lo, hi) \in Seq(S) /\ Len(Twofold(s, i, lo, hi)) = Len(s) + 1
         /\ IsTwofold(Twofold(s, i, lo, hi), s, i, lo, hi)
<1> DEFINE a == SubSeq(s, 1, i - 1)
           b == SubSeq(s, i + 1, Len(s))
           m == <<lo, hi>>
<1>0. Len(s) \in Nat /\ i \in Nat
  OBVIOUS
<1>1. a \in Seq(S) /\ Len(a) = i - 1 /\ \A j \in 1 .. i - 1 : a[j] = s[j]
  BY <1>0
<1>2. b \in Seq(S) /\ Len(b) = Len(s) - i /\ \A j \in 1 .. Len(s) - i : b[j] = s[i + j]
  BY <1>0
<1>3. m \in Seq(S) /\ Len(m) = 2 /\ m[1] = lo /\ m[2] = hi
  OBVIOUS
<1> HIDE DEF a, b, m
<1> DEFINE c == a \o m
           r == c \o b
<1>4. /\ c \in Seq(S) /\ Len(c) = i + 1
      /\ \A j \in 1 .. Len(a) + Len(m) : c[j] = IF j <= Len(a) THEN a[j] ELSE m[j - Len(a)]
  <2>1. c \in Seq(S) /\ Len(c) = Len(a) + Len(m)
    BY <1>1, <1>3, ConcatProperties
  <2>2. \A j \in 1 .. Len(a) + Len(m) : c[j] = IF j <= Len(a) THEN a[j] ELSE m[j - Len(a)]
    BY <1>1, <1>3, ConcatProperties
  <2>. QED
    BY <1>0, <1>1, <1>3, <2>1, <2>2
<1> HIDE DEF c
<1>5. /\ r \in Seq(S) /\ Len(r) = Len(s) + 1
      /\ \A j \in 1 .. Len(c) + Len(b) : r[j] = IF j <= Len(c) THEN c[j] ELSE b[j - Len(c)]
  <2>1. r \in Seq(S) /\ Len(r) = Len(c) + Len(b)
    BY <1>2, <1>4, ConcatProperties
  <2>2. \A j \in 1 .. Len(c) + Len(b) : r[j] = IF j <= Len(c) THEN c[j] ELSE b[j - Len(c)]
    BY <1>2, <1>4, ConcatProperties
  <2>. QED
    BY <1>0, <1>2, <1>4, <2>1, <2>2
<1> HIDE DEF r
<1>6. ASSUME NEW j \in 1 .. Len(s) + 1
      PROVE  r[j] = IF j < i THEN s[j] ELSE IF j = i THEN lo ELSE IF j = i + 1 THEN hi ELSE s[j - 1]
  <2>0. j \in 1 .. Len(c) + Len(b) /\ j \in Nat /\ j >= 1 /\ j <= Len(s) + 1
    BY <1>0, <1>2, <1>4
  <2>1. CASE j < i
    <3>1. j <= Len(c) /\ j \in 1 .. Len(a) + Len(m) /\ j <= Len(a) /\ j \in 1 .. i - 1
      BY <1>0, <1>1, <1>3, <1>4, <2>0, <2>1
    <3>. QED
      BY <1>1, <1>4, <1>5, <2>0, <2>1, <3>1
  <2>2. CASE j = i
    <3>1. j <= Len(c) /\ j \in 1 .. Len(a) + Len(m) /\ ~ (j <= Len(a)) /\ j - Len(a) = 1 /\ ~ (j < i)
      BY <1>0, <1>1, <1>3, <1>4, <2>0, <2>2
    <3>. QED
      BY <1>3, <1>4, <1>5, <2>0, <2>2, <3>1
  <2>3. CASE j = i + 1
    <3>1. j <= Len(c) /\ j \in 1 .. Len(a) + Len(m) /\ ~ (j <= Len(a)) /\ j - Len(a) = 2 /\ ~ (j < i) /\ j # i
      BY <1>0, <1>1, <1>3, <1>4, <2>0, <2>3
    <3>. QED
      BY <1>3, <1>4, <1>5, <2>0, <2>3, <3>1
  <2>4. CASE j > i + 1
    <3>1. ~ (j <= Len(c)) /\ j - Len(c) \in 1 .. Len(s) - i /\ i + (j - Len(c)) = j - 1
          /\ ~ (j < i) /\ j # i /\ j # i + 1
      BY <1>0, <1>4, <2>0, <2>4
    <3>2. r[j] = b[j - Len(c)] /\ b[j - Len(c)] = s[i + (j - Len(c))]
      BY <1>2, <1>5, <2>0, <3>1
    <3>. QED
      BY <3>1, <3>2
  <2>. QED
    BY <1>0, <2>0, <2>1, <2>2, <2>3, <2>4
<1>. QED
  BY <1>5, <1>6 DEF r, c, a, b, m, Twofold, IsTwofold

LEMMA SplitKeepsTable ==
  ASSUME ScatteredRemotes, NEW t, TableOK(t), NEW i \in Nat, i \in DOMAIN t, is_full(t[i]), NEW now_ \in Nat
  PROVE  TableOK(split_bucket(t, i, now_)) /\ Members(split_bucket(t, i, now_)) = Members(t)
<1>1. /\ t \in Seq(Bucket) /\ Len(t) \in Nat /\ Len(t) >= 1 /\ DOMAIN t = 1 .. Len(t)
      /\ i \in 1 .. Len(t) /\ i \in Nat /\ BucketOK(t[i])
  BY DEF TableOK
<1>2. PICK lo, hi : /\ split(t[i], now_) = <<lo, hi>> /\ BucketOK(lo) /\ BucketOK(hi)
                    /\ lo.start = t[i].start /\ hi.end = t[i].end /\ hi.start = lo.end + 1
                    /\ Range(lo.nodes) \cup Range(hi.nodes) = Range(t[i].nodes)
  BY <1>1, SplitKeepsBuckets
<1>3. lo \in Bucket /\ hi \in Bucket
  BY <1>2 DEF BucketOK
<1> DEFINE r == split_bucket(t, i, now_)
<1>4. /\ r \in Seq(Bucket) /\ Len(r) = Len(t) + 1
      /\ \A j \in 1 .. Len(t) + 1 :
           r[j] = IF j < i THEN t[j] ELSE IF j = i THEN lo ELSE IF j = i + 1 THEN hi ELSE t[j - 1]
  <2>1. r = Twofold(t, i, lo, hi)
    BY <1>2 DEF split_bucket, Twofold
  <2>2. t \in Seq(Bucket) /\ i \in 1 .. Len(t)
    BY <1>1
  <2>3. r \in Seq(Bucket) /\ Len(r) = Len(t) + 1 /\ IsTwofold(r, t, i, lo, hi)
    BY <1>3, <2>1, <2>2, TwoForOne
  <2> HIDE DEF r
  <2>. QED
    BY <2>3 DEF IsTwofold
<1> HIDE DEF r
<1>5. DOMAIN r = 1 .. Len(t) + 1 /\ Len(r) = Len(t) + 1
  BY <1>4
<1>5a. Len(t) \in Nat /\ Len(t) >= 1 /\ i \in Nat /\ i >= 1 /\ i <= Len(t)
  BY <1>1
<1>6. \A j \in 1 .. Len(t) + 1 : j \in Nat /\ (j > i + 1 => j - 1 \in 1 .. Len(t)) /\ (j < i => j \in 1 .. Len(t))
  BY <1>1
<1>7. ASSUME NEW j \in DOMAIN r PROVE BucketOK(r[j])
  <2>1. j < i \/ j = i \/ j = i + 1 \/ j > i + 1
    BY <1>1, <1>5, <1>6
  <2>2. CASE j < i
    BY <1>1, <1>4, <1>5, <1>6, <2>2 DEF TableOK
  <2>3. CASE j = i
    BY <1>1, <1>2, <1>4, <1>5, <2>3
  <2>4. CASE j = i + 1
    BY <1>1, <1>2, <1>4, <1>5, <2>4
  <2>5. CASE j > i + 1
    <3>1. r[j] = t[j - 1] /\ j - 1 \in DOMAIN t
      BY <1>1, <1>4, <1>5, <1>6, <2>5
    <3>. QED
      BY <3>1 DEF TableOK
  <2>. QED
    BY <2>1, <2>2, <2>3, <2>4, <2>5
<1>8. r[1].start = 0
  <2>1. CASE i = 1
    BY <1>1, <1>2, <1>4, <2>1 DEF TableOK
  <2>2. CASE i # 1
    BY <1>1, <1>4, <2>2 DEF TableOK
  <2>. QED
    BY <2>1, <2>2
<1>9. r[Len(r)].end = Pow[IdBits] - 1
  <2>1. CASE i = Len(t)
    <3>1. Len(r) = i + 1 /\ i + 1 \in 1 .. Len(t) + 1 /\ ~ (i + 1 < i) /\ i + 1 # i
      BY <1>5, <1>5a, <2>1
    <3>2. r[Len(r)] = hi
      BY <1>4, <3>1
    <3>. QED
      BY <1>2, <2>1, <3>2 DEF TableOK
  <2>2. CASE i # Len(t)
    <3>1. Len(t) + 1 > i + 1 /\ Len(t) + 1 \in 1 .. Len(t) + 1 /\ (Len(t) + 1) - 1 = Len(t)
      BY <1>5a, <2>2
    <3>2. r[Len(t) + 1] = t[Len(t)]
      BY <1>1, <1>4, <3>1
    <3>. QED
      BY <1>4, <3>2 DEF TableOK
  <2>. QED
    BY <2>1, <2>2
<1>10. ASSUME NEW j \in 1 .. Len(r) - 1 PROVE r[j + 1].start = r[j].end + 1
  <2>0. j \in Nat /\ j \in 1 .. Len(t) + 1 /\ j + 1 \in 1 .. Len(t) + 1 /\ j <= Len(t) /\ j >= 1
    BY <1>1, <1>4
  <2>1. CASE j + 1 < i
    <3>1. r[j] = t[j] /\ r[j + 1] = t[j + 1] /\ j \in 1 .. Len(t) - 1
      BY <1>1, <1>4, <2>0, <2>1
    <3>. QED
      BY <3>1 DEF TableOK
  <2>2. CASE j + 1 = i
    <3>1. r[j] = t[j] /\ r[j + 1] = lo /\ j \in 1 .. Len(t) - 1
      BY <1>1, <1>4, <2>0, <2>2
    <3>2. t[j + 1].start = t[j].end + 1
      BY <3>1 DEF TableOK
    <3>. QED
      BY <1>2, <2>2, <3>1, <3>2
  <2>3. CASE j = i
    <3>1. r[j] = lo /\ r[j + 1] = hi
      BY <1>1, <1>4, <2>0, <2>3
    <3>. QED
      BY <1>2, <3>1
  <2>4. CASE j = i + 1
    <3>1. r[j] = hi /\ r[j + 1] = t[j] /\ i \in 1 .. Len(t) - 1
      BY <1>1, <1>4, <2>0, <2>4
    <3>2. t[i + 1].start = t[i].end + 1
      BY <3>1 DEF TableOK
    <3>. QED
      BY <1>2, <2>4, <3>1, <3>2
  <2>5. CASE j > i + 1
    <3>1. r[j] = t[j - 1] /\ r[j + 1] = t[j] /\ j - 1 \in 1 .. Len(t) - 1 /\ (j - 1) + 1 = j
      BY <1>1, <1>4, <2>0, <2>5
    <3>2. t[(j - 1) + 1].start = t[j - 1].end + 1
      BY <3>1 DEF TableOK
    <3>. QED
      BY <3>1, <3>2
  <2>. QED
    BY <1>1, <2>0, <2>1, <2>2, <2>3, <2>4, <2>5
<1>11. TableOK(r)
  BY <1>1, <1>4, <1>7, <1>8, <1>9, <1>10 DEF TableOK
<1>12. \A n : n \in Members(r) => n \in Members(t)
  <2>1. SUFFICES ASSUME NEW j \in DOMAIN r, NEW n \in Range(r[j].nodes) PROVE n \in Members(t)
    BY DEF Members
  <2>2. j < i \/ j = i \/ j = i + 1 \/ j > i + 1
    BY <1>1, <1>5, <1>6
  <2>3. CASE j < i
    BY <1>1, <1>4, <1>5, <1>6, <2>1, <2>3 DEF Members
  <2>4. CASE j = i \/ j = i + 1
    <3>1. n \in Range(t[i].nodes)
      BY <1>1, <1>2, <1>4, <1>5, <2>1, <2>4
    <3>. QED
      BY <3>1 DEF Members
  <2>5. CASE j > i + 1
    BY <1>1, <1>4, <1>5, <1>6, <2>1, <2>5 DEF Members
  <2>. QED
    BY <2>2, <2>3, <2>4, <2>5
<1>13. \A n : n \in Members(t) => n \in Members(r)
  <2>1. SUFFICES ASSUME NEW j \in DOMAIN t, NEW n \in Range(t[j].nodes) PROVE n \in Members(r)
    BY DEF Members
  <2>2. j \in Nat /\ j \in 1 .. Len(t) /\ j \in DOMAIN r /\ j + 1 \in DOMAIN r /\ i \in DOMAIN r /\ i + 1 \in DOMAIN r
    BY <1>1, <1>5
  <2>3. CASE j < i
    <3>1. r[j] = t[j]
      BY <1>1, <1>4, <1>5, <2>2, <2>3
    <3>. QED
      BY <2>1, <2>2, <3>1 DEF Members
  <2>4. CASE j = i
    <3>1. r[i] = lo /\ r[i + 1] = hi
      BY <1>1, <1>4, <1>5, <2>2
    <3>. QED
      BY <1>2, <2>1, <2>2, <2>4, <3>1 DEF Members
  <2>5. CASE j > i
    <3>1. r[j + 1] = t[j]
      BY <1>1, <1>4, <1>5, <2>2, <2>5
    <3>. QED
      BY <2>1, <2>2, <3>1 DEF Members
  <2>. QED
    BY <1>1, <2>2, <2>3, <2>4, <2>5
<1>. QED
  BY <1>11, <1>12, <1>13 DEF r

LEMMA Multiples ==
  ASSUME NEW q \in Nat, NEW w \in Nat, w > 0
  PROVE  (q * w) % w = 0
OBVIOUS

\* What the run calls a sound table.
LEMMA SoundTables ==
  ASSUME ScatteredRemotes, NEW t, TableOK(t)
  PROVE  /\ Partition(t) /\ Placed(t) /\ This \notin Members(t) /\ Members(t) \subseteq Remotes
         /\ \A n \in Remotes : EndsAbove(t, n) # {} /\ n >= t[bucket_by_node(t, n)].start
<1>1. ASSUME NEW i \in DOMAIN t
      PROVE  \E d \in 0 .. IdBits : t[i].end - t[i].start + 1 = Pow[d] /\ t[i].start % Pow[d] = 0
  <2>1. PICK d \in Grain .. IdBits : Dyadic(t[i], d)
    BY DEF TableOK, BucketOK
  <2>2. PICK q \in Nat : t[i].start = q * Pow[d] /\ t[i].end = t[i].start + Pow[d] - 1
    BY <2>1 DEF Dyadic
  <2>3. d \in 0 .. IdBits /\ Pow[d] \in Nat /\ Pow[d] > 0
    BY GrainFacts, Doubles, Constants
  <2>4. t[i].start % Pow[d] = 0
    BY <2>2, <2>3, Multiples
  <2>5. t[i].start \in Nat
    BY <2>2, <2>3, Products
  <2>. QED
    BY <2>2, <2>3, <2>4, <2>5
<1>2. Partition(t)
  BY <1>1 DEF TableOK, Partition
<1>3. Placed(t)
  BY DEF TableOK, BucketOK, Placed
<1>4. Members(t) \subseteq Remotes
  <2>1. \A i \in DOMAIN t : t[i].nodes \in Seq(Remotes)
    BY DEF TableOK, BucketOK, Bucket
  <2>2. \A i \in DOMAIN t : Range(t[i].nodes) \subseteq Remotes
    BY <2>1 DEF Range
  <2>. QED
    BY <2>2 DEF Members
<1>5. This \notin Members(t)
  BY <1>4, KademliaAssumption
<1>6. ASSUME NEW n \in Remotes PROVE EndsAbove(t, n) # {} /\ n >= t[bucket_by_node(t, n)].start
  <2>1. EndsAbove(t, n) # {} /\ bucket_by_node(t, n) \in DOMAIN t /\ in_range(t[bucket_by_node(t, n)], n)
    BY BucketOf
  <2>2. t[bucket_by_node(t, n)].start \in Nat /\ n \in Nat
    BY <2>1, RemoteIds DEF TableOK, BucketOK, Bucket
  <2>. QED
    BY <2>1, <2>2 DEF in_range
<1>. QED
  BY <1>2, <1>3, <1>4, <1>5, <1>6

-----------------------------------------------------------------------------
(* add_node and remove_node.                                               *)

LEMMA SplitOnceFacts ==
  ASSUME ScatteredRemotes, NEW t, TableOK(t), NEW n \in Remotes, NEW this, NEW now_ \in Nat
  PROVE  /\ TableOK(SplitOnce(t, n, this, now_))
         /\ Members(SplitOnce(t, n, this, now_)) = Members(t)
<1>1. CASE MustSplit(t, n, this)
  <2>1. is_full(t[bucket_by_node(t, n)])
    BY <1>1 DEF MustSplit
  <2>2. bucket_by_node(t, n) \in DOMAIN t
    BY BucketOf
  <2>3. bucket_by_node(t, n) \in Nat
    BY <2>2 DEF TableOK
  <2>. QED
    BY <1>1, <2>1, <2>2, <2>3, SplitKeepsTable DEF SplitOnce
<1>2. CASE ~ MustSplit(t, n, this)
  BY <1>2 DEF SplitOnce
<1>. QED
  BY <1>1, <1>2

\* The loop of the retries.
IsRetry(retry, t, n, this, now_, len) ==
  retry = [d \in 0 .. len |-> IF d = 0 THEN t ELSE SplitOnce(retry[d - 1], n, this, now_)]

LEMMA RetryExists ==
  ASSUME NEW t, NEW n, NEW this, NEW now_, NEW len \in Nat
  PROVE  \E retry : IsRetry(retry, t, n, this, now_, len)
<1> DEFINE Bad == {m \in 0 .. len : ~ \E f : IsRetry(f, t, n, this, now_, m)}
<1>1. ASSUME Bad # {} PROVE FALSE
  <2>1. Bad \subseteq Nat
    OBVIOUS
  <2>2. PICK m \in Bad : \A y \in Bad : m <= y
    BY <1>1, <2>1, LeastNat
  <2>3. CASE m = 0
    <3> DEFINE g == [i \in 0 .. 0 |-> t]
    <3>1. IsRetry(g, t, n, this, now_, 0)
      BY DEF IsRetry
    <3>. QED
      BY <2>2, <2>3, <3>1
  <2>4. CASE m # 0
    <3>1. m - 1 \in 0 .. len /\ m \in Nat /\ m > 0 /\ m - 1 \notin Bad
      BY <2>2, <2>4
    <3>2. PICK g : IsRetry(g, t, n, this, now_, m - 1)
      BY <3>1
    <3> DEFINE Step(f, i) == IF i = 0 THEN t ELSE SplitOnce(f[i - 1], n, this, now_)
               h == [i \in 0 .. m |-> IF i = m THEN Step(g, m) ELSE g[i]]
    <3>3. \A i \in 0 .. m - 1 : g[i] = Step(g, i)
      BY <3>1, <3>2 DEF IsRetry
    <3>4. h = [i \in 0 .. m |-> h[i]]
      OBVIOUS
    <3>5. h[m] = Step(g, m) /\ \A i \in 0 .. m - 1 : h[i] = g[i]
      <4> HIDE DEF Step
      <4>. QED
        BY <3>1
    <3>6. ASSUME NEW i \in 0 .. m PROVE h[i] = Step(h, i)
      <4> HIDE DEF h
      <4>1. Step(h, i) = Step(g, i)
        <5>1. CASE i = 0
          BY <5>1
        <5>2. CASE i # 0
          <6>1. i - 1 \in 0 .. m - 1
            BY <3>1, <5>2
          <6>. QED
            BY <3>5, <5>2, <6>1
        <5>. QED
          BY <5>1, <5>2
      <4>2. i = m \/ i \in 0 .. m - 1
        BY <3>1
      <4> HIDE DEF Step
      <4>. QED
        BY <3>3, <3>5, <4>1, <4>2
    <3>7. IsRetry(h, t, n, this, now_, m)
      <4> HIDE DEF h
      <4>1. h = [i \in 0 .. m |-> Step(h, i)]
        <5> HIDE DEF Step
        <5>. QED
          BY <3>4, <3>6
      <4>. QED
        BY <4>1 DEF IsRetry
    <3>. QED
      BY <2>2, <3>7
  <2>. QED
    BY <2>3, <2>4
<1>2. len \in 0 .. len
  OBVIOUS
<1>. QED
  BY <1>1, <1>2

LEMMA RetriedFacts ==
  ASSUME ScatteredRemotes, NEW t, TableOK(t), NEW n \in Remotes, NEW this, NEW now_ \in Nat
  PROVE  TableOK(Retried(t, n, this, now_)) /\ Members(Retried(t, n, this, now_)) = Members(t)
<1> DEFINE f == CHOOSE f : IsRetry(f, t, n, this, now_, IdBits)
           Good(d) == TableOK(f[d]) /\ Members(f[d]) = Members(t)
           Bad == {d \in 0 .. IdBits : ~ Good(d)}
<1>1. Retried(t, n, this, now_) = f[IdBits]
  BY DEF Retried, IsRetry
<1>2. IsRetry(f, t, n, this, now_, IdBits)
  BY RetryExists, Constants
<1> HIDE DEF f
<1>3. \A d \in 0 .. IdBits : f[d] = IF d = 0 THEN t ELSE SplitOnce(f[d - 1], n, this, now_)
  BY <1>2 DEF IsRetry
<1>4. Good(0)
  BY <1>3, Constants
<1>5. ASSUME NEW d \in 1 .. IdBits, Good(d - 1) PROVE Good(d)
  <2>1. d \in 0 .. IdBits /\ d # 0
    BY Constants
  <2>2. f[d] = SplitOnce(f[d - 1], n, this, now_)
    BY <1>3, <2>1
  <2>. QED
    BY <1>5, <2>2, SplitOnceFacts
<1> HIDE DEF Good
<1>6. ASSUME Bad # {} PROVE FALSE
  <2>1. Bad \subseteq Nat
    BY Constants
  <2>2. PICK d \in Bad : \A y \in Bad : d <= y
    BY <1>6, <2>1, LeastNat
  <2>3. d \in 1 .. IdBits /\ d - 1 \in 0 .. IdBits /\ d - 1 \notin Bad
    BY <1>4, <2>2, Constants
  <2>. QED
    BY <1>5, <2>2, <2>3
<1>7. Good(IdBits)
  BY <1>6, Constants
<1>. QED
  BY <1>1, <1>7 DEF Good

\* Nobody leaves the table when a node is added, and a full bucket has a head
\* to be checked.
LEMMA AddNodeFacts ==
  ASSUME ScatteredRemotes, NEW t, TableOK(t), NEW n \in Remotes, NEW this, NEW now_ \in Nat
  PROVE  LET r == add_node(t, n, this, now_) IN
         /\ TableOK(r) /\ Members(t) \subseteq Members(r) /\ Members(r) \subseteq Members(t) \cup {n}
         /\ eviction_candidate(r, n) \subseteq Remotes
<1> DEFINE s == Retried(t, n, this, now_)
           i == bucket_by_node(s, n)
           c == bucket_add(s[i], n, now_)
           r == [s EXCEPT ![i] = c]
<1>1. TableOK(s) /\ Members(s) = Members(t)
  BY RetriedFacts
<1>2. add_node(t, n, this, now_) = r
  BY DEF add_node
<1> HIDE DEF s
<1>3. i \in DOMAIN s /\ in_range(s[i], n)
  BY <1>1, BucketOf
<1>4. BucketOK(s[i])
  BY <1>1, <1>3 DEF TableOK
<1>5. /\ BucketOK(c) /\ c.start = s[i].start /\ c.end = s[i].end
      /\ Range(s[i].nodes) \subseteq Range(c.nodes)
      /\ Range(c.nodes) \subseteq Range(s[i].nodes) \cup {n}
      /\ n \in Range(c.nodes) \/ is_full(c)
  BY <1>3, <1>4, AddKeepsBucket
<1> HIDE DEF i, c
<1>6. /\ TableOK(r) /\ Range(c.nodes) \subseteq Members(r)
      /\ Members(s) \subseteq Members(r) \cup Range(s[i].nodes)
      /\ Members(r) \subseteq Members(s) \cup Range(c.nodes)
  BY <1>1, <1>3, <1>5, ReplaceBucket
<1>7. Range(s[i].nodes) \subseteq Members(s)
  BY <1>3 DEF Members
<1>8. r[i] = c /\ DOMAIN r = DOMAIN s /\ \A j \in DOMAIN s : r[j].end = s[j].end
  BY <1>3, <1>5
<1> HIDE DEF r
<1>9. EndsAbove(r, n) = EndsAbove(s, n)
  BY <1>8 DEF EndsAbove
<1>10. bucket_by_node(r, n) = i
  BY <1>9 DEF bucket_by_node, i
<1>11. ASSUME n \notin Members(r) PROVE Head(c.nodes) \in Remotes
  <2>1. c.nodes \in Seq(Remotes) /\ Len(c.nodes) = K
    BY <1>5, <1>6, <1>11 DEF is_full, BucketOK, Bucket
  <2>. QED
    BY <2>1, Constants
<1>12. eviction_candidate(r, n) \subseteq Remotes
  BY <1>8, <1>10, <1>11 DEF eviction_candidate
<1>. QED
  BY <1>1, <1>2, <1>5, <1>6, <1>7, <1>12

\* Only the node leaves the table.
LEMMA RemoveNodeFacts ==
  ASSUME ScatteredRemotes, NEW t, TableOK(t), NEW n \in Remotes
  PROVE  /\ TableOK(remove_node(t, n)) /\ Members(remove_node(t, n)) \subseteq Members(t)
         /\ Members(t) \ {n} \subseteq Members(remove_node(t, n))
<1> DEFINE i == bucket_by_node(t, n)
           b == t[i]
           list == RemoveFirst(b.nodes, n)
           c == [b EXCEPT !.nodes = list]
           r == [t EXCEPT ![i] = c]
<1>1. i \in DOMAIN t
  BY BucketOf
<1>2. remove_node(t, n) = r
  BY <1>1 DEF remove_node
<1> HIDE DEF i
<1>2a. BucketOK(b)
  BY <1>1 DEF TableOK
<1> HIDE DEF b
<1>3. BucketOK(b) /\ b \in Bucket /\ b.nodes \in Seq(Remotes) /\ Len(b.nodes) \in Nat
  BY <1>2a DEF BucketOK, Bucket
<1>4. /\ list \in Seq(Remotes) /\ Len(list) <= Len(b.nodes) /\ Range(list) \subseteq Range(b.nodes)
      /\ Range(b.nodes) \ {n} \subseteq Range(list)
      /\ IsInjective(b.nodes) => IsInjective(list)
  BY <1>3, RemoveFirstFacts, Zenon
<1> HIDE DEF list
<1>5. /\ c \in Bucket /\ c.start = b.start /\ c.end = b.end /\ c.nodes = list /\ c.cache = b.cache
  BY <1>3, <1>4 DEF Bucket
<1> HIDE DEF c
<1>6. BucketOK(c)
  <2>1. Len(list) <= K
    BY <1>3, <1>4, Constants DEF BucketOK
  <2>. QED
    BY <1>3, <1>4, <1>5, <2>1 DEF BucketOK, Dyadic, in_range
<1>7. /\ TableOK(r) /\ Range(c.nodes) \subseteq Members(r)
      /\ Members(t) \subseteq Members(r) \cup Range(b.nodes)
      /\ Members(r) \subseteq Members(t) \cup Range(c.nodes)
  BY <1>1, <1>5, <1>6, ReplaceBucket DEF b
<1>8. Range(b.nodes) \subseteq Members(t)
  BY <1>1 DEF Members, b
<1>. QED
  BY <1>2, <1>4, <1>5, <1>7, <1>8

-----------------------------------------------------------------------------
(* The parts of the handlers.                                              *)

ExpectedOK(e) ==
  /\ IsFiniteSet(DOMAIN e)
  /\ \A id \in DOMAIN e : /\ id[2] \in Remotes /\ e[id].node = id[2]
                          /\ e[id].replacement \subseteq Remotes

OutOK(out) == \A m \in out : m.type = "ping" => m.to \in Remotes

ProtoOK(p) ==
  /\ DOMAIN p = {"buckets", "expected", "finds", "out"}
  /\ TableOK(p.buckets) /\ ExpectedOK(p.expected) /\ OutOK(p.out)

\* What a part of a handler may do with p: it makes no ping overdue, and a node
\* it takes out of the table had one.
Keeps(p, q, now_) ==
  /\ Overdue(q, now_) \subseteq Overdue(p, now_)
  /\ \A n \in Known(p) \ Known(q) : \E id \in Overdue(p, now_) \ Overdue(q, now_) : id[2] = n

Good(p, q, now_) == ProtoOK(q) /\ Keeps(p, q, now_)

LEMMA KeepsTransitive ==
  ASSUME NEW p, NEW q, NEW r, NEW now_, Keeps(p, q, now_), Keeps(q, r, now_)
  PROVE  Keeps(p, r, now_)
<1>1. Overdue(r, now_) \subseteq Overdue(p, now_)
  BY DEF Keeps
<1>2. ASSUME NEW n \in Known(p) \ Known(r)
      PROVE  \E id \in Overdue(p, now_) \ Overdue(r, now_) : id[2] = n
  <2>1. CASE n \in Known(q)
    BY <2>1 DEF Keeps
  <2>2. CASE n \notin Known(q)
    BY <2>2 DEF Keeps
  <2>. QED
    BY <2>1, <2>2
<1>. QED
  BY <1>1, <1>2 DEF Keeps

LEMMA GoodTransitive ==
  ASSUME NEW p, NEW q, NEW r, NEW now_, Good(p, q, now_), Good(q, r, now_)
  PROVE  Good(p, r, now_)
BY KeepsTransitive DEF Good

LEMMA GoodRefl ==
  ASSUME NEW p, NEW now_, ProtoOK(p)
  PROVE  Good(p, p, now_)
BY DEF Good, Keeps

\* Only finds and packets that are no pings change.
LEMMA SameCore ==
  ASSUME NEW p, NEW q, NEW now_, ProtoOK(p),
         DOMAIN q = DOMAIN p, q.buckets = p.buckets, q.expected = p.expected, OutOK(q.out)
  PROVE  Good(p, q, now_)
BY DEF Good, ProtoOK, Keeps, Overdue, Known

\* The table changes and loses nobody.
LEMMA OtherTable ==
  ASSUME NEW p, NEW t, NEW now_, ProtoOK(p), TableOK(t), Members(p.buckets) \subseteq Members(t)
  PROVE  /\ Good(p, [p EXCEPT !.buckets = t], now_)
         /\ [p EXCEPT !.buckets = t].buckets = t
<1> DEFINE q == [p EXCEPT !.buckets = t]
<1>1. DOMAIN q = DOMAIN p /\ q.buckets = t /\ q.expected = p.expected /\ q.out = p.out
  BY DEF ProtoOK
<1> HIDE DEF q
<1>2. ProtoOK(q)
  BY <1>1 DEF ProtoOK
<1>3. Keeps(p, q, now_)
  BY <1>1 DEF Keeps, Overdue, Known
<1>. QED
  BY <1>1, <1>2, <1>3 DEF Good, q

LEMMA FinitePings ==
  ASSUME NEW S, S \subseteq Remotes, NEW e
  PROVE  IsFiniteSet({<<e, n>> : n \in S})
<1> DEFINE T == {<<e, n>> : n \in S}
           f == [n \in S |-> <<e, n>>]
<1>1. IsFiniteSet(S)
  <2>1. Pow[IdBits] - 1 \in Int /\ S \subseteq 0 .. (Pow[IdBits] - 1)
    BY KademliaAssumption, Doubles, Constants DEF Ids
  <2>2. IsFiniteSet(0 .. (Pow[IdBits] - 1))
    BY <2>1, FS_Interval
  <2>. QED
    BY <2>1, <2>2, FS_Subset
<1>2. f \in Surjection(S, T)
  BY DEF Surjection
<1>. QED
  BY <1>1, <1>2, FS_Surjection

LEMMA PingFacts ==
  ASSUME NEW p, ProtoOK(p), NEW S, S \subseteq Remotes, NEW r, r \subseteq Remotes, NEW now_ \in Nat
  PROVE  Good(p, ping(p, S, r, now_), now_)
<1> DEFINE sent == {<<Echo(now_), n>> : n \in S}
           packets == {[type |-> "ping", to |-> n, echo |-> Echo(now_)] : n \in S}
           entry(id) == [deadline |-> now_ + Timeout, node |-> id[2], replacement |-> r]
           e == [id \in DOMAIN p.expected \cup sent |-> IF id \in sent THEN entry(id) ELSE p.expected[id]]
           q == ping(p, S, r, now_)
<1>1. /\ DOMAIN q = {"buckets", "expected", "finds", "out"} /\ q.buckets = p.buckets
      /\ q.expected = e /\ q.out = p.out \cup packets
  BY DEF ping, ProtoOK
<1> HIDE DEF q
<1>2. OutOK(q.out)
  BY <1>1 DEF OutOK, ProtoOK
<1>3. IsFiniteSet(DOMAIN e)
  <2>1. IsFiniteSet(DOMAIN p.expected) /\ IsFiniteSet(sent)
    BY FinitePings DEF ProtoOK, ExpectedOK
  <2>2. DOMAIN e = DOMAIN p.expected \cup sent
    OBVIOUS
  <2> HIDE DEF e, sent
  <2>. QED
    BY <2>1, <2>2, FS_Union
<1>4. ASSUME NEW id \in DOMAIN e
      PROVE  id[2] \in Remotes /\ e[id].node = id[2] /\ e[id].replacement \subseteq Remotes
  <2>1. CASE id \in sent
    BY <2>1
  <2>2. CASE id \notin sent
    BY <2>2 DEF ProtoOK, ExpectedOK
  <2>. QED
    BY <2>1, <2>2
<1>5. ProtoOK(q)
  BY <1>1, <1>2, <1>3, <1>4 DEF ProtoOK, ExpectedOK
<1>6. Overdue(q, now_) \subseteq Overdue(p, now_)
  <2>1. ASSUME NEW id \in DOMAIN e, now_ > e[id].deadline
        PROVE  id \in DOMAIN p.expected /\ now_ > p.expected[id].deadline
    <3>1. ASSUME id \in sent PROVE FALSE
      <4>1. e[id].deadline = now_ + Timeout
        BY <3>1
      <4>. QED
        BY <2>1, <4>1, Constants
    <3>. QED
      BY <2>1, <3>1
  <2> HIDE DEF e
  <2>. QED
    BY <1>1, <2>1 DEF Overdue
<1>. QED
  BY <1>1, <1>5, <1>6 DEF Good, Keeps, Known, q

LEMMA FindFacts ==
  ASSUME NEW p, ProtoOK(p), NEW targets, NEW via, NEW now_
  PROVE  Good(p, find_node(p, targets, via, now_), now_)
<1> DEFINE q == find_node(p, targets, via, now_)
           ask(t) == IF via # None THEN via
                     ELSE Range(Take(neighbours(p.buckets, t, K), Concurrency))
           asked == UNION {{[type |-> "find_node", to |-> n, target |-> t] : n \in ask(t)} : t \in targets}
           finds == [t \in targets |-> now_ + Timeout] @@ p.finds
<1>1. q = [p EXCEPT !.finds = finds, !.out = p.out \cup asked]
  BY Zenon DEF find_node
<1>2. \A m \in asked : m.type = "find_node"
  <2> HIDE DEF ask
  <2>. QED
    OBVIOUS
<1> HIDE DEF asked, finds, q
<1>3. DOMAIN q = DOMAIN p /\ q.buckets = p.buckets /\ q.expected = p.expected /\ q.out = p.out \cup asked
  BY <1>1 DEF ProtoOK
<1>4. OutOK(q.out)
  BY <1>2, <1>3 DEF OutOK, ProtoOK
<1>. QED
  BY <1>3, <1>4, SameCore DEF q

\* The ping that timed out and the node it was for go together.
LEMMA EvictFacts ==
  ASSUME ScatteredRemotes, NEW p, ProtoOK(p), NEW now_, NEW id \in Overdue(p, now_)
  PROVE  Good(p, Evict(p, id), now_)
<1> DEFINE e == [i \in DOMAIN p.expected \ {id} |-> p.expected[i]]
           t == remove_node(p.buckets, p.expected[id].node)
           q == Evict(p, id)
<1>1. q = [p EXCEPT !.expected = e, !.buckets = t]
  BY DEF Evict
<1>2. id \in DOMAIN p.expected /\ id[2] \in Remotes /\ p.expected[id].node = id[2]
  BY DEF Overdue, ProtoOK, ExpectedOK
<1>3. /\ TableOK(t) /\ Members(p.buckets) \ {id[2]} \subseteq Members(t)
  BY <1>2, RemoveNodeFacts DEF ProtoOK
<1>4. ExpectedOK(e)
  <2>1. IsFiniteSet(DOMAIN e)
    <3>1. IsFiniteSet(DOMAIN p.expected) /\ DOMAIN e \in SUBSET DOMAIN p.expected
      BY DEF ProtoOK, ExpectedOK
    <3> HIDE DEF e
    <3>. QED
      BY <3>1, FS_Subset
  <2>. QED
    BY <2>1 DEF ProtoOK, ExpectedOK
<1>5. \A i \in DOMAIN e : i \in DOMAIN p.expected /\ i # id /\ e[i] = p.expected[i]
  OBVIOUS
<1> HIDE DEF e, t, q
<1>6. DOMAIN q = DOMAIN p /\ q.buckets = t /\ q.expected = e /\ q.out = p.out
  BY <1>1 DEF ProtoOK
<1>7. ProtoOK(q)
  BY <1>3, <1>4, <1>6 DEF ProtoOK
<1>8. Overdue(q, now_) \subseteq Overdue(p, now_) \ {id}
  BY <1>5, <1>6 DEF Overdue
<1>9. \A n \in Known(p) \ Known(q) : n = id[2]
  BY <1>3, <1>6 DEF Known
<1>. QED
  BY <1>7, <1>8, <1>9 DEF Good, Keeps, q

LEMMA AnsweredFacts ==
  ASSUME ScatteredRemotes, NEW p, ProtoOK(p), NEW ids, ids \subseteq DOMAIN p.expected, NEW now_
  PROVE  Good(p, Answered(p, ids), now_)
<1> DEFINE t == p.buckets
           rs == UNION {p.expected[id].replacement : id \in ids}
           here(i) == {r \in rs : bucket_by_node(t, r) = i}
           list(i, b) == IF here(i) = {} THEN b.cache ELSE Append(b.cache, CHOOSE r \in here(i) : TRUE)
           CacheIn(i, b) == [b EXCEPT !.cache = list(i, b)]
           e == [i \in DOMAIN p.expected \ ids |-> p.expected[i]]
           u == [i \in DOMAIN t |-> CacheIn(i, t[i])]
           q == Answered(p, ids)
<1>1. q = [p EXCEPT !.expected = e, !.buckets = u]
  BY Zenon DEF Answered
<1>2. rs \subseteq Remotes
  BY DEF ProtoOK, ExpectedOK
<1>3. TableOK(t)
  BY DEF ProtoOK
<1>4. ASSUME NEW i \in DOMAIN t
      PROVE  /\ BucketOK(u[i]) /\ u[i].start = t[i].start /\ u[i].end = t[i].end
             /\ u[i].nodes = t[i].nodes
  <2> DEFINE b == t[i]
             c == list(i, b)
  <2>1. BucketOK(b)
    BY <1>3 DEF TableOK
  <2>2. u[i] = [b EXCEPT !.cache = c]
    OBVIOUS
  <2>3. b \in Bucket /\ b.cache \in Seq(Remotes)
    BY <2>1 DEF BucketOK, Bucket
  <2>4. c \in Seq(Remotes) /\ \A n \in Range(c) : n \in Range(b.cache) \/ in_range(b, n)
    <3>1. CASE here(i) = {}
      BY <2>3, <3>1
    <3>2. CASE here(i) # {}
      <4> DEFINE r == CHOOSE r \in here(i) : TRUE
      <4>1. r \in here(i)
        BY <3>2
      <4>2. c = Append(b.cache, r)
        BY <3>2
      <4>3. r \in Remotes /\ bucket_by_node(t, r) = i
        BY <1>2, <4>1
      <4>4. in_range(b, r)
        BY <1>3, <4>3, BucketOf
      <4> HIDE DEF b, c, r
      <4>5. c \in Seq(Remotes) /\ Range(c) = Range(b.cache) \cup {r}
        BY <2>3, <4>2, <4>3, AppendFacts
      <4>. QED
        BY <4>4, <4>5
    <3>. QED
      BY <3>1, <3>2
  <2> HIDE DEF b, c, u
  <2>5. /\ u[i] \in Bucket /\ u[i].start = b.start /\ u[i].end = b.end /\ u[i].nodes = b.nodes
        /\ u[i].cache = c
    BY <2>2, <2>3, <2>4 DEF Bucket
  <2>6. BucketOK(u[i])
    BY <2>1, <2>4, <2>5 DEF BucketOK, Dyadic, in_range
  <2>. QED
    BY <2>5, <2>6 DEF b
<1>5. u = [i \in DOMAIN t |-> u[i]] /\ DOMAIN u = DOMAIN t
  OBVIOUS
<1>6. IsFiniteSet(DOMAIN e)
  <2>1. IsFiniteSet(DOMAIN p.expected) /\ DOMAIN e \in SUBSET DOMAIN p.expected
    BY DEF ProtoOK, ExpectedOK
  <2> HIDE DEF e
  <2>. QED
    BY <2>1, FS_Subset
<1>7. ExpectedOK(e)
  BY <1>6 DEF ProtoOK, ExpectedOK
<1>8. \A i \in DOMAIN e : i \in DOMAIN p.expected /\ e[i] = p.expected[i]
  OBVIOUS
<1> HIDE DEF e, u, q, t
<1>9. TableOK(u)
  BY <1>3, <1>4, <1>5, SameRanges
<1>10. Members(u) = Members(t)
  BY <1>4, <1>5 DEF Members
<1>11. DOMAIN q = DOMAIN p /\ q.buckets = u /\ q.expected = e /\ q.out = p.out
  BY <1>1 DEF ProtoOK
<1>12. ProtoOK(q)
  BY <1>7, <1>9, <1>11 DEF ProtoOK
<1>13. Overdue(q, now_) \subseteq Overdue(p, now_)
  BY <1>8, <1>11 DEF Overdue
<1>. QED
  BY <1>10, <1>11, <1>12, <1>13 DEF Good, Keeps, Known, q, t

LEMMA AddOrCheckFacts ==
  ASSUME ScatteredRemotes, NEW p, ProtoOK(p), NEW n \in Remotes, NEW this, NEW now_ \in Nat
  PROVE  Good(p, AddOrCheck(p, n, this, now_), now_)
<1> DEFINE t == add_node(p.buckets, n, this, now_)
           q == [p EXCEPT !.buckets = t]
<1>1. /\ TableOK(t) /\ Members(p.buckets) \subseteq Members(t)
      /\ eviction_candidate(t, n) \subseteq Remotes
  BY AddNodeFacts DEF ProtoOK
<1>2. AddOrCheck(p, n, this, now_) = ping(q, eviction_candidate(q.buckets, n), {n}, now_)
  BY DEF AddOrCheck
<1> HIDE DEF t
<1>3. Good(p, q, now_) /\ q.buckets = t
  BY <1>1, OtherTable
<1> HIDE DEF q
<1>4. ProtoOK(q) /\ eviction_candidate(q.buckets, n) \subseteq Remotes
  BY <1>1, <1>3 DEF Good
<1>5. Good(q, ping(q, eviction_candidate(q.buckets, n), {n}, now_), now_)
  BY <1>4, PingFacts
<1>. QED
  BY <1>2, <1>3, <1>5, GoodTransitive

LEMMA PingReplacementsFacts ==
  ASSUME NEW p, ProtoOK(p), NEW now_ \in Nat
  PROVE  Good(p, PingReplacements(p, now_), now_)
<1> DEFINE S == UNION {Range(p.buckets[i].cache) : i \in not_full_buckets(p.buckets)}
<1>1. S \subseteq Remotes
  <2>1. ASSUME NEW i \in DOMAIN p.buckets PROVE Range(p.buckets[i].cache) \subseteq Remotes
    <3>1. p.buckets[i].cache \in Seq(Remotes)
      BY DEF ProtoOK, TableOK, BucketOK, Bucket
    <3>. QED
      BY <3>1 DEF Range
  <2>. QED
    BY <2>1 DEF not_full_buckets
<1>2. PingReplacements(p, now_) = ping(p, S, None, now_)
  BY DEF PingReplacements
<1> HIDE DEF S
<1>. QED
  BY <1>1, <1>2, PingFacts DEF None

LEMMA RefreshFacts ==
  ASSUME NEW p, ProtoOK(p), NEW now_, NEW q \in RefreshIdle(p, now_)
  PROVE  Good(p, q, now_)
<1>1. PICK targets : q = find_node(p, targets, None, now_)
  BY DEF RefreshIdle
<1>. QED
  BY <1>1, FindFacts

LEMMA PruneFacts ==
  ASSUME NEW p, ProtoOK(p), NEW now_
  PROVE  Good(p, PruneFinds(p, now_), now_)
<1> DEFINE finds == [t \in {x \in DOMAIN p.finds : now_ <= p.finds[x]} |-> p.finds[t]]
           q == PruneFinds(p, now_)
<1>1. q = [p EXCEPT !.finds = finds]
  BY DEF PruneFinds
<1> HIDE DEF finds, q
<1>2. DOMAIN q = DOMAIN p /\ q.buckets = p.buckets /\ q.expected = p.expected /\ q.out = p.out
  BY <1>1 DEF ProtoOK
<1>. QED
  BY <1>2, SameCore DEF q, ProtoOK

\* What is sent but no ping.
LEMMA SendFacts ==
  ASSUME NEW p, ProtoOK(p), NEW pkt, pkt.type # "ping", NEW now_
  PROVE  Good(p, Send(p, pkt), now_)
<1> DEFINE q == Send(p, pkt)
<1>1. /\ DOMAIN q = DOMAIN p /\ q.buckets = p.buckets /\ q.expected = p.expected
      /\ q.out = p.out \cup {pkt}
  BY DEF Send, ProtoOK
<1> HIDE DEF q
<1>. QED
  BY <1>1, SameCore DEF q, ProtoOK, OutOK

-----------------------------------------------------------------------------
(* update.                                                                 *)

\* A run of update that began with the state p.
RunOK(p, c, now_) == Good(p, c.proto, now_) /\ c.node \in Remotes

LEMMA TimeOutFacts ==
  ASSUME ScatteredRemotes, NEW p, NEW c, NEW now_, RunOK(p, c, now_), NEW this, NEW d \in TimeOut(c, this, now_)
  PROVE  RunOK(p, d, now_)
<1>1. CASE d = c
  BY <1>1
<1>2. CASE d # c
  <2>1. PICK late \in Overdue(c.proto, now_) :
          LET e == c.proto.expected[late]
              q == Evict(c.proto, late)
          IN  \/ d = Run(q, c.node, c.id, e.node # c.node)
              \/ \E r \in e.replacement : d = Run(q, r, None, r # this)
    BY <1>2, Zenon DEF TimeOut
  <2> DEFINE q == Evict(c.proto, late)
  <2>2. ProtoOK(c.proto) /\ Good(p, c.proto, now_)
    BY DEF RunOK, Good
  <2>3. Good(p, q, now_)
    BY <2>2, EvictFacts, GoodTransitive
  <2>4. c.proto.expected[late].replacement \subseteq Remotes
    BY <2>2 DEF Overdue, ProtoOK, ExpectedOK
  <2> HIDE DEF q
  <2>5. d.proto = q /\ d.node \in Remotes
    BY <2>1, <2>4 DEF Run, RunOK, q
  <2>. QED
    BY <2>3, <2>5 DEF RunOK
<1>. QED
  BY <1>1, <1>2

\* The loop over the timed-out pings.
IsLoop(runs, p, n, id, this, now_, len) ==
  runs = [k \in 0 .. len |->
            IF k = 0 THEN {Run(p, n, id, TRUE)} ELSE UNION {TimeOut(c, this, now_) : c \in runs[k - 1]}]

LEMMA LoopExists ==
  ASSUME NEW p, NEW n, NEW id, NEW this, NEW now_, NEW len \in Nat
  PROVE  \E runs : IsLoop(runs, p, n, id, this, now_, len)
<1> DEFINE Bad == {m \in 0 .. len : ~ \E f : IsLoop(f, p, n, id, this, now_, m)}
<1>1. ASSUME Bad # {} PROVE FALSE
  <2>1. Bad \subseteq Nat
    OBVIOUS
  <2>2. PICK m \in Bad : \A y \in Bad : m <= y
    BY <1>1, <2>1, LeastNat
  <2>3. CASE m = 0
    <3> DEFINE g == [i \in 0 .. 0 |-> {Run(p, n, id, TRUE)}]
    <3>1. IsLoop(g, p, n, id, this, now_, 0)
      BY DEF IsLoop
    <3>. QED
      BY <2>2, <2>3, <3>1
  <2>4. CASE m # 0
    <3>1. m - 1 \in 0 .. len /\ m \in Nat /\ m > 0 /\ m - 1 \notin Bad
      BY <2>2, <2>4
    <3>2. PICK g : IsLoop(g, p, n, id, this, now_, m - 1)
      BY <3>1
    <3> DEFINE Step(f, i) == IF i = 0 THEN {Run(p, n, id, TRUE)}
                             ELSE UNION {TimeOut(c, this, now_) : c \in f[i - 1]}
               h == [i \in 0 .. m |-> IF i = m THEN Step(g, m) ELSE g[i]]
    <3>3. \A i \in 0 .. m - 1 : g[i] = Step(g, i)
      BY <3>1, <3>2 DEF IsLoop
    <3>4. h = [i \in 0 .. m |-> h[i]]
      OBVIOUS
    <3>5. h[m] = Step(g, m) /\ \A i \in 0 .. m - 1 : h[i] = g[i]
      <4> HIDE DEF Step
      <4>. QED
        BY <3>1
    <3>6. ASSUME NEW i \in 0 .. m PROVE h[i] = Step(h, i)
      <4> HIDE DEF h
      <4>1. Step(h, i) = Step(g, i)
        <5>1. CASE i = 0
          BY <5>1
        <5>2. CASE i # 0
          <6>1. i - 1 \in 0 .. m - 1
            BY <3>1, <5>2
          <6>. QED
            BY <3>5, <5>2, <6>1
        <5>. QED
          BY <5>1, <5>2
      <4>2. i = m \/ i \in 0 .. m - 1
        BY <3>1
      <4> HIDE DEF Step
      <4>. QED
        BY <3>3, <3>5, <4>1, <4>2
    <3>7. IsLoop(h, p, n, id, this, now_, m)
      <4> HIDE DEF h
      <4>1. h = [i \in 0 .. m |-> Step(h, i)]
        <5> HIDE DEF Step
        <5>. QED
          BY <3>4, <3>6
      <4>. QED
        BY <4>1 DEF IsLoop
    <3>. QED
      BY <2>2, <3>7
  <2>. QED
    BY <2>3, <2>4
<1>2. len \in 0 .. len
  OBVIOUS
<1>. QED
  BY <1>1, <1>2

LEMMA LoopFacts ==
  ASSUME ScatteredRemotes, NEW p, ProtoOK(p), NEW n \in Remotes, NEW id, NEW this, NEW now_,
         NEW len \in Nat, NEW runs, IsLoop(runs, p, n, id, this, now_, len)
  PROVE  \A c \in runs[len] : RunOK(p, c, now_)
<1> DEFINE AllOK(k) == \A c \in runs[k] : RunOK(p, c, now_)
           Bad == {k \in 0 .. len : ~ AllOK(k)}
<1>1. \A k \in 0 .. len :
        runs[k] = IF k = 0 THEN {Run(p, n, id, TRUE)} ELSE UNION {TimeOut(c, this, now_) : c \in runs[k - 1]}
  BY DEF IsLoop
<1>2. AllOK(0)
  <2>1. RunOK(p, Run(p, n, id, TRUE), now_)
    BY GoodRefl DEF RunOK, Run
  <2>2. runs[0] = {Run(p, n, id, TRUE)}
    <3>1. 0 \in 0 .. len
      OBVIOUS
    <3>. QED
      BY <1>1, <3>1, Zenon
  <2>. QED
    BY <2>1, <2>2
<1>3. ASSUME NEW k \in 1 .. len, AllOK(k - 1) PROVE AllOK(k)
  <2>1. k \in 0 .. len /\ k # 0
    OBVIOUS
  <2>2. runs[k] = UNION {TimeOut(c, this, now_) : c \in runs[k - 1]}
    BY <1>1, <2>1
  <2>3. ASSUME NEW d \in runs[k] PROVE RunOK(p, d, now_)
    <3>1. PICK c \in runs[k - 1] : d \in TimeOut(c, this, now_)
      BY <2>2
    <3>2. RunOK(p, c, now_)
      BY <1>3
    <3>. QED
      BY <3>1, <3>2, TimeOutFacts
  <2>. QED
    BY <2>3
<1> HIDE DEF AllOK
<1>4. ASSUME Bad # {} PROVE FALSE
  <2>1. Bad \subseteq Nat
    OBVIOUS
  <2>2. PICK k \in Bad : \A y \in Bad : k <= y
    BY <1>4, <2>1, LeastNat
  <2>3. k \in 1 .. len /\ k - 1 \in 0 .. len /\ k - 1 \notin Bad
    BY <1>2, <2>2
  <2>. QED
    BY <1>3, <2>2, <2>3
<1>5. AllOK(len)
  BY <1>4
<1>. QED
  BY <1>5 DEF AllOK

LEMMA AfterLoopFacts ==
  ASSUME ScatteredRemotes, NEW p, NEW c, NEW this, NEW now_ \in Nat, RunOK(p, c, now_),
         NEW q \in AfterLoop(c, this, now_)
  PROVE  Good(p, q, now_)
<1> DEFINE answered == Answered(c.proto, c.id \cap DOMAIN c.proto.expected)
           added == AddOrCheck(answered, c.node, this, now_)
           pings == PingReplacements(added, now_)
<1>1. CASE ~ c.going
  BY <1>1 DEF AfterLoop, RunOK
<1>2. CASE c.going
  <2>1. PICK r \in RefreshIdle(pings, now_) : q = PruneFinds(r, now_)
    BY <1>2 DEF AfterLoop
  <2>2. Good(p, c.proto, now_) /\ ProtoOK(c.proto) /\ c.node \in Remotes
    BY DEF RunOK, Good
  <2>3. Good(c.proto, answered, now_)
    BY <2>2, AnsweredFacts
  <2> HIDE DEF answered
  <2>4. Good(answered, added, now_)
    BY <2>2, <2>3, AddOrCheckFacts DEF Good
  <2> HIDE DEF added
  <2>5. Good(added, pings, now_)
    BY <2>4, PingReplacementsFacts DEF Good
  <2> HIDE DEF pings
  <2>6. Good(pings, r, now_)
    BY <2>5, RefreshFacts DEF Good
  <2>7. Good(r, q, now_)
    BY <2>1, <2>6, PruneFacts DEF Good
  <2>. QED
    BY <2>2, <2>3, <2>4, <2>5, <2>6, <2>7, GoodTransitive
<1>. QED
  BY <1>1, <1>2

LEMMA UpdateFacts ==
  ASSUME ScatteredRemotes, NEW p, ProtoOK(p), NEW n \in Remotes, NEW id, NEW this, NEW now_ \in Nat,
         NEW q \in update(p, n, id, this, now_)
  PROVE  Good(p, q, now_)
<1> DEFINE late == Cardinality(Overdue(p, now_))
           runs == CHOOSE runs : IsLoop(runs, p, n, id, this, now_, late)
<1>1. late \in Nat
  <2>1. IsFiniteSet(DOMAIN p.expected) /\ Overdue(p, now_) \in SUBSET DOMAIN p.expected
    BY DEF ProtoOK, ExpectedOK, Overdue
  <2>2. IsFiniteSet(Overdue(p, now_))
    BY <2>1, FS_Subset
  <2>. QED
    BY <2>2, FS_CardinalityType
<1>2. q = p \/ \E c \in runs[late] : q \in AfterLoop(c, this, now_)
  <2>1. update(p, n, id, this, now_)
          = IF n = this \/ ~ (id \subseteq DOMAIN p.expected) THEN {p}
            ELSE UNION {AfterLoop(c, this, now_) : c \in runs[late]}
    BY Zenon DEF update, IsLoop
  <2> HIDE DEF runs, late
  <2>. QED
    BY <2>1
<1> HIDE DEF late
<1>3. IsLoop(runs, p, n, id, this, now_, late)
  BY <1>1, LoopExists
<1> HIDE DEF runs
<1>4. \A c \in runs[late] : RunOK(p, c, now_)
  BY <1>1, <1>3, LoopFacts
<1>. QED
  BY <1>2, <1>4, AfterLoopFacts, GoodRefl

-----------------------------------------------------------------------------
(* The packet handlers.                                                    *)

LEMMA RecvPingFacts ==
  ASSUME ScatteredRemotes, NEW p, ProtoOK(p), NEW n \in Remotes, NEW echo, NEW now_ \in Nat,
         NEW q \in recv_ping(p, n, echo, This, now_)
  PROVE  Good(p, q, now_)
<1>1. n # This
  BY KademliaAssumption
<1>2. PICK r \in update(p, n, None, This, now_) : q = Send(r, [type |-> "pong", to |-> n, echo |-> echo])
  BY <1>1 DEF recv_ping
<1>3. Good(p, r, now_)
  BY <1>2, UpdateFacts
<1>4. Good(r, q, now_)
  BY <1>2, <1>3, SendFacts DEF Good
<1>. QED
  BY <1>3, <1>4, GoodTransitive

LEMMA RecvFindNodeFacts ==
  ASSUME ScatteredRemotes, NEW p, ProtoOK(p), NEW n \in Remotes, NEW target, NEW now_ \in Nat,
         NEW q \in recv_find_node(p, n, target, This, now_)
  PROVE  Good(p, q, now_)
<1>1. PICK r \in update(p, n, None, This, now_) :
        q = Send(r, [type |-> "neighbours", to |-> n, nodes |-> Range(neighbours(r.buckets, target, K))])
  BY DEF recv_find_node
<1>2. Good(p, r, now_)
  BY <1>1, UpdateFacts
<1>3. Good(r, q, now_)
  BY <1>1, <1>2, SendFacts DEF Good
<1>. QED
  BY <1>2, <1>3, GoodTransitive

LEMMA RecvNeighboursFacts ==
  ASSUME NEW p, ProtoOK(p), NEW nodes, nodes \subseteq Remotes \cup {This}, NEW now_ \in Nat
  PROVE  Good(p, recv_neighbours(p, nodes, This, now_), now_)
<1> DEFINE new == nodes \ (Known(p) \cup {This})
           closest(t) == {n \in new : Cardinality({m \in new : id_distance(m, t) < id_distance(n, t)})
                                         < Concurrency}
           closer(t) == {n \in closest(t) : \A m \in Known(p) : id_distance(n, t) < id_distance(m, t)}
           open == {t \in DOMAIN p.finds : now_ < p.finds[t]}
           forward == UNION {{[type |-> "find_node", to |-> n, target |-> t] : n \in closer(t)} : t \in open}
           q == [p EXCEPT !.out = @ \cup forward]
<1>1. recv_neighbours(p, nodes, This, now_) = ping(q, new, None, now_)
  BY Zenon DEF recv_neighbours
<1>2. \A m \in forward : m.type = "find_node"
  <2> HIDE DEF closer, open
  <2>. QED
    OBVIOUS
<1>3. new \subseteq Remotes
  OBVIOUS
<1> HIDE DEF forward, new
<1>4. /\ DOMAIN q = DOMAIN p /\ q.buckets = p.buckets /\ q.expected = p.expected
      /\ q.out = p.out \cup forward
  BY DEF ProtoOK
<1> HIDE DEF q
<1>5. Good(p, q, now_)
  <2>1. OutOK(q.out)
    BY <1>2, <1>4 DEF OutOK, ProtoOK
  <2>. QED
    BY <1>4, <2>1, SameCore
<1>6. Good(q, ping(q, new, None, now_), now_)
  BY <1>3, <1>5, PingFacts DEF Good, None
<1>. QED
  BY <1>1, <1>5, <1>6, GoodTransitive

-----------------------------------------------------------------------------
(* The bootstrap list.                                                     *)

LEMMA FirstState ==
  ASSUME ScatteredRemotes
  PROVE  ProtoOK(Proto(0))
<1> DEFINE b == KBucket(0, Pow[IdBits] - 1, 0)
           t == <<b>>
           p == Proto(0)
<1>1. Pow[IdBits] \in Nat /\ Pow[IdBits] > 0 /\ IdBits \in Grain .. IdBits
  BY GrainFacts, Doubles, Constants
<1>2. /\ b.start = 0 /\ b.end = Pow[IdBits] - 1 /\ b.nodes = <<>> /\ b.cache = <<>> /\ b \in Bucket
  BY <1>1 DEF KBucket, Bucket
<1>3. Dyadic(b, IdBits)
  <2>1. 0 \in Nat /\ b.start = 0 * Pow[IdBits] /\ b.end = b.start + Pow[IdBits] - 1
    BY <1>1, <1>2
  <2>. QED
    BY <2>1 DEF Dyadic
<1> HIDE DEF b
<1>4. BucketOK(b)
  BY <1>1, <1>2, <1>3, Constants DEF BucketOK, IsInjective, Range
<1>5. TableOK(t)
  BY <1>2, <1>4 DEF TableOK
<1>6. p.buckets = t /\ DOMAIN p = {"buckets", "expected", "finds", "out"} /\ p.out = {}
      /\ p.expected = [i \in {} |-> None]
  BY DEF Proto, RoutingTable, b
<1>7. ExpectedOK([i \in {} |-> None])
  BY FS_EmptySet DEF ExpectedOK
<1>. QED
  BY <1>5, <1>6, <1>7 DEF ProtoOK, OutOK

LEMMA BootstrapFacts ==
  ASSUME ScatteredRemotes, NEW p, ProtoOK(p), NEW n \in Remotes
  PROVE  ProtoOK(bootstrap(p, n, This, 0))
<1> DEFINE t == add_node(p.buckets, n, This, 0)
           q == [p EXCEPT !.buckets = t]
<1>1. TableOK(t) /\ Members(p.buckets) \subseteq Members(t)
  BY AddNodeFacts DEF ProtoOK
<1>2. bootstrap(p, n, This, 0) = find_node(q, {This}, {n}, 0)
  BY DEF bootstrap
<1> HIDE DEF t
<1>3. ProtoOK(q)
  BY <1>1, OtherTable DEF Good
<1> HIDE DEF q
<1>. QED
  BY <1>2, <1>3, FindFacts DEF Good

IsBoot(boot, list, len) ==
  boot = [i \in 0 .. len |->
            IF i = 0 THEN Proto(0)
            ELSE IF list[i] = This THEN boot[i - 1] ELSE bootstrap(boot[i - 1], list[i], This, 0)]

LEMMA BootExists ==
  ASSUME NEW list, NEW len \in Nat
  PROVE  \E boot : IsBoot(boot, list, len)
<1> DEFINE Bad == {m \in 0 .. len : ~ \E f : IsBoot(f, list, m)}
<1>1. ASSUME Bad # {} PROVE FALSE
  <2>1. Bad \subseteq Nat
    OBVIOUS
  <2>2. PICK m \in Bad : \A y \in Bad : m <= y
    BY <1>1, <2>1, LeastNat
  <2>3. CASE m = 0
    <3> DEFINE g == [i \in 0 .. 0 |-> Proto(0)]
    <3>1. IsBoot(g, list, 0)
      BY DEF IsBoot
    <3>. QED
      BY <2>2, <2>3, <3>1
  <2>4. CASE m # 0
    <3>1. m - 1 \in 0 .. len /\ m \in Nat /\ m > 0 /\ m - 1 \notin Bad
      BY <2>2, <2>4
    <3>2. PICK g : IsBoot(g, list, m - 1)
      BY <3>1
    <3> DEFINE Step(f, i) == IF i = 0 THEN Proto(0)
                             ELSE IF list[i] = This THEN f[i - 1] ELSE bootstrap(f[i - 1], list[i], This, 0)
               h == [i \in 0 .. m |-> IF i = m THEN Step(g, m) ELSE g[i]]
    <3>3. \A i \in 0 .. m - 1 : g[i] = Step(g, i)
      BY <3>1, <3>2 DEF IsBoot
    <3>4. h = [i \in 0 .. m |-> h[i]]
      OBVIOUS
    <3>5. h[m] = Step(g, m) /\ \A i \in 0 .. m - 1 : h[i] = g[i]
      <4> HIDE DEF Step
      <4>. QED
        BY <3>1
    <3>6. ASSUME NEW i \in 0 .. m PROVE h[i] = Step(h, i)
      <4> HIDE DEF h
      <4>1. Step(h, i) = Step(g, i)
        <5>1. CASE i = 0
          BY <5>1
        <5>2. CASE i # 0
          <6>1. i - 1 \in 0 .. m - 1
            BY <3>1, <5>2
          <6>. QED
            BY <3>5, <5>2, <6>1
        <5>. QED
          BY <5>1, <5>2
      <4>2. i = m \/ i \in 0 .. m - 1
        BY <3>1
      <4> HIDE DEF Step
      <4>. QED
        BY <3>3, <3>5, <4>1, <4>2
    <3>7. IsBoot(h, list, m)
      <4> HIDE DEF h
      <4>1. h = [i \in 0 .. m |-> Step(h, i)]
        <5> HIDE DEF Step
        <5>. QED
          BY <3>4, <3>6
      <4>. QED
        BY <4>1 DEF IsBoot
    <3>. QED
      BY <2>2, <3>7
  <2>. QED
    BY <2>3, <2>4
<1>2. len \in 0 .. len
  OBVIOUS
<1>. QED
  BY <1>1, <1>2

LEMMA BootFacts ==
  ASSUME ScatteredRemotes, NEW list \in Seq(Remotes \cup {This})
  PROVE  ProtoOK(Bootstrapped(list))
<1> DEFINE boot == CHOOSE boot : IsBoot(boot, list, Len(list))
           Bad == {i \in 0 .. Len(list) : ~ ProtoOK(boot[i])}
<1>0. Len(list) \in Nat /\ \A i \in 1 .. Len(list) : list[i] \in Remotes \cup {This}
  OBVIOUS
<1>1. Bootstrapped(list) = boot[Len(list)]
  BY DEF Bootstrapped, IsBoot
<1>2. IsBoot(boot, list, Len(list))
  BY <1>0, BootExists
<1> HIDE DEF boot
<1>3. \A i \in 0 .. Len(list) :
        boot[i] = IF i = 0 THEN Proto(0)
                  ELSE IF list[i] = This THEN boot[i - 1] ELSE bootstrap(boot[i - 1], list[i], This, 0)
  BY <1>2 DEF IsBoot
<1>4. ProtoOK(boot[0])
  <2>1. 0 \in 0 .. Len(list)
    BY <1>0
  <2>. QED
    BY <1>3, <2>1, FirstState
<1>5. ASSUME NEW i \in 1 .. Len(list), ProtoOK(boot[i - 1]) PROVE ProtoOK(boot[i])
  <2>1. i \in 0 .. Len(list) /\ i # 0 /\ list[i] \in Remotes \cup {This}
    BY <1>0
  <2>2. boot[i] = IF list[i] = This THEN boot[i - 1] ELSE bootstrap(boot[i - 1], list[i], This, 0)
    BY <1>3, <2>1
  <2>. QED
    BY <1>5, <2>1, <2>2, BootstrapFacts
<1>6. ASSUME Bad # {} PROVE FALSE
  <2>1. Bad \subseteq Nat
    OBVIOUS
  <2>2. PICK i \in Bad : \A y \in Bad : i <= y
    BY <1>6, <2>1, LeastNat
  <2>3. i \in 1 .. Len(list) /\ i - 1 \in 0 .. Len(list) /\ i - 1 \notin Bad
    BY <1>0, <1>4, <2>2
  <2>. QED
    BY <1>5, <2>2, <2>3
<1>7. Len(list) \in 0 .. Len(list)
  BY <1>0
<1>. QED
  BY <1>1, <1>6, <1>7

-----------------------------------------------------------------------------
(* The node.                                                               *)

IInv == ProtoOK(proto) /\ now \in Nat /\ \A id \in pinged : id[2] \in Remotes

LEMMA InitIInv ==
  ASSUME ScatteredRemotes, Init
  PROVE  IInv
<1>1. PICK k \in 0 .. MaxBoot : \E l \in [1 .. k -> Remotes \cup {This}] : proto = Bootstrapped(l)
  BY DEF Init
<1>1a. PICK list \in [1 .. k -> Remotes \cup {This}] : proto = Bootstrapped(list)
  BY <1>1
<1>2. list \in Seq(Remotes \cup {This})
  BY KademliaAssumption
<1>3. ProtoOK(proto)
  BY <1>1a, <1>2, BootFacts
<1>. QED
  BY <1>3 DEF Init, IInv

LEMMA HandledFacts ==
  ASSUME IInv, NEW p, Good(proto, p, now), Handled(p)
  PROVE  IInv' /\ Keeps(proto, proto', now)
<1>1. /\ proto' = [p EXCEPT !.out = {}] /\ pinged' = pinged \cup PingIds(p.out) /\ now' = now
  BY DEF Handled
<1>2. ProtoOK(p)
  BY DEF Good
<1>3. DOMAIN proto' = DOMAIN p /\ proto'.buckets = p.buckets /\ proto'.expected = p.expected /\ proto'.out = {}
  BY <1>1, <1>2 DEF ProtoOK
<1>4. ProtoOK(proto')
  BY <1>2, <1>3 DEF ProtoOK, OutOK
<1>5. \A id \in PingIds(p.out) : id[2] \in Remotes
  BY <1>2 DEF PingIds, ProtoOK, OutOK
<1>6. IInv'
  BY <1>1, <1>4, <1>5 DEF IInv
<1>7. Keeps(proto, proto', now)
  BY <1>3 DEF Good, Keeps, Overdue, Known
<1>. QED
  BY <1>6, <1>7

Silent == \A n \in Known(proto) \ Known(proto)' :
            \E id \in Overdue(proto, now) \ Overdue(proto', now) : id[2] = n

LEMMA NextIInv ==
  ASSUME ScatteredRemotes, IInv, Next
  PROVE  IInv' /\ Silent
<1>0. ProtoOK(proto) /\ now \in Nat
  BY DEF IInv
<1>1. ASSUME NEW p, Good(proto, p, now), Handled(p) PROVE IInv' /\ Silent
  BY <1>1, HandledFacts DEF Keeps, Silent, Known
<1>2. CASE RecvPing
  <2>1. PICK n \in Remotes : \E p \in recv_ping(proto, n, Echo(now), This, now) : Handled(p)
    BY <1>2 DEF RecvPing
  <2>2. PICK p \in recv_ping(proto, n, Echo(now), This, now) : Handled(p)
    BY <2>1
  <2>3. Good(proto, p, now)
    BY <1>0, RecvPingFacts
  <2>. QED
    BY <1>1, <2>2, <2>3
<1>3. CASE RecvPong
  <2>1. PICK id \in pinged : \E p \in recv_pong(proto, id[2], id[1], This, now) : Handled(p)
    BY <1>3 DEF RecvPong
  <2>2. PICK p \in recv_pong(proto, id[2], id[1], This, now) : Handled(p)
    BY <2>1
  <2>3. id[2] \in Remotes
    BY DEF IInv
  <2>4. Good(proto, p, now)
    BY <1>0, <2>2, <2>3, UpdateFacts DEF recv_pong
  <2>. QED
    BY <1>1, <2>2, <2>4
<1>4. CASE RecvFindNode
  <2>1. PICK n \in Remotes : \E p \in recv_find_node(proto, n, This, This, now) : Handled(p)
    BY <1>4 DEF RecvFindNode
  <2>2. PICK p \in recv_find_node(proto, n, This, This, now) : Handled(p)
    BY <2>1
  <2>3. Good(proto, p, now)
    BY <1>0, RecvFindNodeFacts
  <2>. QED
    BY <1>1, <2>2, <2>3
<1>5. CASE RecvNeighbours
  <2>1. PICK list \in kSubset(MaxList, Remotes \cup {This}) : Handled(recv_neighbours(proto, list, This, now))
    BY <1>5 DEF RecvNeighbours
  <2>2. list \subseteq Remotes \cup {This}
    BY DEF kSubset
  <2>3. Good(proto, recv_neighbours(proto, list, This, now), now)
    BY <1>0, <2>2, RecvNeighboursFacts
  <2>. QED
    BY <1>1, <2>1, <2>3
<1>6. CASE Tick
  BY <1>6 DEF Tick, IInv, Silent, Known
<1>. QED
  BY <1>2, <1>3, <1>4, <1>5, <1>6 DEF Next

LEMMA KademliaIInv ==
  ASSUME ScatteredRemotes
  PROVE  Spec => []IInv
<1>1. Init => IInv
  BY InitIInv
<1>2. IInv /\ [Next]_vars => IInv'
  <2>1. ASSUME IInv, UNCHANGED vars PROVE IInv'
    BY <2>1 DEF IInv, vars
  <2>. QED
    BY <2>1, NextIInv
<1>. QED
  BY <1>1, <1>2, PTL DEF Spec

\* After any bootstrap list and any mix of packets, answered and timed-out pings
\* the buckets of the routing table partition the id space, hold each node in
\* its range, once and at most k_bucket_size, never the node itself, and
\* bucket_by_node finds the bucket of every remote node: the assertion of
\* kademlia.py never fails for ids that are even.
THEOREM TableAlwaysSound ==
  ASSUME ScatteredRemotes
  PROVE  Spec => []TableSound
<1>1. IInv => TableSound
  BY SoundTables DEF IInv, ProtoOK, TableSound
<1>. QED
  BY <1>1, KademliaIInv, PTL

\* In every step the nodes that leave the table are those whose ping ran past its
\* deadline and was dropped in that step: no split, no refused sender, no
\* replacement and no answered check of update costs a node its place.
THEOREM OnlySilentEvicted ==
  ASSUME ScatteredRemotes
  PROVE  Spec => EvictsOnlySilent
<1>1. IInv /\ [Next]_vars => [Silent]_vars
  BY NextIInv
<1>2. [Silent]_vars
        <=> [\A n \in Known(proto) \ Known(proto)' :
               \E id \in Overdue(proto, now) \ Overdue(proto', now) : id[2] = n]_vars
  BY DEF Silent
<1>. QED
  BY <1>1, <1>2, KademliaIInv, PTL DEF Spec, EvictsOnlySilent
===============================================================================
