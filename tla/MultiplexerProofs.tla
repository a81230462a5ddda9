--------------------------- MODULE MultiplexerProofs ---------------------------
(***************************************************************************)
(* For any protocols, window and packets: no round of dequeuing comes back *)
(* empty-handed, packets of a queue arrive whole and in order, and the far *)
(* end never rejects the stream.                                           *)
(***************************************************************************)
EXTENDS Multiplexer, SequenceTheorems, FiniteSetTheorems, FunctionTheorems,
        WellFoundedInduction, TLAPS

-----------------------------------------------------------------------------
(* Numbers.                                                                *)

\* Every non-empty set of naturals has a least element.
LEMMA LeastNat ==
  ASSUME NEW T, T \subseteq Nat, T # {}
  PROVE  \E x \in T : \A y \in T : x <= y
<1>1. PICK x \in T : \A y \in T : ~ (<<y, x>> \in OpToRel(<, Nat))
  BY NatLessThanWellFounded, WFMin
<1>2. \A y \in T : ~ (y < x)
  BY <1>1 DEF OpToRel
<1>. QED
  BY <1>2

LEMMA DivMod ==
  ASSUME NEW a \in Nat, NEW b \in Nat \ {0}
  PROVE  a \div b \in Nat /\ a % b \in 0 .. b - 1 /\ a = b * (a \div b) + (a % b)
OBVIOUS

\* A product is the larger, the larger a factor.
LEMMA TimesGrows ==
  ASSUME NEW a \in Nat, NEW b \in Nat, NEW c \in Nat, a <= b
  PROVE  a * c \in Nat /\ b * c \in Nat /\ a * c <= b * c /\ c * a = a * c
OBVIOUS

LEMMA PadType == Pad \in Nat /\ Pad > 0 /\ MaxWindow \in Nat /\ MaxWindow > 0
BY MultiplexerAssumption

\* ceil16 rounds up to a multiple of the padding.
LEMMA CeilIs ==
  ASSUME NEW x \in Nat
  PROVE  /\ Ceil(x) \in Nat /\ x <= Ceil(x) /\ Ceil(x) < x + Pad
         /\ \A k \in Nat : x <= k * Pad => Ceil(x) <= k * Pad
<1> DEFINE y == x + Pad - 1
           q == y \div Pad
           r == y % Pad
<1>1. y \in Nat /\ Pad \in Nat /\ Pad > 0
  BY PadType
<1>2. q \in Nat /\ r \in 0 .. Pad - 1 /\ y = Pad * q + r
  <2> HIDE DEF y
  <2>. QED
    BY <1>1, DivMod
<1>3. Ceil(x) = q * Pad /\ y = x + Pad - 1
  BY DEF Ceil
<1> HIDE DEF y, q, r
<1>4. q * Pad \in Nat /\ Pad * q = q * Pad
  BY <1>1, <1>2, TimesGrows
<1>5. ASSUME NEW k \in Nat, x <= k * Pad PROVE q * Pad <= k * Pad
  <2>1. CASE q <= k
    BY <1>1, <1>2, <2>1, TimesGrows
  <2>2. CASE k + 1 <= q
    <3>1. (k + 1) * Pad <= q * Pad /\ (k + 1) * Pad = k * Pad + Pad /\ k * Pad \in Nat
      BY <1>1, <1>2, <2>2, TimesGrows
    <3>. QED
      BY <1>1, <1>2, <1>3, <1>4, <1>5, <3>1
  <2>. QED
    BY <1>2, <2>1, <2>2
<1>. QED
  BY <1>1, <1>2, <1>3, <1>4, <1>5

LEMMA CeilGrows ==
  ASSUME NEW x \in Nat, NEW y \in Nat, x <= y
  PROVE  Ceil(x) <= Ceil(y)
<1>1. PICK q \in Nat : q = (y + Pad - 1) \div Pad
  <2>1. y + Pad - 1 \in Nat /\ Pad \in Nat \ {0}
    BY PadType
  <2>. QED
    BY <2>1, DivMod
<1>2. Ceil(y) = q * Pad /\ y <= Ceil(y)
  BY <1>1, CeilIs DEF Ceil
<1>3. x <= q * Pad
  <2>1. q * Pad \in Nat
    BY <1>1, PadType
  <2>. QED
    BY <1>2, <2>1
<1>. QED
  BY <1>1, <1>2, <1>3, CeilIs

\* protocol_window_size: a multiple of the padding that shrinks with the number
\* of active protocols, and leaves room for a block when all are active.
LEMMA WindowIs ==
  ASSUME NEW n \in Nat \ {0}
  PROVE  /\ Window(n) \in Nat
         /\ \E k \in Nat : Window(n) = k * Pad
         /\ \A m \in Nat : n <= m => Window(m) <= Window(n)
         /\ n <= Len(Protocols) => Window(n) >= 4 * Pad
<1> DEFINE Q(i) == MaxWindow \div i
           K(i) == Q(i) \div Pad
<1>1. MaxWindow \in Nat /\ Pad \in Nat \ {0}
  BY PadType
<1>2. ASSUME NEW i \in Nat \ {0}
      PROVE  Q(i) \in Nat /\ i * Q(i) <= MaxWindow /\ MaxWindow < i * Q(i) + i /\ i * Q(i) \in Nat
  BY <1>1, DivMod, TimesGrows
<1>3. ASSUME NEW i \in Nat \ {0}
      PROVE  /\ K(i) \in Nat /\ Window(i) = K(i) * Pad /\ K(i) * Pad \in Nat
             /\ K(i) * Pad <= Q(i) /\ Q(i) < K(i) * Pad + Pad
  <2>1. Q(i) \in Nat
    BY <1>2
  <2>2. Window(i) = Q(i) - (Q(i) % Pad)
    BY DEF Window
  <2> HIDE DEF Q
  <2>3. K(i) \in Nat /\ Q(i) % Pad \in 0 .. Pad - 1 /\ Q(i) = Pad * K(i) + (Q(i) % Pad)
    BY <1>1, <2>1, DivMod
  <2> HIDE DEF K
  <2>4. Pad * K(i) = K(i) * Pad /\ K(i) * Pad \in Nat
    BY <1>1, <2>3, TimesGrows
  <2>5. PICK kp \in Nat : kp = K(i) * Pad
    BY <2>4
  <2>6. PICK r \in 0 .. Pad - 1 : r = Q(i) % Pad
    BY <2>3
  <2>7. PICK q \in Nat : q = Q(i)
    BY <2>1
  <2>8. q = kp + r /\ Window(i) = q - r
    BY <2>2, <2>3, <2>4, <2>5, <2>6, <2>7
  <2>9. q - r = kp /\ kp <= q /\ q < kp + Pad
    BY <1>1, <2>8
  <2>. QED
    BY <2>3, <2>5, <2>7, <2>8, <2>9
<1> HIDE DEF K
<1>4. ASSUME NEW m \in Nat, n <= m PROVE Q(m) <= Q(n)
  <2>1. m \in Nat \ {0}
    BY <1>4
  <2>2. Q(m) \in Nat /\ Q(n) \in Nat /\ m * Q(m) <= MaxWindow /\ MaxWindow < n * Q(n) + n
    BY <1>2, <2>1
  <2>3. PICK u \in Nat : u = Q(n)
    BY <2>2
  <2>4. PICK v \in Nat : v = Q(m)
    BY <2>2
  <2>5. m * v <= MaxWindow /\ MaxWindow < n * u + n /\ n * u \in Nat /\ m * v \in Nat
    BY <2>1, <2>2, <2>3, <2>4
  <2>6. CASE u + 1 <= v
    <3>1. n * v <= m * v /\ n * v \in Nat
      BY <1>4, <2>1, TimesGrows
    <3>2. (u + 1) * n <= v * n /\ v * n = n * v
      BY <2>6, TimesGrows
    <3>3. (u + 1) * n = n * u + n
      OBVIOUS
    <3>. QED
      BY <1>1, <2>5, <3>1, <3>2, <3>3
  <2>. QED
    BY <2>3, <2>4, <2>6
<1>5. ASSUME NEW m \in Nat, n <= m PROVE Window(m) <= Window(n)
  <2>1. m \in Nat \ {0}
    BY <1>5
  <2>2. /\ K(m) \in Nat /\ K(n) \in Nat /\ Q(m) <= Q(n) /\ Q(m) \in Nat /\ Q(n) \in Nat
        /\ K(m) * Pad <= Q(m) /\ Q(n) < K(n) * Pad + Pad
        /\ Window(m) = K(m) * Pad /\ Window(n) = K(n) * Pad
    BY <1>2, <1>3, <1>4, <1>5, <2>1
  <2> HIDE DEF Q
  <2>3. CASE K(n) + 1 <= K(m)
    <3>1. (K(n) + 1) * Pad <= K(m) * Pad /\ (K(n) + 1) * Pad = K(n) * Pad + Pad
      BY <1>1, <2>2, <2>3, TimesGrows
    <3>. QED
      BY <1>1, <2>2, <3>1
  <2>4. CASE K(m) <= K(n)
    BY <1>1, <2>2, <2>4, TimesGrows
  <2>. QED
    BY <2>2, <2>3, <2>4
<1>6. ASSUME n <= Len(Protocols) PROVE Window(n) >= 4 * Pad
  <2>1. Len(Protocols) \in Nat
    BY MultiplexerAssumption
  <2>2. PICK l \in Nat \ {0} : l = Len(Protocols)
    BY <1>6, <2>1
  <2>3. Q(l) >= 4 * Pad
    BY <2>2, MultiplexerAssumption
  <2>4. K(l) \in Nat /\ Window(l) = K(l) * Pad /\ Q(l) \in Nat /\ Q(l) < K(l) * Pad + Pad
    BY <1>2, <1>3
  <2> HIDE DEF Q
  <2>5. CASE K(l) <= 3
    <3>1. K(l) * Pad <= 3 * Pad
      BY <1>1, <2>4, <2>5, TimesGrows
    <3>. QED
      BY <1>1, <2>3, <2>4, <3>1
  <2>6. CASE 4 <= K(l)
    <3>1. 4 * Pad <= K(l) * Pad
      BY <1>1, <2>4, <2>6, TimesGrows
    <3>2. Window(l) <= Window(n) /\ Window(n) = K(n) * Pad /\ K(n) * Pad \in Nat
      BY <1>3, <1>5, <1>6, <2>2
    <3>. QED
      BY <1>1, <2>4, <3>1, <3>2
  <2>. QED
    BY <2>4, <2>5, <2>6
<1>. QED
  BY <1>3, <1>5, <1>6

\* f is defined by recursion: its value at 0, and at i from the one before.
IsRecursive(f, D, a, n, g) ==
  f \in [0 .. n -> D] /\ f[0] = a /\ \A i \in 1 .. n : f[i] = g[<<i, f[i - 1]>>]

LEMMA Recursion ==
  ASSUME NEW D, NEW a \in D, NEW n \in Nat, NEW g \in [(1 .. n) \X D -> D]
  PROVE  \E f : IsRecursive(f, D, a, n, g)
<1> DEFINE Is(f, k) == f \in [0 .. k -> D] /\ f[0] = a /\ \A i \in 1 .. k : f[i] = g[<<i, f[i - 1]>>]
           T == {k \in 0 .. n : ~ \E f : Is(f, k)}
<1>1. T = {}
  <2> SUFFICES ASSUME T # {} PROVE FALSE
    OBVIOUS
  <2>1. T \subseteq Nat
    OBVIOUS
  <2>2. PICK k \in T : \A y \in T : k <= y
    BY <2>1, LeastNat
  <2>3. CASE k = 0
    <3>1. Is([i \in 0 .. 0 |-> a], 0)
      OBVIOUS
    <3>. QED
      BY <2>2, <2>3, <3>1
  <2>4. CASE k # 0
    <3>1. k \in 1 .. n /\ k - 1 \in 0 .. n /\ k - 1 \in 0 .. k - 1 /\ k - 1 \notin T
      <4>1. k \in 0 .. n
        OBVIOUS
      <4> HIDE DEF T
      <4>. QED
        BY <2>2, <2>4, <4>1
    <3>2. PICK f : Is(f, k - 1)
      BY <3>1
    <3> DEFINE h == [i \in 0 .. k |-> IF i = k THEN g[<<k, f[k - 1]>>] ELSE f[i]]
    <3>3. f[k - 1] \in D /\ g[<<k, f[k - 1]>>] \in D
      <4>1. f[k - 1] \in D
        BY <3>1, <3>2
      <4>2. <<k, f[k - 1]>> \in (1 .. n) \X D
        BY <3>1, <4>1
      <4>. QED
        BY <4>1, <4>2
    <3>4. \A i \in 0 .. k - 1 : h[i] = f[i] /\ f[i] \in D
      BY <3>1, <3>2
    <3>5. h[k] = g[<<k, f[k - 1]>>]
      BY <3>1
    <3>6. h \in [0 .. k -> D]
      <4>1. \A i \in 0 .. k : i = k \/ i \in 0 .. k - 1
        BY <3>1
      <4>2. \A i \in 0 .. k : h[i] \in D
        BY <3>3, <3>4, <3>5, <4>1
      <4>. QED
        BY <4>2
    <3>7. h[0] = a
      BY <3>1, <3>2, <3>4
    <3>8. ASSUME NEW i \in 1 .. k PROVE h[i] = g[<<i, h[i - 1]>>]
      <4>1. CASE i = k
        BY <3>1, <3>4, <3>5, <4>1
      <4>2. CASE i # k
        <5>1. i \in 1 .. k - 1 /\ i \in 0 .. k - 1 /\ i - 1 \in 0 .. k - 1
          BY <3>1, <4>2
        <5>2. f[i] = g[<<i, f[i - 1]>>]
          BY <3>2, <5>1
        <5> HIDE DEF h
        <5>. QED
          BY <3>4, <5>1, <5>2
      <4>. QED
        BY <4>1, <4>2
    <3> HIDE DEF h
    <3>9. Is(h, k)
      BY <3>6, <3>7, <3>8
    <3>. QED
      BY <2>2, <3>9
  <2>. QED
    BY <2>3, <2>4
<1>2. \E f : Is(f, n)
  BY <1>1
<1>. QED
  BY <1>2 DEF IsRecursive

-----------------------------------------------------------------------------
(* Framing.                                                                *)

FrameSet == [proto : Ids, sid : Nat, packet : Nat, kind : {"normal", "chunked_0", "chunked_n"},
             total : Nat, data : Seq(Nat \X Nat)]

Fitting(window) == {f \in FrameSet : frame_size(f) <= window}

LEMMA FrameSizes == \A f \in FrameSet : frame_size(f) \in Nat /\ frame_size(f) >= 3 * Pad
<1>1. ASSUME NEW f \in FrameSet PROVE frame_size(f) \in Nat /\ frame_size(f) >= 3 * Pad
  <2>1. Len(f.data) \in Nat
    BY DEF FrameSet
  <2>2. body_size(f) \in Nat
    <3>1. PICK n \in Nat : n = Len(f.data)
      BY <2>1
    <3>2. body_size(f) = IF f.kind = "chunked_n" THEN n + 0 ELSE n + 1
      BY <3>1 DEF body_size, CmdLen
    <3>. QED
      BY <3>1, <3>2
  <2>3. Ceil(body_size(f)) \in Nat
    BY <2>2, CeilIs
  <2>4. frame_size(f) = 3 * Pad + Ceil(body_size(f))
    BY DEF frame_size
  <2>. QED
    BY <2>3, <2>4, PadType
<1>. QED
  BY <1>1

\* Frame.__init__ leaves less over than it was given, and the part it keeps fits.
LEMMA RemainIs ==
  ASSUME NEW r \in Nat, NEW c \in {0, 1}, NEW window \in Nat,
         NEW k \in Nat, window = k * Pad, window >= 4 * Pad
  PROVE  /\ Remain(r, c, window) \in Nat /\ Remain(r, c, window) <= r
         /\ c = 0 => Remain(r, c, window) = 0 \/ Remain(r, c, window) < r
         /\ 3 * Pad + Ceil((r - Remain(r, c, window)) + c) <= window
<1>1. Pad \in Nat /\ Pad > 0
  BY PadType
<1>2. PICK y \in Nat : y = Ceil(r + c)
  BY CeilIs
<1>3. r + c \in Nat /\ r + c <= y /\ y < r + c + Pad
  BY <1>2, CeilIs
<1>4. PICK t : t = Remain(r, c, window)
  OBVIOUS
<1>5. t = IF 3 * Pad + y <= window THEN 0 ELSE (3 * Pad + y) - window
  BY <1>2, <1>4 DEF Remain
<1>6. CASE 3 * Pad + y <= window
  <2>1. t = 0 /\ (r - t) + c = r + c
    BY <1>5, <1>6
  <2>. QED
    BY <1>2, <1>4, <1>6, <2>1
<1>7. CASE ~ (3 * Pad + y <= window)
  <2>1. t = (3 * Pad + y) - window /\ t \in Nat /\ t > 0
    BY <1>1, <1>5, <1>7
  <2>2. PICK x : x = (r - t) + c
    OBVIOUS
  <2>3. x \in Nat /\ x >= 1 /\ x <= window - 3 * Pad
    BY <1>1, <1>3, <2>1, <2>2
  <2>4. k >= 4
    <3>1. k <= 3 => k * Pad <= 3 * Pad
      BY <1>1, TimesGrows
    <3>. QED
      BY <1>1, <3>1
  <2>5. k - 3 \in Nat /\ (k - 3) * Pad = window - 3 * Pad
    <3>1. PICK j \in Nat : k = j + 3
      <4>1. k - 3 \in Nat /\ k = (k - 3) + 3
        BY <2>4
      <4>. QED
        BY <4>1
    <3>2. (j + 3) * Pad = j * Pad + 3 * Pad /\ j * Pad \in Nat
      BY <1>1
    <3>3. k - 3 = j
      BY <3>1
    <3>. QED
      BY <1>1, <3>1, <3>2, <3>3
  <2>6. Ceil(x) <= window - 3 * Pad /\ Ceil(x) \in Nat
    BY <2>3, <2>5, CeilIs
  <2>7. 3 * Pad + Ceil(x) <= window
    BY <1>1, <2>6
  <2>8. t <= r /\ (c = 0 => t < r)
    BY <2>1, <2>2, <2>3
  <2>. QED
    BY <1>4, <2>1, <2>2, <2>7, <2>8
<1>. QED
  BY <1>6, <1>7

\* What is left of L units after each frame: less and less, until nothing is.
IsRest(rest, L, window) ==
  rest = [i \in 0 .. L + 1 |->
            IF i = 0 THEN L ELSE Remain(rest[i - 1], IF i = 1 THEN CmdLen ELSE 0, window)]

LEMMA RestExists ==
  ASSUME NEW L \in Nat, NEW window \in Nat, NEW k \in Nat, window = k * Pad, window >= 4 * Pad
  PROVE  \E rest : IsRest(rest, L, window)
<1> DEFINE step(i, r) == Remain(r, IF i = 1 THEN CmdLen ELSE 0, window)
           g == [x \in (1 .. L + 1) \X Nat |-> step(x[1], x[2])]
<1>1. \A i \in 1 .. L + 1 : \A r \in Nat : step(i, r) \in Nat
  BY RemainIs DEF CmdLen
<1>2. \A x \in (1 .. L + 1) \X Nat : x[1] \in 1 .. L + 1 /\ x[2] \in Nat
  OBVIOUS
<1> HIDE DEF step
<1>3. g \in [(1 .. L + 1) \X Nat -> Nat]
  BY <1>1, <1>2
<1>4. \A i \in 1 .. L + 1 : \A r \in Nat : g[<<i, r>>] = step(i, r)
  OBVIOUS
<1> HIDE DEF g
<1>5. PICK f : IsRecursive(f, Nat, L, L + 1, g)
  <2>1. L + 1 \in Nat
    OBVIOUS
  <2>. QED
    BY <1>3, <2>1, Recursion
<1>6. ASSUME NEW i \in 0 .. L + 1
      PROVE  f[i] = IF i = 0 THEN L ELSE step(i, f[i - 1])
  <2>1. CASE i = 0
    BY <1>5, <2>1 DEF IsRecursive
  <2>2. CASE i # 0
    <3>1. i \in 1 .. L + 1 /\ i - 1 \in 0 .. L + 1
      BY <2>2
    <3>2. f[i - 1] \in Nat
      BY <1>5, <3>1 DEF IsRecursive
    <3>. QED
      BY <1>4, <1>5, <2>2, <3>1, <3>2 DEF IsRecursive
  <2>. QED
    BY <2>1, <2>2
<1>7. f = [i \in 0 .. L + 1 |-> f[i]]
  BY <1>5 DEF IsRecursive
<1>8. f = [i \in 0 .. L + 1 |-> IF i = 0 THEN L ELSE step(i, f[i - 1])]
  BY <1>6, <1>7
<1>. QED
  BY <1>8 DEF IsRest, step

LEMMA RestIs ==
  ASSUME NEW L \in Nat, NEW window \in Nat, NEW k \in Nat, window = k * Pad, window >= 4 * Pad,
         NEW rest, IsRest(rest, L, window)
  PROVE  /\ rest[0] = L /\ \A i \in 0 .. L + 1 : rest[i] \in 0 .. L
         /\ \A i \in 1 .. L + 1 :
              /\ rest[i] <= rest[i - 1]
              /\ i # 1 => rest[i] = 0 \/ rest[i] < rest[i - 1]
              /\ 3 * Pad + Ceil((rest[i - 1] - rest[i]) + (IF i = 1 THEN CmdLen ELSE 0)) <= window
         /\ rest[L + 1] = 0
<1>1. rest[0] = L
  BY DEF IsRest
<1>2. \A i \in 1 .. L + 1 : rest[i] = Remain(rest[i - 1], IF i = 1 THEN CmdLen ELSE 0, window)
  BY DEF IsRest
<1>3. ASSUME NEW i \in 1 .. L + 1, rest[i - 1] \in Nat
      PROVE  /\ rest[i] \in Nat /\ rest[i] <= rest[i - 1]
             /\ i # 1 => rest[i] = 0 \/ rest[i] < rest[i - 1]
             /\ 3 * Pad + Ceil((rest[i - 1] - rest[i]) + (IF i = 1 THEN CmdLen ELSE 0)) <= window
  <2>1. PICK c \in {0, 1} : c = IF i = 1 THEN CmdLen ELSE 0
    BY DEF CmdLen
  <2>2. PICK r \in Nat : r = rest[i - 1]
    BY <1>3
  <2>3. rest[i] = Remain(r, c, window)
    BY <1>2, <2>1, <2>2
  <2>4. /\ Remain(r, c, window) \in Nat /\ Remain(r, c, window) <= r
        /\ c = 0 => Remain(r, c, window) = 0 \/ Remain(r, c, window) < r
        /\ 3 * Pad + Ceil((r - Remain(r, c, window)) + c) <= window
    BY RemainIs
  <2>. QED
    BY <2>1, <2>2, <2>3, <2>4
<1>4. \A i \in 0 .. L + 1 : rest[i] \in 0 .. L
  <2> DEFINE T == {i \in 0 .. L + 1 : rest[i] \notin 0 .. L}
  <2> SUFFICES ASSUME T # {} PROVE FALSE
    OBVIOUS
  <2>1. T \subseteq Nat
    OBVIOUS
  <2>2. PICK i \in T : \A y \in T : i <= y
    BY <2>1, LeastNat
  <2>3. i \in 0 .. L + 1 /\ rest[i] \notin 0 .. L /\ i # 0
    BY <1>1, <2>2
  <2>4. i \in 1 .. L + 1 /\ i - 1 \in 0 .. L + 1
    BY <2>3
  <2>5. i - 1 \notin T
    <3> HIDE DEF T
    <3>. QED
      BY <2>2, <2>4
  <2>6. rest[i - 1] \in 0 .. L
    BY <2>4, <2>5
  <2>7. rest[i] \in Nat /\ rest[i] <= rest[i - 1]
    BY <1>3, <2>4, <2>6
  <2>. QED
    BY <2>3, <2>6, <2>7
<1>5. ASSUME NEW i \in 1 .. L + 1
      PROVE  /\ rest[i] <= rest[i - 1]
             /\ i # 1 => rest[i] = 0 \/ rest[i] < rest[i - 1]
             /\ 3 * Pad + Ceil((rest[i - 1] - rest[i]) + (IF i = 1 THEN CmdLen ELSE 0)) <= window
  <2>1. i - 1 \in 0 .. L + 1
    OBVIOUS
  <2>2. rest[i - 1] \in Nat
    BY <1>4, <2>1
  <2>. QED
    BY <1>3, <2>2
<1>6. \A i \in 1 .. L + 1 : rest[i] = 0 \/ rest[i] <= L - (i - 1)
  <2> DEFINE T == {i \in 1 .. L + 1 : ~ (rest[i] = 0 \/ rest[i] <= L - (i - 1))}
  <2> SUFFICES ASSUME T # {} PROVE FALSE
    OBVIOUS
  <2>1. T \subseteq Nat
    OBVIOUS
  <2>2. PICK i \in T : \A y \in T : i <= y
    BY <2>1, LeastNat
  <2>3. i \in 1 .. L + 1 /\ rest[i] # 0 /\ ~ (rest[i] <= L - (i - 1)) /\ rest[i] \in 0 .. L
    BY <1>4, <2>2
  <2>4. i # 1
    BY <2>3
  <2>5. i - 1 \in 1 .. L + 1 /\ i - 1 \in 0 .. L + 1
    BY <2>3, <2>4
  <2>6. i - 1 \notin T
    <3>1. i \in Nat
      BY <2>1, <2>2
    <3> HIDE DEF T
    <3>. QED
      BY <2>2, <3>1
  <2>7. rest[i - 1] \in 0 .. L /\ (rest[i - 1] = 0 \/ rest[i - 1] <= L - ((i - 1) - 1))
    BY <1>4, <2>5, <2>6
  <2>8. rest[i] < rest[i - 1]
    BY <1>5, <2>3, <2>4
  <2>. QED
    BY <2>3, <2>7, <2>8
<1>7. rest[L + 1] = 0
  <2>1. L + 1 \in 1 .. L + 1 /\ L + 1 \in 0 .. L + 1
    OBVIOUS
  <2>2. rest[L + 1] \in 0 .. L /\ (rest[L + 1] = 0 \/ rest[L + 1] <= L - ((L + 1) - 1))
    BY <1>4, <1>6, <2>1
  <2>. QED
    BY <2>2
<1>. QED
  BY <1>1, <1>4, <1>5, <1>7

\* Every frame of a packet fits the window it was cut for, and any window that
\* has room for the whole packet.
LEMMA FramesFit ==
  ASSUME NEW packet, packet.payload \in Seq(Nat \X Nat), packet.proto \in Ids, packet.id \in Nat,
         NEW sid \in Nat, NEW window \in Nat, NEW k \in Nat, window = k * Pad, window >= 4 * Pad
  PROVE  /\ Frames(packet, sid, window) \in Seq(Fitting(window))
         /\ \A w \in Nat : 3 * Pad + Ceil(Len(packet.payload) + CmdLen) <= w
                             => Frames(packet, sid, window) \in Seq(Fitting(w))
<1> DEFINE L == Len(packet.payload)
           rest == CHOOSE rest : IsRest(rest, L, window)
           count == Min({i \in 1 .. L + 1 : rest[i] = 0})
           frame(i) == [proto |-> packet.proto, sid |-> sid, packet |-> packet.id,
                        kind |-> IF count = 1 THEN "normal" ELSE IF i = 1 THEN "chunked_0" ELSE "chunked_n",
                        total |-> L + CmdLen,
                        data |-> SubSeq(packet.payload, L - rest[i - 1] + 1, L - rest[i])]
<1>1. L \in Nat
  OBVIOUS
<1>2. Frames(packet, sid, window) = [i \in 1 .. count |-> frame(i)]
  BY DEF Frames, IsRest
<1>3. IsRest(rest, L, window)
  BY <1>1, RestExists
<1> HIDE DEF rest
<1>4. /\ rest[0] = L /\ \A i \in 0 .. L + 1 : rest[i] \in 0 .. L
      /\ \A i \in 1 .. L + 1 :
           /\ rest[i] <= rest[i - 1]
           /\ 3 * Pad + Ceil((rest[i - 1] - rest[i]) + (IF i = 1 THEN CmdLen ELSE 0)) <= window
      /\ rest[L + 1] = 0
  <2> HIDE DEF L
  <2>. QED
    BY <1>1, <1>3, RestIs
<1>5. count \in 1 .. L + 1
  <2> DEFINE S == {i \in 1 .. L + 1 : rest[i] = 0}
  <2>1. L + 1 \in S /\ S \subseteq Nat
    BY <1>1, <1>4
  <2>2. \E x \in S : \A y \in S : x <= y
    BY <2>1, LeastNat
  <2>3. Min(S) \in S
    BY <2>2 DEF Min
  <2>. QED
    BY <2>3
<1> HIDE DEF count
<1>6. ASSUME NEW i \in 1 .. count
      PROVE  /\ frame(i) \in Fitting(window)
             /\ frame_size(frame(i)) <= 3 * Pad + Ceil(L + CmdLen) /\ frame(i) \in FrameSet
  <2>1. i \in 1 .. L + 1 /\ i - 1 \in 0 .. L + 1 /\ i \in 0 .. L + 1
    BY <1>1, <1>5
  <2>2. PICK a \in 0 .. L : a = rest[i - 1]
    BY <1>4, <2>1
  <2>3. PICK b \in 0 .. L : b = rest[i]
    BY <1>4, <2>1
  <2>4. b <= a /\ 3 * Pad + Ceil((a - b) + (IF i = 1 THEN CmdLen ELSE 0)) <= window
    BY <1>4, <2>1, <2>2, <2>3
  <2>5. PICK d : d = SubSeq(packet.payload, L - a + 1, L - b)
    OBVIOUS
  <2>6. d \in Seq(Nat \X Nat) /\ Len(d) = a - b
    <3>1. L - a + 1 \in 1 .. L + 1 /\ L - b \in 0 .. L /\ L - a + 1 <= L - b + 1
      BY <1>1, <2>4
    <3>2. \A j \in L - a + 1 .. L - b : j \in 1 .. L
      BY <1>1, <3>1
    <3>3. \A j \in 1 .. L : packet.payload[j] \in Nat \X Nat
      BY ElementOfSeq
    <3>4. /\ d \in Seq(Nat \X Nat)
          /\ Len(d) = IF L - a + 1 <= L - b THEN (L - b) - (L - a + 1) + 1 ELSE 0
      BY <2>5, <3>1, <3>2, <3>3, SubSeqProperties
    <3>. QED
      BY <1>1, <2>4, <3>4
  <2>7. PICK kind \in {"normal", "chunked_0", "chunked_n"} :
          /\ kind = IF count = 1 THEN "normal" ELSE IF i = 1 THEN "chunked_0" ELSE "chunked_n"
          /\ kind = "chunked_n" <=> i # 1
    BY <1>5
  <2>8. PICK f : f = [proto |-> packet.proto, sid |-> sid, packet |-> packet.id, kind |-> kind,
                      total |-> L + CmdLen, data |-> d]
    OBVIOUS
  <2>9. f = frame(i)
    BY <2>2, <2>3, <2>5, <2>7, <2>8
  <2>10. f \in FrameSet
    <3>1. L + CmdLen \in Nat
      BY <1>1 DEF CmdLen
    <3>. QED
      BY <2>6, <2>8, <3>1 DEF FrameSet
  <2>11. body_size(f) = (a - b) + (IF i = 1 THEN CmdLen ELSE 0)
    <3>1. f.data = d /\ f.kind = kind
      BY <2>8
    <3>2. body_size(f) = (a - b) + (IF kind = "chunked_n" THEN 0 ELSE CmdLen)
      BY <2>6, <3>1 DEF body_size
    <3>. QED
      BY <2>7, <3>2
  <2>12. frame_size(f) <= window
    BY <2>4, <2>11 DEF frame_size
  <2>13. frame_size(f) <= 3 * Pad + Ceil(L + CmdLen)
    <3>1. PICK x \in Nat : x = body_size(f)
      BY <1>1, <2>4, <2>11 DEF CmdLen
    <3>2. x <= L + CmdLen /\ L + CmdLen \in Nat
      BY <1>1, <2>4, <2>11, <3>1 DEF CmdLen
    <3>3. Ceil(x) <= Ceil(L + CmdLen)
      BY <3>2, CeilGrows
    <3>4. Ceil(x) \in Nat /\ Ceil(L + CmdLen) \in Nat
      BY <3>2, CeilIs
    <3>. QED
      BY <3>1, <3>3, <3>4, PadType DEF frame_size
  <2>. QED
    BY <2>9, <2>10, <2>12, <2>13 DEF Fitting
<1>7. count \in Nat
  BY <1>1, <1>5
<1> HIDE DEF frame
<1>8. \A w \in Nat : 3 * Pad + Ceil(L + CmdLen) <= w => \A i \in 1 .. count : frame(i) \in Fitting(w)
  <2>1. 3 * Pad + Ceil(L + CmdLen) \in Nat
    <3>1. L + CmdLen \in Nat
      BY <1>1 DEF CmdLen
    <3>2. Ceil(L + CmdLen) \in Nat
      BY <3>1, CeilIs
    <3>. QED
      BY <3>2, PadType
  <2>2. \A i \in 1 .. count : frame_size(frame(i)) \in Nat
    BY <1>6, FrameSizes
  <2>. QED
    BY <1>6, <2>1, <2>2 DEF Fitting
<1> HIDE DEF frame
<1>9. [i \in 1 .. count |-> frame(i)] \in Seq(Fitting(window))
  BY <1>6, <1>7
<1>10. \A w \in Nat : 3 * Pad + Ceil(L + CmdLen) <= w
                        => [i \in 1 .. count |-> frame(i)] \in Seq(Fitting(w))
  BY <1>7, <1>8
<1>. QED
  BY <1>2, <1>9, <1>10

-----------------------------------------------------------------------------
(* Dequeuing.                                                              *)

\* A pass under way, over frames of S.
PassStates(S) == [queues : [QueueNames -> Seq(S)], frames : Seq(S), size : Nat, taken : Nat]

\* A frame is taken from the head of a queue, or nothing changes; a frame that
\* fits is taken when there is nothing else in the window.
LEMMA TakeFrameIs ==
  ASSUME NEW S \in SUBSET FrameSet, NEW st \in PassStates(S), NEW q \in QueueNames, NEW window \in Nat
  PROVE  /\ TakeFrame(st, q, window) \in PassStates(S)
         /\ TakeFrame(st, q, window) = st \/ TakeFrame(st, q, window).frames # <<>>
         /\ st.queues[q] # <<>> /\ st.size = 0 /\ st.taken = 0
            /\ st.queues[q] \in Seq(Fitting(window))
              => TakeFrame(st, q, window).frames # <<>>
<1>1. PICK Q \in [QueueNames -> Seq(S)] : Q = st.queues
  BY DEF PassStates
<1>2. PICK s \in Seq(S) : s = Q[q]
  OBVIOUS
<1>3. PICK fr \in Seq(S) : fr = st.frames
  BY DEF PassStates
<1>4. st.size \in Nat /\ st.taken \in Nat
  BY DEF PassStates
<1>5. CASE st.taken < 2 /\ s # <<>> /\ st.size + frame_size(Head(s)) <= window
  <2>1. Head(s) \in S /\ Tail(s) \in Seq(S)
    BY <1>5, HeadTailProperties
  <2>2. frame_size(Head(s)) \in Nat
    BY <2>1, FrameSizes
  <2>3. PICK h \in Seq(S) : h = Append(fr, Head(s)) /\ h # <<>>
    BY <2>1, AppendProperties
  <2>4. PICK Q2 \in [QueueNames -> Seq(S)] : Q2 = [Q EXCEPT ![q] = Tail(s)]
    BY <2>1
  <2>5. Q2 = [st.queues EXCEPT ![q] = Tail(@)]
    BY <1>1, <1>2, <2>4
  <2>6. PICK n \in Nat : n = st.size + frame_size(Head(s))
    BY <1>4, <2>2
  <2>7. TakeFrame(st, q, window) = [queues |-> Q2, frames |-> h, size |-> n, taken |-> st.taken + 1]
    BY <1>1, <1>2, <1>3, <1>5, <2>3, <2>5, <2>6 DEF TakeFrame
  <2>8. st.taken + 1 \in Nat
    BY <1>4
  <2>. QED
    BY <2>3, <2>7, <2>8 DEF PassStates
<1>6. CASE ~ (st.taken < 2 /\ s # <<>> /\ st.size + frame_size(Head(s)) <= window)
  <2>1. TakeFrame(st, q, window) = st
    BY <1>1, <1>2, <1>6 DEF TakeFrame
  <2>2. ASSUME s # <<>>, st.size = 0, st.taken = 0, s \in Seq(Fitting(window)) PROVE FALSE
    <3>1. Head(s) \in Fitting(window)
      BY <2>2, HeadTailProperties
    <3>2. frame_size(Head(s)) <= window /\ Head(s) \in FrameSet
      BY <3>1 DEF Fitting
    <3>3. frame_size(Head(s)) \in Nat
      BY <3>2, FrameSizes
    <3>. QED
      BY <1>6, <2>2, <3>2, <3>3
  <2>. QED
    BY <1>1, <1>2, <2>1, <2>2
<1>. QED
  BY <1>5, <1>6

LEMMA PassIs ==
  ASSUME NEW S \in SUBSET FrameSet, NEW st \in PassStates(S), NEW window \in Nat
  PROVE  /\ Pass(st, window) \in PassStates(S)
         /\ st.frames # <<>> => Pass(st, window).frames # <<>>
         /\ (/\ st.size = 0 /\ \A q \in QueueNames : st.queues[q] \in Seq(Fitting(window))
             /\ \E q \in QueueNames : st.queues[q] # <<>>)
              => Pass(st, window).frames # <<>>
<1>1. PICK s0 \in PassStates(S) : s0 = [st EXCEPT !.taken = 0]
  BY DEF PassStates
<1>2. s0.frames = st.frames /\ s0.queues = st.queues /\ s0.size = st.size /\ s0.taken = 0
  BY <1>1 DEF PassStates
<1>3. "priority" \in QueueNames /\ "normal" \in QueueNames /\ "chunked" \in QueueNames
  BY DEF QueueNames
<1>4. PICK s1 \in PassStates(S) : s1 = TakeFrame(s0, "priority", window)
  BY <1>3, TakeFrameIs
<1>5. PICK s2 \in PassStates(S) : s2 = TakeFrame(s1, "normal", window)
  BY <1>3, TakeFrameIs
<1>6. PICK s3 \in PassStates(S) : s3 = TakeFrame(s2, "chunked", window)
  BY <1>3, TakeFrameIs
<1>7. Pass(st, window) = s3
  BY <1>1, <1>4, <1>5, <1>6 DEF Pass
<1>8. /\ s1 = s0 \/ s1.frames # <<>>
      /\ s2 = s1 \/ s2.frames # <<>>
      /\ s3 = s2 \/ s3.frames # <<>>
  BY <1>3, <1>4, <1>5, <1>6, TakeFrameIs
<1>9. ASSUME st.size = 0, \A q \in QueueNames : st.queues[q] \in Seq(Fitting(window)),
             NEW q \in QueueNames, st.queues[q] # <<>>
      PROVE  s3.frames # <<>>
  <2>1. s0.queues[q] \in Seq(Fitting(window)) /\ s0.queues[q] # <<>> /\ s0.size = 0 /\ s0.taken = 0
    BY <1>2, <1>9
  <2>2. CASE q = "priority"
    BY <1>3, <1>4, <1>8, <2>1, <2>2, TakeFrameIs
  <2>3. CASE q = "normal"
    <3>1. s1 = s0 => s2.frames # <<>>
      BY <1>3, <1>5, <2>1, <2>3, TakeFrameIs
    <3>. QED
      BY <1>8, <3>1
  <2>4. CASE q = "chunked"
    <3>1. s2 = s0 => s3.frames # <<>>
      BY <1>3, <1>6, <2>1, <2>4, TakeFrameIs
    <3>. QED
      BY <1>8, <3>1
  <2>. QED
    BY <2>2, <2>3, <2>4 DEF QueueNames
<1>. QED
  BY <1>2, <1>7, <1>8, <1>9

\* The passes of pop_frames_for_protocol, each from what the last one left.
IsPopping(loop, start, window) ==
  loop = [k \in 0 .. MaxWindow |->
            IF k = 0 THEN Pass(start, window)
            ELSE LET st == loop[k - 1]
                 IN  IF st.taken = 0 \/ st.size >= window THEN st ELSE Pass(st, window)]

LEMMA PoppingExists ==
  ASSUME NEW S \in SUBSET FrameSet, NEW start \in PassStates(S), NEW window \in Nat
  PROVE  \E loop : IsPopping(loop, start, window)
<1> DEFINE step(st) == IF st.taken = 0 \/ st.size >= window THEN st ELSE Pass(st, window)
           D == PassStates(S)
           g == [x \in (1 .. MaxWindow) \X D |-> step(x[2])]
<1>1. \A st \in D : step(st) \in D
  BY PassIs
<1>2. Pass(start, window) \in D /\ MaxWindow \in Nat
  BY PassIs, PadType
<1> HIDE DEF step, D
<1>3. \A x \in (1 .. MaxWindow) \X D : x[2] \in D
  OBVIOUS
<1>4. g \in [(1 .. MaxWindow) \X D -> D]
  BY <1>1, <1>3
<1>5. \A i \in 1 .. MaxWindow : \A st \in D : g[<<i, st>>] = step(st)
  OBVIOUS
<1> HIDE DEF g
<1>6. PICK f : IsRecursive(f, D, Pass(start, window), MaxWindow, g)
  BY <1>2, <1>4, Recursion
<1>7. ASSUME NEW k \in 0 .. MaxWindow
      PROVE  f[k] = IF k = 0 THEN Pass(start, window) ELSE step(f[k - 1])
  <2>1. CASE k = 0
    BY <1>6, <2>1 DEF IsRecursive
  <2>2. CASE k # 0
    <3>1. k \in 1 .. MaxWindow /\ k - 1 \in 0 .. MaxWindow
      BY <1>2, <2>2
    <3>2. f[k - 1] \in D
      BY <1>6, <3>1 DEF IsRecursive
    <3>3. f[k] = g[<<k, f[k - 1]>>]
      BY <1>6, <3>1 DEF IsRecursive
    <3>. QED
      BY <1>5, <2>2, <3>1, <3>2, <3>3
  <2>. QED
    BY <2>1, <2>2
<1>8. f = [k \in 0 .. MaxWindow |-> f[k]]
  BY <1>6 DEF IsRecursive
<1>9. f = [k \in 0 .. MaxWindow |-> IF k = 0 THEN Pass(start, window) ELSE step(f[k - 1])]
  BY <1>7, <1>8
<1>. QED
  BY <1>9 DEF IsPopping, step

\* What holds after a pass, and is kept by a pass, holds after all of them.
LEMMA PoppingWithin ==
  ASSUME NEW D, NEW start, NEW window, Pass(start, window) \in D, \A st \in D : Pass(st, window) \in D,
         NEW loop, IsPopping(loop, start, window), NEW n \in 0 .. MaxWindow
  PROVE  loop[n] \in D
<1> DEFINE T == {k \in 0 .. MaxWindow : loop[k] \notin D}
<1>1. loop[0] = Pass(start, window) /\ 0 \in 0 .. MaxWindow
  BY PadType DEF IsPopping
<1>2. ASSUME NEW k \in 1 .. MaxWindow
      PROVE  loop[k] = loop[k - 1] \/ loop[k] = Pass(loop[k - 1], window)
  BY PadType DEF IsPopping
<1>3. T = {}
  <2> SUFFICES ASSUME T # {} PROVE FALSE
    OBVIOUS
  <2>1. T \subseteq Nat
    BY PadType
  <2>2. PICK k \in T : \A y \in T : k <= y
    BY <2>1, LeastNat
  <2>3. k \in 0 .. MaxWindow /\ loop[k] \notin D
    BY <2>2
  <2>4. k # 0
    BY <1>1, <2>3
  <2>5. k \in 1 .. MaxWindow /\ k - 1 \in 0 .. MaxWindow
    BY <2>3, <2>4, PadType
  <2>6. k - 1 \notin T
    <3> HIDE DEF T
    <3>. QED
      BY <2>2, <2>5
  <2>. QED
    BY <1>2, <2>3, <2>5, <2>6
<1>. QED
  BY <1>3

\* The passes keep to the frames that were queued, and none is put back.
LEMMA PoppingIs ==
  ASSUME NEW S \in SUBSET FrameSet, NEW start \in PassStates(S), NEW window \in Nat,
         NEW loop, IsPopping(loop, start, window), NEW n \in 0 .. MaxWindow
  PROVE  /\ loop[n] \in PassStates(S)
         /\ Pass(start, window).frames # <<>> => loop[n].frames # <<>>
<1>1. loop[n] \in PassStates(S)
  <2>1. Pass(start, window) \in PassStates(S) /\ \A st \in PassStates(S) : Pass(st, window) \in PassStates(S)
    BY PassIs
  <2>. QED
    BY <2>1, PoppingWithin
<1>2. ASSUME Pass(start, window).frames # <<>> PROVE loop[n].frames # <<>>
  <2>1. PICK D : D = {st \in PassStates(S) : st.frames # <<>>}
    OBVIOUS
  <2>2. Pass(start, window) \in D /\ \A st \in D : Pass(st, window) \in D
    BY <1>2, <2>1, PassIs
  <2>3. loop[n] \in D
    BY <2>2, PoppingWithin
  <2>. QED
    BY <2>1, <2>3
<1>. QED
  BY <1>1, <1>2

\* Where the passes over p's queues begin.
PopStart(qs, p) == [queues |-> qs[p], frames |-> <<>>, size |-> 0, taken |-> 0]

AfterPasses(st, start, window) ==
  \E loop : \E k \in 0 .. MaxWindow : IsPopping(loop, start, window) /\ st = loop[k]

\* pop_frames_for_protocol stops after some pass.
LEMMA PopsInPasses ==
  ASSUME NEW S \in SUBSET FrameSet, NEW qs, NEW p, qs[p] \in [QueueNames -> Seq(S)],
         NEW n \in Nat, num_active(qs) = n, NEW m \in Nat \ {0}, m = Max({1, n})
  PROVE  /\ PopStart(qs, p) \in PassStates(S) /\ Window(m) \in Nat
         /\ AfterPasses(pop_frames_for_protocol(qs, p), PopStart(qs, p), Window(m))
<1> DEFINE start == PopStart(qs, p)
           loop == CHOOSE loop : IsPopping(loop, start, Window(m))
           last == MaxWindow \div (3 * Pad)
<1>1. start \in PassStates(S)
  BY DEF PassStates, PopStart
<1>3. pop_frames_for_protocol(qs, p) = loop[last]
  BY DEF pop_frames_for_protocol, IsPopping, PopStart
<1> HIDE DEF start
<1>4. Window(m) \in Nat
  BY WindowIs
<1>5. IsPopping(loop, start, Window(m))
  BY <1>1, <1>4, PoppingExists
<1> HIDE DEF loop
<1>6. last \in 0 .. MaxWindow
  <2>1. PICK b \in Nat \ {0} : b = 3 * Pad
    BY PadType
  <2>2. PICK d \in Nat : d = MaxWindow \div b
    BY PadType, DivMod
  <2>3. b * d <= MaxWindow /\ b * d \in Nat
    <3>1. MaxWindow \in Nat /\ b \in Nat \ {0}
      BY PadType
    <3>2. /\ MaxWindow % b \in 0 .. b - 1
          /\ MaxWindow = b * (MaxWindow \div b) + (MaxWindow % b)
      BY <3>1, DivMod
    <3>3. b * d \in Nat
      BY TimesGrows
    <3>4. PICK r \in 0 .. b - 1 : r = MaxWindow % b
      BY <3>2
    <3>5. PICK e \in Nat : e = b * d
      BY <3>3
    <3>6. MaxWindow = e + r /\ r \in Nat
      BY <2>2, <3>2, <3>4, <3>5
    <3>. QED
      BY <3>5, <3>6
  <2>4. 1 * d <= b * d
    BY <2>1, <2>2, TimesGrows
  <2>. QED
    BY <2>1, <2>2, <2>3, <2>4, PadType
<1> HIDE DEF last
<1>. QED
  BY <1>1, <1>3, <1>4, <1>5, <1>6 DEF start, AfterPasses

\* Frames come from the protocol's queues, which keep the others; something
\* comes when all that is queued fits the window.
LEMMA PopIs ==
  ASSUME NEW S \in SUBSET FrameSet, NEW qs, NEW p, qs[p] \in [QueueNames -> Seq(S)],
         NEW n \in Nat, num_active(qs) = n, NEW m \in Nat \ {0}, m = Max({1, n})
  PROVE  /\ pop_frames_for_protocol(qs, p).queues \in [QueueNames -> Seq(S)]
         /\ (/\ \A q \in QueueNames : qs[p][q] \in Seq(Fitting(Window(m)))
             /\ is_active(qs, p))
              => pop_frames_for_protocol(qs, p).frames # <<>>
<1>1. PICK start : start = PopStart(qs, p)
  OBVIOUS
<1>2. start \in PassStates(S) /\ Window(m) \in Nat
  BY <1>1, PopsInPasses
<1>3. start.queues = qs[p] /\ start.size = 0
  BY <1>1 DEF PopStart
<1>4. PICK loop : \E k \in 0 .. MaxWindow :
        IsPopping(loop, start, Window(m)) /\ pop_frames_for_protocol(qs, p) = loop[k]
  <2>1. AfterPasses(pop_frames_for_protocol(qs, p), start, Window(m))
    BY <1>1, PopsInPasses
  <2>. QED
    BY <2>1 DEF AfterPasses
<1>4a. PICK k \in 0 .. MaxWindow : IsPopping(loop, start, Window(m)) /\ pop_frames_for_protocol(qs, p) = loop[k]
  BY <1>4
<1>5. /\ loop[k] \in PassStates(S)
      /\ Pass(start, Window(m)).frames # <<>> => loop[k].frames # <<>>
  BY <1>2, <1>4a, PoppingIs
<1>6. loop[k].queues \in [QueueNames -> Seq(S)]
  BY <1>5 DEF PassStates
<1>7. ASSUME \A q \in QueueNames : qs[p][q] \in Seq(Fitting(Window(m))), is_active(qs, p)
      PROVE  loop[k].frames # <<>>
  BY <1>2, <1>3, <1>5, <1>7, PassIs DEF is_active
<1>. QED
  BY <1>4a, <1>6, <1>7

-----------------------------------------------------------------------------
(* The protocols.                                                          *)

LEMMA ModIs ==
  ASSUME NEW n \in Nat \ {0}, NEW a \in 0 .. n - 1
  PROVE  a % n = a /\ (a + n) % n = a
<1>1. ASSUME NEW x \in Nat, x = a \/ x = a + n PROVE x % n = a
  <2>1. PICK d \in Nat : d = x \div n
    BY DivMod
  <2>2. PICK r \in 0 .. n - 1 : r = x % n
    BY DivMod
  <2>3. x = n * d + r
    BY <2>1, <2>2, DivMod
  <2>4. PICK e \in Nat : e = n * d
    BY TimesGrows
  <2>5. x = e + r
    BY <2>3, <2>4
  <2>6. d = 0 => e = 0
    BY <2>4
  <2>7. d = 1 => e = n
    BY <2>4
  <2>8. d >= 2 => e >= n + n
    <3>1. d >= 2 => 2 * n <= d * n /\ n * d = d * n
      BY TimesGrows
    <3>. QED
      BY <2>4, <3>1
  <2>9. r = a
    BY <1>1, <2>5, <2>6, <2>7, <2>8
  <2>. QED
    BY <2>2, <2>9
<1>. QED
  BY <1>1

LEMMA IdsIs ==
  /\ Len(Protocols) \in Nat \ {0} /\ Protocols \in [1 .. Len(Protocols) -> Ids] /\ Ids \subseteq Nat
  /\ \A p \in Ids : \E i \in 1 .. Len(Protocols) : Protocols[i] = p
  /\ IsFiniteSet(Ids) /\ Cardinality(Ids) <= Len(Protocols)
<1>1. Protocols \in Seq(Nat) /\ Protocols # <<>>
  BY MultiplexerAssumption
<1>2. PICK n \in Nat \ {0} : n = Len(Protocols)
  BY <1>1
<1>3. DOMAIN Protocols = 1 .. n /\ Protocols \in [1 .. n -> Nat]
  BY <1>1, <1>2
<1>4. Ids = {Protocols[i] : i \in 1 .. n}
  BY <1>3 DEF Ids, Range
<1>5. Protocols \in [1 .. n -> Ids] /\ Ids \subseteq Nat
  BY <1>3, <1>4
<1>6. \A p \in Ids : \E i \in 1 .. n : Protocols[i] = p
  BY <1>4
<1>7. Protocols \in Surjection(1 .. n, Ids)
  BY <1>5, <1>6 DEF Surjection
<1>8. IsFiniteSet(1 .. n) /\ Cardinality(1 .. n) = n
  BY FS_Interval
<1>9. IsFiniteSet(Ids) /\ Cardinality(Ids) <= n
  BY <1>7, <1>8, FS_Surjection
<1>. QED
  BY <1>2, <1>5, <1>6, <1>9

\* The cycle comes to every protocol.
LEMMA FollowingIs ==
  ASSUME NEW last \in Ids
  PROVE  /\ \A k \in Nat : Following(last, k) \in Ids
         /\ \A p \in Ids : \E k \in 1 .. Len(Protocols) : Following(last, k) = p
<1>1. PICK n \in Nat \ {0} : n = Len(Protocols)
  BY IdsIs
<1>2. PICK i \in 1 .. n : i = IndexOf(last)
  <2>1. \E i \in DOMAIN Protocols : Protocols[i] = last
    BY IdsIs
  <2>2. IndexOf(last) \in DOMAIN Protocols
    BY <2>1 DEF IndexOf
  <2>. QED
    BY <1>1, <2>2, IdsIs
<1>3. \A k \in Nat : Following(last, k) = Protocols[((i - 1 + k) % n) + 1]
  BY <1>1, <1>2 DEF Following
<1>4. ASSUME NEW k \in Nat PROVE Following(last, k) \in Ids
  <2>1. i - 1 + k \in Nat
    OBVIOUS
  <2>2. (i - 1 + k) % n \in 0 .. n - 1
    BY <2>1, DivMod
  <2>3. PICK j \in 0 .. n - 1 : j = (i - 1 + k) % n
    BY <2>2
  <2>4. Protocols[j + 1] \in Ids
    BY <1>1, IdsIs
  <2>. QED
    BY <1>3, <2>3, <2>4
<1>5. ASSUME NEW p \in Ids PROVE \E k \in 1 .. n : Following(last, k) = p
  <2>1. PICK j \in 1 .. n : Protocols[j] = p
    BY <1>1, IdsIs
  <2>2. j - 1 \in 0 .. n - 1 /\ (j - 1) + 1 = j
    OBVIOUS
  <2>3. (j - 1) % n = j - 1 /\ ((j - 1) + n) % n = j - 1
    BY <2>2, ModIs
  <2>4. CASE j > i
    <3>1. j - i \in 1 .. n /\ j - i \in Nat /\ i - 1 + (j - i) = j - 1
      BY <2>4
    <3>2. Following(last, j - i) = Protocols[((j - 1) % n) + 1]
      BY <1>3, <3>1
    <3>. QED
      BY <2>1, <2>2, <2>3, <3>1, <3>2
  <2>5. CASE j <= i
    <3>1. (j - i) + n \in 1 .. n /\ (j - i) + n \in Nat /\ i - 1 + ((j - i) + n) = (j - 1) + n
      BY <2>5
    <3>2. Following(last, (j - i) + n) = Protocols[(((j - 1) + n) % n) + 1]
      BY <1>3, <3>1
    <3>. QED
      BY <2>1, <2>2, <2>3, <3>1, <3>2
  <2>. QED
    BY <2>4, <2>5
<1>. QED
  BY <1>1, <1>4, <1>5

-----------------------------------------------------------------------------
(* The inductive invariant.                                                *)

Queued(S) == [QueueNames -> Seq(S)]

MuxTypeOK ==
  /\ queues \in [Ids -> Queued(FrameSet)]
  /\ sequence_id \in [Ids -> Nat]
  /\ last_protocol \in Ids
  /\ added \in Seq([id : Nat, proto : Ids, queue : QueueNames, len : Nat])

\* All that p has queued fits the window of n active protocols.
Fits(p, n) == queues[p] \in Queued(Fitting(Window(n)))

\* Whichever protocols remain active, one of them has been framed for as many.
SomeFits == \A A \in SUBSET Ids : A # {} => \E p \in A : Fits(p, Cardinality(A))

MuxInvariant == MuxTypeOK /\ SomeFits

\* multiplexer.py:309 "if protocol_id and not ...": Python takes the id 0 for no
\* id at all, so that protocol's packets are cut for a window in which it is not
\* counted.  The packets of the one protocol with that id, p2p_protocol.py's hello,
\* ping, pong and disconnect, are short enough for the smallest window.
ZeroIsShort ==
  0 \in Ids => \A len \in Lengths[0] : 3 * Pad + Ceil(len + CmdLen) <= Window(Len(Protocols))

Active == {p \in Ids : is_active(queues, p)}

LEMMA ActiveIs ==
  /\ Active \subseteq Ids /\ IsFiniteSet(Active) /\ num_active(queues) = Cardinality(Active)
  /\ \A A \in SUBSET Ids : /\ IsFiniteSet(A) /\ Cardinality(A) \in Nat /\ Cardinality(A) <= Len(Protocols)
                           /\ A # {} => Cardinality(A) \in Nat \ {0}
<1>1. Active \subseteq Ids /\ num_active(queues) = Cardinality(Active)
  BY DEF Active, num_active
<1>2. ASSUME NEW A \in SUBSET Ids
      PROVE  /\ IsFiniteSet(A) /\ Cardinality(A) \in Nat /\ Cardinality(A) <= Len(Protocols)
             /\ A # {} => Cardinality(A) \in Nat \ {0}
  <2>1. IsFiniteSet(A) /\ Cardinality(A) <= Cardinality(Ids)
    BY IdsIs, FS_Subset
  <2>2. Cardinality(A) \in Nat /\ Cardinality(Ids) \in Nat
    BY <2>1, IdsIs, FS_CardinalityType
  <2>3. A # {} => Cardinality(A) # 0
    BY <2>1, FS_EmptySet
  <2>. QED
    BY <2>1, <2>2, <2>3, IdsIs
<1>. QED
  BY <1>1, <1>2

LEMMA MaxOne == ASSUME NEW n \in Nat PROVE Max({1, n}) = IF n = 0 THEN 1 ELSE n
<1>1. PICK m \in Nat : m = IF n = 0 THEN 1 ELSE n
  OBVIOUS
<1>2. m \in {1, n} /\ \A y \in {1, n} : m >= y
  BY <1>1
<1>3. \A x \in {1, n} : (\A y \in {1, n} : x >= y) => x = m
  BY <1>1
<1>. QED
  BY <1>1, <1>2, <1>3 DEF Max

\* Frames that fit a window fit that of fewer protocols.
LEMMA FittingGrows ==
  ASSUME NEW n \in Nat \ {0}, NEW m \in Nat \ {0}, n <= m
  PROVE  Fitting(Window(m)) \subseteq Fitting(Window(n)) /\ Fitting(Window(n)) \subseteq FrameSet
<1>1. Window(m) \in Nat /\ Window(n) \in Nat /\ Window(m) <= Window(n)
  BY WindowIs
<1>2. \A f \in FrameSet : frame_size(f) \in Nat
  BY FrameSizes
<1>. QED
  BY <1>1, <1>2 DEF Fitting

\* What add_packet queues.
NewFrames(p, len, id, sid) ==
  Frames([id |-> id, proto |-> p, payload |-> [i \in 1 .. len |-> <<id, i>>]], sid,
         protocol_window_size(queues, p))

\* protocol_window_size gives room for the protocols now active and p, unless p
\* has the id 0.
Asked(p) ==
  \E m \in Nat \ {0} :
     /\ m <= Len(Protocols) /\ protocol_window_size(queues, p) = Window(m)
     /\ p # 0 => \A A \in SUBSET (Active \cup {p}) : Cardinality(A) <= m

LEMMA WindowAsked == ASSUME NEW p \in Ids PROVE Asked(p)
<1>0. PICK n \in Nat : n = num_active(queues)
  BY ActiveIs
<1>1. Active \cup {p} \in SUBSET Ids /\ Active \cup {p} # {}
  BY ActiveIs
<1>2. PICK a \in Nat \ {0} : a = Cardinality(Active \cup {p}) /\ a <= Len(Protocols)
  BY <1>1, ActiveIs
<1>3. ASSUME NEW A \in SUBSET (Active \cup {p}) PROVE Cardinality(A) <= a
  BY <1>1, <1>2, ActiveIs, FS_Subset
<1>4. a = IF p \in Active THEN n ELSE n + 1
  BY <1>0, <1>2, ActiveIs, FS_AddElement
<1>5. n <= Len(Protocols) /\ Len(Protocols) \in Nat \ {0}
  BY <1>0, ActiveIs, IdsIs
<1>6. p \in Active <=> is_active(queues, p)
  BY DEF Active
<1>7. CASE p # 0
  <2>1. protocol_window_size(queues, p) = Window(a)
    <3>1. CASE p \in Active
      <4>1. a = n /\ n # 0
        BY <1>2, <1>4, <3>1
      <4>2. Max({1, n}) = n
        BY <4>1, MaxOne
      <4>. QED
        BY <1>0, <1>6, <3>1, <4>1, <4>2 DEF protocol_window_size
    <3>2. CASE p \notin Active
      <4>1. a = 1 + n
        BY <1>4, <3>2
      <4>. QED
        BY <1>0, <1>6, <1>7, <3>2, <4>1 DEF protocol_window_size
    <3>. QED
      BY <3>1, <3>2
  <2>. QED
    BY <1>2, <1>3, <2>1 DEF Asked
<1>8. CASE p = 0
  <2>1. PICK b \in Nat \ {0} : b = Max({1, n}) /\ b <= Len(Protocols)
    BY <1>5, MaxOne
  <2>2. protocol_window_size(queues, p) = Window(b)
    BY <1>0, <1>8, <2>1 DEF protocol_window_size
  <2>. QED
    BY <1>8, <2>1, <2>2 DEF Asked
<1>. QED
  BY <1>7, <1>8

\* The frames of a new packet fit whatever window is to come, as long as only
\* protocols active now are active then.
LEMMA NewFramesFit ==
  ASSUME ZeroIsShort, NEW p \in Ids, NEW len \in Lengths[p], NEW id \in Nat, NEW sid \in Nat
  PROVE  /\ NewFrames(p, len, id, sid) \in Seq(FrameSet)
         /\ \A A \in SUBSET (Active \cup {p}) :
              A # {} => NewFrames(p, len, id, sid) \in Seq(Fitting(Window(Cardinality(A))))
<1>1a. PICK packet : packet = [id |-> id, proto |-> p, payload |-> [i \in 1 .. len |-> <<id, i>>]]
  OBVIOUS
<1>1b. PICK frames : frames = Frames(packet, sid, protocol_window_size(queues, p))
  OBVIOUS
<1>1. len \in Nat
  BY MultiplexerAssumption
<1>2. /\ packet.payload \in Seq(Nat \X Nat) /\ Len(packet.payload) = len
      /\ packet.proto \in Ids /\ packet.id \in Nat
  BY <1>1a, <1>1
<1>4. PICK m \in Nat \ {0} :
        /\ m <= Len(Protocols) /\ protocol_window_size(queues, p) = Window(m)
        /\ p # 0 => \A A \in SUBSET (Active \cup {p}) : Cardinality(A) <= m
  BY WindowAsked DEF Asked
<1>5. PICK w \in Nat : w = Window(m)
  BY WindowIs
<1>6. PICK k \in Nat : w = k * Pad
  BY <1>5, WindowIs
<1>7. w >= 4 * Pad
  BY <1>4, <1>5, WindowIs
<1>8. /\ frames \in Seq(Fitting(w))
      /\ \A v \in Nat : 3 * Pad + Ceil(len + CmdLen) <= v => frames \in Seq(Fitting(v))
  <2>1. frames = Frames(packet, sid, w)
    BY <1>1b, <1>4, <1>5
  <2>2. /\ Frames(packet, sid, w) \in Seq(Fitting(w))
        /\ \A v \in Nat : 3 * Pad + Ceil(Len(packet.payload) + CmdLen) <= v
                            => Frames(packet, sid, w) \in Seq(Fitting(v))
    BY <1>2, <1>5, <1>6, <1>7, FramesFit
  <2>. QED
    BY <1>2, <2>1, <2>2
<1>9. ASSUME NEW A \in SUBSET (Active \cup {p}), A # {}
      PROVE  frames \in Seq(Fitting(Window(Cardinality(A))))
  <2>1. PICK c \in Nat \ {0} : c = Cardinality(A) /\ c <= Len(Protocols)
    <3>1. A \in SUBSET Ids
      BY ActiveIs
    <3>. QED
      BY <1>9, <3>1, ActiveIs
  <2>2. CASE p # 0
    <3>1. Fitting(w) \subseteq Fitting(Window(c))
      BY <1>4, <1>5, <2>1, <2>2, FittingGrows
    <3>. QED
      BY <1>8, <2>1, <3>1
  <2>3. CASE p = 0
    <3>1. 3 * Pad + Ceil(len + CmdLen) <= Window(Len(Protocols))
      BY <2>3 DEF ZeroIsShort
    <3>2. Window(Len(Protocols)) <= Window(c) /\ Window(Len(Protocols)) \in Nat /\ Window(c) \in Nat
      BY <2>1, WindowIs, IdsIs
    <3>3. len + CmdLen \in Nat
      BY <1>1 DEF CmdLen
    <3>4. Ceil(len + CmdLen) \in Nat
      BY <3>3, CeilIs
    <3>5. 3 * Pad + Ceil(len + CmdLen) <= Window(c)
      BY <3>1, <3>2, <3>4, PadType
    <3>. QED
      BY <1>8, <2>1, <3>2, <3>5
  <2>. QED
    BY <2>2, <2>3
<1>10. frames \in Seq(FrameSet)
  BY <1>8 DEF Fitting
<1>11. frames = NewFrames(p, len, id, sid)
  BY <1>1a, <1>1b DEF NewFrames
<1>. QED
  BY <1>9, <1>10, <1>11

LEMMA InitInvariant == Init => MuxInvariant
<1> SUFFICES ASSUME Init PROVE MuxInvariant
  OBVIOUS
<1>1. \A S : <<>> \in Seq(S)
  OBVIOUS
<1>2. \A S : [q \in QueueNames |-> <<>>] \in Queued(S)
  BY <1>1 DEF Queued
<1>3. queues = [p \in Ids |-> [q \in QueueNames |-> <<>>]]
  BY DEF Init
<1>4. queues \in [Ids -> Queued(FrameSet)]
  BY <1>2, <1>3
<1>5. last_protocol \in Ids
  BY IdsIs DEF Init, Last
<1>6. MuxTypeOK
  BY <1>1, <1>4, <1>5 DEF Init, MuxTypeOK
<1>7. ASSUME NEW p \in Ids, NEW n PROVE Fits(p, n)
  BY <1>2, <1>3 DEF Fits
<1>8. SomeFits
  BY <1>7 DEF SomeFits
<1>. QED
  BY <1>6, <1>8 DEF MuxInvariant

\* A protocol framed for the window before still fits it after a new packet of
\* its own, unless there are others that are idle.
LEMMA AddInvariant ==
  ASSUME ZeroIsShort, MuxInvariant,
         NEW p \in Ids, NEW len \in Lengths[p], NEW prioritize \in BOOLEAN,
         add_packet(p, len, prioritize)
  PROVE  MuxInvariant'
<1> DEFINE id == Len(added) + 1
           packet == [id |-> id, proto |-> p, payload |-> [i \in 1 .. len |-> <<id, i>>]]
           frames == Frames(packet, sequence_id[p], protocol_window_size(queues, p))
           q == IF prioritize THEN "priority" ELSE IF Len(frames) = 1 THEN "normal" ELSE "chunked"
<1>1. MuxTypeOK /\ SomeFits
  BY DEF MuxInvariant
<1>2. id \in Nat /\ sequence_id[p] \in Nat /\ queues \in [Ids -> Queued(FrameSet)]
  BY <1>1 DEF MuxTypeOK
<1>3. /\ frames \in Seq(FrameSet)
      /\ \A A \in SUBSET (Active \cup {p}) : A # {} => frames \in Seq(Fitting(Window(Cardinality(A))))
  <2>1. frames = NewFrames(p, len, id, sequence_id[p])
    BY DEF NewFrames
  <2> HIDE DEF id, packet, frames
  <2>. QED
    BY <1>2, <2>1, NewFramesFit
<1>4. q \in QueueNames
  BY DEF QueueNames
<1>5. /\ queues' = [queues EXCEPT ![p][q] = @ \o frames]
      /\ sequence_id' = [sequence_id EXCEPT ![p] = (@ + 1) % SidMod]
      /\ added' = Append(added, [id |-> id, proto |-> p, queue |-> q, len |-> len])
      /\ last_protocol' = last_protocol
  BY DEF add_packet
<1> HIDE DEF frames, q, id
<1>6. PICK old : old = queues[p]
  OBVIOUS
<1>7. PICK new : new = [old EXCEPT ![q] = @ \o frames]
  OBVIOUS
<1>8. queues' = [queues EXCEPT ![p] = new]
  BY <1>5, <1>6, <1>7
<1>9. ASSUME NEW S, old \in Queued(S), frames \in Seq(S) PROVE new \in Queued(S)
  <2>1. old[q] \in Seq(S)
    BY <1>4, <1>9 DEF Queued
  <2>2. old[q] \o frames \in Seq(S)
    BY <1>9, <2>1, ConcatProperties
  <2>. QED
    BY <1>7, <1>9, <2>2 DEF Queued
<1>10. queues' \in [Ids -> Queued(FrameSet)]
  <2>1. new \in Queued(FrameSet)
    BY <1>2, <1>3, <1>6, <1>9
  <2>. QED
    BY <1>2, <1>8, <2>1
<1>11. MuxTypeOK'
  <2>1. sequence_id' \in [Ids -> Nat]
    <3>1. SidMod \in Nat \ {0}
      BY MultiplexerAssumption
    <3>2. \A x \in Nat : (x + 1) % SidMod \in Nat
      BY <3>1, DivMod
    <3>3. sequence_id \in [Ids -> Nat]
      BY <1>1 DEF MuxTypeOK
    <3>. QED
      BY <1>2, <1>5, <3>2, <3>3
  <2>2. added' \in Seq([id : Nat, proto : Ids, queue : QueueNames, len : Nat])
    <3>1. len \in Nat
      BY MultiplexerAssumption
    <3>2. [id |-> id, proto |-> p, queue |-> q, len |-> len]
            \in [id : Nat, proto : Ids, queue : QueueNames, len : Nat]
      BY <1>2, <1>4, <3>1
    <3>3. added \in Seq([id : Nat, proto : Ids, queue : QueueNames, len : Nat])
      BY <1>1 DEF MuxTypeOK
    <3>. QED
      BY <1>5, <3>2, <3>3, AppendProperties
  <2>3. last_protocol' \in Ids
    BY <1>1, <1>5 DEF MuxTypeOK
  <2>. QED
    BY <1>10, <2>1, <2>2, <2>3 DEF MuxTypeOK
<1>12. ASSUME NEW A \in SUBSET Ids, A # {}
       PROVE  \E r \in A : queues'[r] \in Queued(Fitting(Window(Cardinality(A))))
  <2>1. CASE A \subseteq Active \cup {p}
    <3>1. PICK r \in A : queues[r] \in Queued(Fitting(Window(Cardinality(A))))
      BY <1>1, <1>12 DEF SomeFits, Fits
    <3>2. CASE r = p
      <4>1. frames \in Seq(Fitting(Window(Cardinality(A))))
        BY <1>3, <1>12, <2>1
      <4>2. new \in Queued(Fitting(Window(Cardinality(A))))
        BY <1>6, <1>9, <3>1, <3>2, <4>1
      <4>. QED
        BY <1>2, <1>8, <3>2, <4>2
    <3>3. CASE r # p
      BY <1>2, <1>8, <3>1, <3>3
    <3>. QED
      BY <3>2, <3>3
  <2>2. CASE ~ (A \subseteq Active \cup {p})
    <3>1. PICK r \in A : r \in Ids /\ r \notin Active /\ r # p
      BY <2>2
    <3>2. queues[r] \in Queued(FrameSet) /\ queues'[r] = queues[r]
      BY <1>2, <1>8, <3>1
    <3>3. \A x \in QueueNames : queues[r][x] = <<>>
      BY <3>1 DEF Active, is_active
    <3>4. \A S : queues[r] \in Queued(S)
      <4>1. \A S : <<>> \in Seq(S)
        OBVIOUS
      <4>. QED
        BY <3>2, <3>3, <4>1 DEF Queued
    <3>. QED
      BY <3>2, <3>4
  <2>. QED
    BY <2>1, <2>2
<1>13. SomeFits'
  BY <1>12 DEF SomeFits, Fits
<1>. QED
  BY <1>11, <1>13 DEF MuxInvariant

\* What is popped from a protocol leaves it fitting whatever it fitted.
LEMMA PopInvariant ==
  ASSUME MuxInvariant, pop_frames PROVE MuxInvariant'
<1>1. MuxTypeOK /\ SomeFits
  BY DEF MuxInvariant
<1>2. queues \in [Ids -> Queued(FrameSet)] /\ last_protocol \in Ids
  BY <1>1 DEF MuxTypeOK
<1>3. sequence_id' = sequence_id /\ added' = added /\ last_protocol' = Following(last_protocol, 1)
  BY DEF pop_frames, next_protocol
<1>4. last_protocol' \in Ids
  BY <1>2, <1>3, FollowingIs
<1>5. CASE Ready(queues, last_protocol) = {}
  <2>1. queues' = queues
    BY <1>5 DEF pop_frames
  <2>. QED
    BY <1>1, <1>3, <1>4, <2>1 DEF MuxInvariant, MuxTypeOK, SomeFits, Fits
<1>6. CASE Ready(queues, last_protocol) # {}
  <2>1. PICK k : k = Min(Ready(queues, last_protocol))
    OBVIOUS
  <2>2. PICK p : p = Following(last_protocol, k)
    OBVIOUS
  <2>3. PICK left : left = pop_frames_for_protocol(queues, p).queues
    OBVIOUS
  <2>4. queues' = [queues EXCEPT ![p] = left]
    BY <1>6, <2>1, <2>2, <2>3 DEF pop_frames
  <2>5. k \in 1 .. Len(Protocols)
    <3>1. Ready(queues, last_protocol) \subseteq Nat /\ Ready(queues, last_protocol) \subseteq 1 .. Len(Protocols)
      BY DEF Ready
    <3>2. \E x \in Ready(queues, last_protocol) : \A y \in Ready(queues, last_protocol) : x <= y
      BY <1>6, <3>1, LeastNat
    <3>. QED
      BY <2>1, <3>1, <3>2 DEF Min
  <2>6. p \in Ids
    BY <1>2, <2>2, <2>5, FollowingIs
  <2>7. PICK n \in Nat : n = num_active(queues)
    BY ActiveIs
  <2>8. PICK m \in Nat \ {0} : m = Max({1, n})
    BY MaxOne
  <2>9. ASSUME NEW S \in SUBSET FrameSet, queues[p] \in Queued(S) PROVE left \in Queued(S)
    BY <2>3, <2>7, <2>8, <2>9, PopIs DEF Queued
  <2>10. queues' \in [Ids -> Queued(FrameSet)]
    <3>1. left \in Queued(FrameSet)
      BY <1>2, <2>6, <2>9
    <3>. QED
      BY <1>2, <2>4, <3>1
  <2>11. ASSUME NEW A \in SUBSET Ids, A # {}
         PROVE  \E r \in A : queues'[r] \in Queued(Fitting(Window(Cardinality(A))))
    <3>1. PICK r \in A : queues[r] \in Queued(Fitting(Window(Cardinality(A))))
      BY <1>1, <2>11 DEF SomeFits, Fits
    <3>2. CASE r = p
      <4>1. Fitting(Window(Cardinality(A))) \in SUBSET FrameSet
        BY DEF Fitting
      <4>2. left \in Queued(Fitting(Window(Cardinality(A))))
        BY <2>9, <3>1, <3>2, <4>1
      <4>. QED
        BY <1>2, <2>4, <3>2, <4>2
    <3>3. CASE r # p
      BY <1>2, <2>4, <3>1, <3>3
    <3>. QED
      BY <3>2, <3>3
  <2>12. SomeFits'
    BY <2>11 DEF SomeFits, Fits
  <2>13. MuxTypeOK'
    BY <1>1, <1>3, <1>4, <2>10 DEF MuxTypeOK
  <2>. QED
    BY <2>12, <2>13 DEF MuxInvariant
<1>. QED
  BY <1>5, <1>6

LEMMA StepInvariant ==
  ASSUME ZeroIsShort, MuxInvariant, [Next]_vars PROVE MuxInvariant'
<1>1. ASSUME NEW p \in Ids, NEW len \in Lengths[p], NEW prioritize \in BOOLEAN,
             add_packet(p, len, prioritize)
      PROVE  MuxInvariant'
  BY <1>1, AddInvariant
<1>2. ASSUME pop_frames PROVE MuxInvariant'
  BY <1>2, PopInvariant
<1>3. ASSUME UNCHANGED sender PROVE MuxInvariant'
  BY <1>3 DEF MuxInvariant, MuxTypeOK, SomeFits, Fits, sender
<1>4. ASSUME NEW k \in Readable, Deliver(k) PROVE UNCHANGED sender
  BY <1>4 DEF Deliver
<1>. QED
  BY <1>1, <1>2, <1>3, <1>4 DEF Next, vars

\* The protocol that fits the window of those now active yields a frame, and the
\* cycle comes to it.
LEMMA FittingOneIsReady == MuxInvariant => CycleDequeues
<1> SUFFICES ASSUME MuxInvariant, num_active(queues) > 0
             PROVE  Ready(queues, last_protocol) # {}
  BY DEF CycleDequeues
<1>1. /\ queues \in [Ids -> Queued(FrameSet)] /\ last_protocol \in Ids /\ SomeFits
  BY DEF MuxInvariant, MuxTypeOK
<1>2. PICK n \in Nat \ {0} : n = num_active(queues) /\ n = Cardinality(Active)
  BY ActiveIs
<1>3. Active \in SUBSET Ids /\ Active # {}
  BY <1>2, ActiveIs, FS_EmptySet
<1>4. PICK p \in Active : queues[p] \in Queued(Fitting(Window(n)))
  BY <1>1, <1>2, <1>3 DEF SomeFits, Fits
<1>5. p \in Ids /\ is_active(queues, p) /\ queues[p] \in Queued(FrameSet)
  BY <1>1, <1>3, <1>4 DEF Active
<1>6. n = Max({1, n})
  BY <1>2, MaxOne
<1>7. pop_frames_for_protocol(queues, p).frames # <<>>
  BY <1>2, <1>4, <1>5, <1>6, PopIs DEF Queued
<1>8. PICK k \in 1 .. Len(Protocols) : Following(last_protocol, k) = p
  BY <1>1, <1>5, FollowingIs
<1>. QED
  BY <1>7, <1>8 DEF Ready

-----------------------------------------------------------------------------
\* What the sender holds is well-formed, and of any protocols that remain active
\* one has only frames that fit the window of that many.
THEOREM QueuesStayFramed == ASSUME ZeroIsShort PROVE Spec => []MuxInvariant
<1>1. Init => MuxInvariant
  BY InitInvariant
<1>2. MuxInvariant /\ [Next]_vars => MuxInvariant'
  BY StepInvariant
<1>. QED
  BY <1>1, <1>2, PTL DEF Spec

\* multiplexer.py:257 "Dequeuing packets is performed in a cycle which dequeues one
\* or more packets": pop_frames yields frames as long as a protocol is active.
THEOREM EveryCycleDequeues == ASSUME ZeroIsShort PROVE Spec => []CycleDequeues
<1>1. MuxInvariant => CycleDequeues
  BY FittingOneIsReady
<1>. QED
  BY <1>1, QueuesStayFramed, PTL

-----------------------------------------------------------------------------
(* What a frame carries.  The body of a packet is the command id and then  *)
(* the payload; a frame holds the stretch of it from At up to Upto.        *)

Whole(id) == added[id].len + CmdLen

Payload(id, n) == [i \in 1 .. n |-> <<id, i>>]

\* Units of the payload in the frames before f.
Base(f) == IF f.kind = "chunked_n" THEN f.data[1][2] - 1 ELSE 0

At(f) == IF f.kind = "chunked_n" THEN CmdLen + Base(f) ELSE 0

Upto(f) == At(f) + body_size(f)

LEMMA Monotone ==
  ASSUME NEW n \in Nat, NEW e, \A i \in 0 .. n : e[i] \in Nat, \A i \in 1 .. n : e[i - 1] <= e[i],
         NEW i \in 0 .. n, NEW k \in 0 .. n, i <= k
  PROVE  e[i] <= e[k]
<1> DEFINE T == {x \in i .. n : ~ (e[i] <= e[x])}
<1>1. T = {}
  <2> SUFFICES ASSUME T # {} PROVE FALSE
    OBVIOUS
  <2>1. T \subseteq Nat
    OBVIOUS
  <2>2. PICK x \in T : \A y \in T : x <= y
    BY <2>1, LeastNat
  <2>3. x \in i .. n /\ x # i /\ ~ (e[i] <= e[x])
    BY <2>2
  <2>4. x - 1 \in i .. n /\ x \in 1 .. n /\ x - 1 \in 0 .. n /\ x \in 0 .. n
    BY <2>3
  <2>5. x - 1 \notin T
    <3> HIDE DEF T
    <3>. QED
      BY <2>2, <2>4
  <2>6. e[i] <= e[x - 1]
    BY <2>4, <2>5
  <2>7. e[x - 1] <= e[x] /\ e[x] \in Nat /\ e[x - 1] \in Nat /\ e[i] \in Nat
    BY <2>4
  <2>. QED
    BY <2>3, <2>6, <2>7
<1>. QED
  BY <1>1

\* The frames of a packet hold its body, one stretch after the other.
IsCut(fs, p, sid, id, len) ==
  /\ Len(fs) \in Nat \ {0}
  /\ \A i \in 1 .. Len(fs) :
        /\ fs[i].proto = p /\ fs[i].sid = sid /\ fs[i].packet = id /\ fs[i].total = len + CmdLen
        /\ At(fs[i]) \in Nat /\ Upto(fs[i]) \in Nat /\ At(fs[i]) < Upto(fs[i]) /\ Upto(fs[i]) <= len + CmdLen
        /\ \A j \in 1 .. Len(fs[i].data) : fs[i].data[j] = <<id, Base(fs[i]) + j>>
        /\ fs[i].kind = "normal" <=> Len(fs) = 1
        /\ fs[i].kind = "normal" => Upto(fs[i]) = len + CmdLen
        /\ fs[i].kind = "chunked_0" => Upto(fs[i]) < len + CmdLen
        /\ fs[i].kind = "chunked_n" => At(fs[i]) > 0
        /\ \A k \in 1 .. Len(fs) : i < k => Upto(fs[i]) <= At(fs[k])
  /\ \A u \in 0 .. len + CmdLen - 1 :
        \E i \in 1 .. Len(fs) : At(fs[i]) <= u /\ u < Upto(fs[i])

LEMMA FramesCut ==
  ASSUME NEW p \in Ids, NEW id \in Nat, NEW len \in Nat, NEW sid \in Nat,
         NEW window \in Nat, NEW k \in Nat, window = k * Pad, window >= 4 * Pad
  PROVE  IsCut(Frames([id |-> id, proto |-> p, payload |-> Payload(id, len)], sid, window), p, sid, id, len)
<1> DEFINE packet == [id |-> id, proto |-> p, payload |-> Payload(id, len)]
           fs == Frames(packet, sid, window)
           L == Len(packet.payload)
           rest == CHOOSE rest : IsRest(rest, L, window)
           count == Min({i \in 1 .. L + 1 : rest[i] = 0})
           frame(i) == [proto |-> packet.proto, sid |-> sid, packet |-> packet.id,
                        kind |-> IF count = 1 THEN "normal" ELSE IF i = 1 THEN "chunked_0" ELSE "chunked_n",
                        total |-> L + CmdLen,
                        data |-> SubSeq(packet.payload, L - rest[i - 1] + 1, L - rest[i])]
<1>1. L = len
  BY DEF Payload
<1>2. fs = [i \in 1 .. count |-> frame(i)]
  BY DEF Frames, IsRest
<1> DEFINE R == CHOOSE rst : IsRest(rst, len, window)
<1>3. rest = R
  BY <1>1
<1>4. IsRest(R, len, window)
  BY RestExists
<1> HIDE DEF R
<1>5. /\ R[0] = len /\ \A i \in 0 .. len + 1 : R[i] \in 0 .. len
      /\ \A i \in 1 .. len + 1 : R[i] <= R[i - 1] /\ (i # 1 => R[i] = 0 \/ R[i] < R[i - 1])
      /\ R[len + 1] = 0
  BY <1>4, RestIs
<1>6. PICK n \in 1 .. len + 1 : R[n] = 0 /\ n = count /\ \A i \in 1 .. n - 1 : R[i] # 0
  <2> DEFINE S == {i \in 1 .. len + 1 : R[i] = 0}
  <2>1. len + 1 \in S /\ S \subseteq Nat
    BY <1>5
  <2>2. \E x \in S : \A y \in S : x <= y
    BY <2>1, LeastNat
  <2>3. Min(S) \in S /\ \A y \in S : Min(S) <= y
    BY <2>2 DEF Min
  <2>4. count = Min(S)
    BY <1>1, <1>3
  <2> HIDE DEF rest, count
  <2>5. PICK m \in S : m = Min(S) /\ \A y \in S : m <= y
    BY <2>3
  <2>6. \A i \in 1 .. m - 1 : R[i] # 0
    BY <2>5
  <2>. QED
    BY <2>4, <2>5, <2>6
<1> DEFINE e == [i \in 0 .. n |-> IF i = 0 THEN 0 ELSE CmdLen + len - R[i]]
<1> HIDE DEF rest, count
<1>7. \A i \in 0 .. n : e[i] \in Nat /\ e[i] <= len + CmdLen
  BY <1>5 DEF CmdLen
<1>8. e[0] = 0 /\ e[n] = len + CmdLen /\ \A i \in 1 .. n : e[i] = CmdLen + len - R[i]
  BY <1>6 DEF CmdLen
<1>9. \A i \in 1 .. n : e[i - 1] < e[i]
  <2>1. ASSUME NEW i \in 1 .. n, i # 1 PROVE e[i - 1] < e[i]
    <3>1. i - 1 \in 1 .. n /\ i - 1 \in 1 .. n - 1 /\ i \in 1 .. len + 1 /\ i \in 0 .. len + 1 /\ i - 1 \in 0 .. len + 1
      BY <2>1
    <3>2. R[i - 1] # 0 /\ R[i - 1] \in 0 .. len /\ R[i] \in 0 .. len
      BY <1>5, <1>6, <3>1
    <3>3. R[i] < R[i - 1]
      BY <1>5, <2>1, <3>1, <3>2
    <3>. QED
      BY <1>8, <3>1, <3>2, <3>3 DEF CmdLen
  <2>2. e[1 - 1] < e[1]
    <3>1. 1 \in 1 .. n /\ 1 \in 0 .. len + 1 /\ 1 - 1 = 0
      BY <1>6
    <3>2. R[1] \in 0 .. len
      BY <1>5, <3>1
    <3>. QED
      BY <1>8, <3>1, <3>2 DEF CmdLen
  <2>. QED
    BY <2>1, <2>2
<1> HIDE DEF e
<1>10. \A i \in 0 .. n, m \in 0 .. n : i <= m => e[i] <= e[m]
  <2>1. \A i \in 1 .. n : i - 1 \in 0 .. n /\ i \in 0 .. n
    OBVIOUS
  <2>2. \A i \in 1 .. n : e[i - 1] <= e[i]
    BY <1>7, <1>9, <2>1
  <2>3. \A i \in 0 .. n : e[i] \in Nat
    BY <1>7
  <2>. QED
    BY <2>2, <2>3, Monotone
<1>11. fs = [i \in 1 .. n |-> frame(i)] /\ Len(fs) = n /\ \A i \in 1 .. n : fs[i] = frame(i)
  <2> HIDE DEF frame, fs
  <2>1. fs = [i \in 1 .. n |-> frame(i)]
    BY <1>2, <1>6
  <2>2. n \in Nat
    BY <1>6
  <2>. QED
    BY <2>1, <2>2
<1> HIDE DEF fs
<1>12. ASSUME NEW i \in 1 .. n
       PROVE  /\ fs[i].proto = p /\ fs[i].sid = sid /\ fs[i].packet = id /\ fs[i].total = len + CmdLen
              /\ At(fs[i]) = e[i - 1] /\ Upto(fs[i]) = e[i]
              /\ \A j \in 1 .. Len(fs[i].data) : fs[i].data[j] = <<id, Base(fs[i]) + j>>
              /\ fs[i].kind = IF n = 1 THEN "normal" ELSE IF i = 1 THEN "chunked_0" ELSE "chunked_n"
  <2>1. i \in 1 .. len + 1 /\ i - 1 \in 0 .. len + 1 /\ i \in 0 .. len + 1
    OBVIOUS
  <2>2. PICK a \in 0 .. len : a = R[i - 1]
    BY <1>5, <2>1
  <2>3. PICK b \in 0 .. len : b = R[i]
    BY <1>5, <2>1
  <2>4. b <= a /\ (i = 1 => a = len)
    BY <1>5, <2>1, <2>2, <2>3
  <2>5. PICK d : d = SubSeq(Payload(id, len), len - a + 1, len - b)
    OBVIOUS
  <2>6. Len(d) = a - b /\ \A j \in 1 .. a - b : d[j] = <<id, (len - a) + j>>
    <3>1. len - a + 1 \in 1 .. len + 1 /\ len - b \in 0 .. len /\ len - a + 1 <= len - b + 1
      BY <2>4
    <3>2. \A j \in len - a + 1 .. len - b : j \in 1 .. len
      BY <3>1
    <3>3. \A j \in 1 .. len : Payload(id, len)[j] = <<id, j>>
      BY DEF Payload
    <3>4. /\ Len(d) = IF len - a + 1 <= len - b THEN (len - b) - (len - a + 1) + 1 ELSE 0
          /\ \A j \in 1 .. (len - b) - (len - a + 1) + 1 :
               d[j] = Payload(id, len)[(len - a + 1) + j - 1]
      BY <2>5, <3>1, <3>2, <3>3, SubSeqProperties
    <3>5. Len(d) = a - b
      BY <2>4, <3>4
    <3>6. ASSUME NEW j \in 1 .. a - b PROVE d[j] = <<id, (len - a) + j>>
      <4>1. j \in 1 .. (len - b) - (len - a + 1) + 1
        BY <2>4
      <4>2. (len - a + 1) + j - 1 = (len - a) + j /\ (len - a) + j \in 1 .. len
        BY <2>4
      <4>3. d[j] = Payload(id, len)[(len - a) + j]
        BY <3>4, <4>1, <4>2
      <4>. QED
        BY <3>3, <4>2, <4>3
    <3>. QED
      BY <3>5, <3>6
  <2>7. PICK kind : kind = IF n = 1 THEN "normal" ELSE IF i = 1 THEN "chunked_0" ELSE "chunked_n"
    OBVIOUS
  <2>8. PICK f : f = [proto |-> p, sid |-> sid, packet |-> id, kind |-> kind, total |-> len + CmdLen, data |-> d]
    OBVIOUS
  <2>9. f = fs[i]
    <3>1. packet.payload = Payload(id, len) /\ packet.proto = p /\ packet.id = id
      OBVIOUS
    <3>. QED
      BY <1>1, <1>3, <1>6, <1>11, <2>2, <2>3, <2>5, <2>7, <2>8, <3>1
  <2>10. kind = "chunked_n" <=> i # 1
    BY <2>7
  <2>11. f.data = d /\ f.kind = kind /\ f.proto = p /\ f.sid = sid /\ f.packet = id /\ f.total = len + CmdLen
    BY <2>8
  <2>12. body_size(f) = (a - b) + (IF i = 1 THEN 1 ELSE 0)
    BY <2>6, <2>10, <2>11 DEF body_size, CmdLen
  <2>13. i # 1 => a - b > 0
    <3>1. i # 1 => i - 1 \in 1 .. n /\ i - 1 \in 1 .. n - 1
      OBVIOUS
    <3>2. i # 1 => a # 0
      BY <1>6, <2>2, <3>1
    <3>3. i # 1 => b = 0 \/ b < a
      BY <1>5, <2>1, <2>2, <2>3
    <3>. QED
      BY <2>4, <3>2, <3>3
  <2>14. Base(f) = len - a
    <3>1. CASE i = 1
      BY <2>4, <2>10, <2>11, <3>1 DEF Base
    <3>2. CASE i # 1
      <4>1. d[1] = <<id, (len - a) + 1>>
        BY <2>6, <2>13, <3>2
      <4>2. d[1][2] = (len - a) + 1
        BY <4>1
      <4>. QED
        BY <2>10, <2>11, <3>2, <4>2 DEF Base
    <3>. QED
      BY <3>1, <3>2
  <2>15. At(f) = e[i - 1]
    <3>1. CASE i = 1
      BY <1>8, <2>10, <2>11, <3>1 DEF At
    <3>2. CASE i # 1
      <4>1. i - 1 \in 1 .. n
        BY <3>2
      <4>2. e[i - 1] = CmdLen + len - a
        BY <1>8, <2>2, <4>1
      <4>. QED
        BY <2>10, <2>11, <2>14, <3>2, <4>2 DEF At, CmdLen
    <3>. QED
      BY <3>1, <3>2
  <2>16. Upto(f) = e[i]
    <3>1. e[i] = CmdLen + len - b
      BY <1>8, <2>3
    <3>2. CASE i = 1
      <4>1. At(f) = 0
        BY <2>10, <2>11, <3>2 DEF At
      <4>. QED
        BY <2>4, <2>12, <3>1, <3>2, <4>1 DEF Upto, CmdLen
    <3>3. CASE i # 1
      <4>1. At(f) = 1 + (len - a)
        BY <2>10, <2>11, <2>14, <3>3 DEF At, CmdLen
      <4>. QED
        BY <2>12, <3>1, <3>3, <4>1 DEF Upto, CmdLen
    <3>. QED
      BY <3>2, <3>3
  <2>. QED
    BY <2>6, <2>7, <2>9, <2>11, <2>14, <2>15, <2>16
<1> HIDE DEF frame, packet, L
<1>13. ASSUME NEW i \in 1 .. n
       PROVE  /\ At(fs[i]) \in Nat /\ Upto(fs[i]) \in Nat /\ At(fs[i]) < Upto(fs[i]) /\ Upto(fs[i]) <= len + CmdLen
              /\ fs[i].kind = "normal" <=> n = 1
              /\ fs[i].kind = "normal" => Upto(fs[i]) = len + CmdLen
              /\ fs[i].kind = "chunked_0" => Upto(fs[i]) < len + CmdLen
              /\ fs[i].kind = "chunked_n" => At(fs[i]) > 0
              /\ \A m \in 1 .. n : i < m => Upto(fs[i]) <= At(fs[m])
  <2>1. i - 1 \in 0 .. n /\ i \in 0 .. n /\ n \in 0 .. n
    OBVIOUS
  <2>2. At(fs[i]) = e[i - 1] /\ Upto(fs[i]) = e[i]
    BY <1>12
  <2>3. e[i - 1] \in Nat /\ e[i] \in Nat /\ e[i - 1] < e[i] /\ e[i] <= len + CmdLen
    BY <1>7, <1>9, <2>1
  <2>4. fs[i].kind = IF n = 1 THEN "normal" ELSE IF i = 1 THEN "chunked_0" ELSE "chunked_n"
    BY <1>12
  <2>5. n = 1 => e[i] = len + CmdLen
    BY <1>8
  <2>6. n # 1 /\ i = 1 => e[i] < len + CmdLen
    <3>1. n # 1 /\ i = 1 => e[i] <= e[n - 1] /\ n - 1 \in 0 .. n /\ n \in 1 .. n
      BY <1>10
    <3>2. n # 1 => e[n - 1] < e[n] /\ e[n - 1] \in Nat /\ e[n] \in Nat
      BY <1>7, <1>9
    <3>. QED
      BY <1>8, <2>3, <3>1, <3>2
  <2>7. i # 1 => e[i - 1] > 0
    <3>1. i # 1 => e[1] <= e[i - 1]
      BY <1>10, <2>1
    <3>2. e[1 - 1] < e[1] /\ 1 - 1 = 0 /\ e[1] \in Nat
      BY <1>7, <1>9
    <3>. QED
      BY <1>8, <2>3, <3>1, <3>2
  <2>8. ASSUME NEW m \in 1 .. n, i < m PROVE Upto(fs[i]) <= At(fs[m])
    <3>1. m - 1 \in 0 .. n /\ i <= m - 1
      BY <2>8
    <3>. QED
      BY <1>10, <1>12, <2>1, <3>1
  <2>. QED
    BY <2>2, <2>3, <2>4, <2>5, <2>6, <2>7, <2>8
<1>14. ASSUME NEW u \in 0 .. len + CmdLen - 1
       PROVE  \E i \in 1 .. n : At(fs[i]) <= u /\ u < Upto(fs[i])
  <2> DEFINE T == {i \in 1 .. n : u < e[i]}
  <2>0. u \in Nat
    OBVIOUS
  <2>1. n \in T /\ T \subseteq Nat
    BY <1>7, <1>8 DEF CmdLen
  <2>2. PICK i \in T : \A y \in T : i <= y
    BY <2>1, LeastNat
  <2>3. i \in 1 .. n /\ u < e[i]
    BY <2>2
  <2>4. e[i - 1] <= u
    <3>1. CASE i = 1
      BY <1>8, <2>0, <3>1
    <3>2. CASE i # 1
      <4>1. i - 1 \in 1 .. n /\ i - 1 \in 0 .. n
        BY <2>3, <3>2
      <4>2. i - 1 \notin T
        <5> HIDE DEF T
        <5>. QED
          BY <2>2, <2>3, <4>1
      <4>3. e[i - 1] \in Nat
        BY <1>7, <4>1
      <4>. QED
        BY <2>0, <4>1, <4>2, <4>3
    <3>. QED
      BY <3>1, <3>2
  <2>. QED
    BY <1>12, <2>3, <2>4
<1>15. IsCut(fs, p, sid, id, len)
  <2>1. Len(fs) = n /\ n \in Nat \ {0}
    BY <1>6, <1>11
  <2> HIDE DEF e
  <2>2. \A i \in 1 .. n :
          /\ fs[i].proto = p /\ fs[i].sid = sid /\ fs[i].packet = id /\ fs[i].total = len + CmdLen
          /\ \A j \in 1 .. Len(fs[i].data) : fs[i].data[j] = <<id, Base(fs[i]) + j>>
    BY <1>12
  <2>. QED
    BY <1>13, <1>14, <2>1, <2>2 DEF IsCut
<1>. QED
  BY <1>15 DEF fs, packet

-----------------------------------------------------------------------------
(* Frames under way, in the queues qs of the sender and the stream s.      *)

FlowType(qs, s) == qs \in [Ids -> Queued(FrameSet)] /\ s \in Seq(FrameSet)

InFlight(qs, s) ==
  {f \in FrameSet :
     \/ \E i \in 1 .. Len(s) : f = s[i]
     \/ \E p \in Ids, q \in QueueNames : \E i \in 1 .. Len(qs[p][q]) : f = qs[p][q][i]}

\* g comes after f: it is of a later packet, or later in the same one.
Follows(f, g) == f.packet < g.packet \/ (f.packet = g.packet /\ Upto(f) <= At(g))

\* Frames are in the queue of their packet, and those of one queue in order.
Lined(qs, s) ==
  /\ \A p \in Ids, q \in QueueNames : \A i \in 1 .. Len(qs[p][q]) :
        /\ qs[p][q][i].proto = p /\ added[qs[p][q][i].packet].proto = p /\ added[qs[p][q][i].packet].queue = q
        /\ \A k \in 1 .. Len(qs[p][q]) : i < k => Follows(qs[p][q][i], qs[p][q][k])
        /\ \A k \in 1 .. Len(s) :
             SameQueue(s[k].packet, qs[p][q][i].packet) => Follows(s[k], qs[p][q][i])
  /\ \A i, k \in 1 .. Len(s) : i < k /\ SameQueue(s[i].packet, s[k].packet) => Follows(s[i], s[k])

\* The head of a queue has gone to the end of the stream.
Moved(qs, s, qs2, s2, p, q) ==
  /\ qs[p][q] # <<>> /\ s2 = Append(s, Head(qs[p][q]))
  /\ qs2 \in [Ids -> Queued(FrameSet)] /\ qs2[p][q] = Tail(qs[p][q])
  /\ \A p1 \in Ids, q1 \in QueueNames : p1 # p \/ q1 # q => qs2[p1][q1] = qs[p1][q1]

LEMMA MovedIs ==
  ASSUME NEW qs, NEW s, FlowType(qs, s), NEW p \in Ids, NEW q \in QueueNames,
         NEW qs2, NEW s2, Moved(qs, s, qs2, s2, p, q)
  PROVE  /\ FlowType(qs2, s2)
         /\ Len(s2) = Len(s) + 1 /\ Len(s) \in Nat
         /\ \A i \in 1 .. Len(s) : s2[i] = s[i]
         /\ s2[Len(s) + 1] = qs[p][q][1] /\ Len(qs[p][q]) \in Nat \ {0}
         /\ Len(qs2[p][q]) = Len(qs[p][q]) - 1
         /\ \A i \in 1 .. Len(qs[p][q]) - 1 : qs2[p][q][i] = qs[p][q][i + 1]
         /\ \A p1 \in Ids, q1 \in QueueNames : p1 # p \/ q1 # q => qs2[p1][q1] = qs[p1][q1]
<1>1. PICK c \in Seq(FrameSet) : c = qs[p][q]
  BY DEF FlowType, Queued
<1>2. c # <<>> /\ s2 = Append(s, Head(c)) /\ qs2[p][q] = Tail(c) /\ qs2 \in [Ids -> Queued(FrameSet)]
      /\ s \in Seq(FrameSet)
  BY <1>1 DEF Moved, FlowType
<1>3. Head(c) \in FrameSet /\ Head(c) = c[1] /\ Len(c) \in Nat \ {0}
  BY <1>2, HeadTailProperties, EmptySeq
<1>4. /\ Len(Tail(c)) = Len(c) - 1
      /\ \A i \in 1 .. Len(Tail(c)) : Tail(c)[i] = c[i + 1]
  BY <1>2, HeadTailProperties
<1>5. /\ Append(s, Head(c)) \in Seq(FrameSet) /\ Len(Append(s, Head(c))) = Len(s) + 1
      /\ \A i \in 1 .. Len(s) : Append(s, Head(c))[i] = s[i]
      /\ Append(s, Head(c))[Len(s) + 1] = Head(c) /\ Len(s) \in Nat
  BY <1>2, <1>3, AppendProperties
<1>6. \A p1 \in Ids, q1 \in QueueNames : p1 # p \/ q1 # q => qs2[p1][q1] = qs[p1][q1]
  BY DEF Moved
<1>. QED
  BY <1>1, <1>2, <1>3, <1>4, <1>5, <1>6 DEF FlowType

LEMMA MoveKeepsFrames ==
  ASSUME NEW qs, NEW s, FlowType(qs, s), NEW p \in Ids, NEW q \in QueueNames,
         NEW qs2, NEW s2, Moved(qs, s, qs2, s2, p, q)
  PROVE  InFlight(qs2, s2) = InFlight(qs, s)
<1>1. PICK n \in Nat : n = Len(s)
  BY MovedIs
<1>2. PICK m \in Nat \ {0} : m = Len(qs[p][q])
  BY MovedIs
<1>3. /\ Len(s2) = n + 1 /\ \A i \in 1 .. n : s2[i] = s[i]
      /\ s2[n + 1] = qs[p][q][1]
      /\ Len(qs2[p][q]) = m - 1 /\ \A i \in 1 .. m - 1 : qs2[p][q][i] = qs[p][q][i + 1]
      /\ \A p1 \in Ids, q1 \in QueueNames : p1 # p \/ q1 # q => qs2[p1][q1] = qs[p1][q1]
  BY <1>1, <1>2, MovedIs
<1>4. ASSUME NEW f \in InFlight(qs, s) PROVE f \in InFlight(qs2, s2)
  <2>1. f \in FrameSet
    BY DEF InFlight
  <2>2. ASSUME NEW i \in 1 .. n, f = s[i] PROVE f \in InFlight(qs2, s2)
    <3>1. i \in 1 .. n + 1
      OBVIOUS
    <3>. QED
      BY <1>3, <2>1, <2>2, <3>1 DEF InFlight
  <2>3. ASSUME NEW p1 \in Ids, NEW q1 \in QueueNames, NEW i \in 1 .. Len(qs[p1][q1]), f = qs[p1][q1][i]
        PROVE  f \in InFlight(qs2, s2)
    <3>1. CASE p1 # p \/ q1 # q
      <4>1. qs2[p1][q1] = qs[p1][q1]
        BY <1>3, <3>1
      <4>2. i \in 1 .. Len(qs2[p1][q1]) /\ f = qs2[p1][q1][i]
        BY <2>3, <4>1
      <4>. QED
        BY <2>1, <4>2 DEF InFlight
    <3>2. CASE p1 = p /\ q1 = q /\ i = 1
      <4>1. n + 1 \in 1 .. n + 1 /\ f = s2[n + 1]
        BY <1>3, <2>3, <3>2
      <4>. QED
        BY <1>3, <2>1, <4>1 DEF InFlight
    <3>3. CASE p1 = p /\ q1 = q /\ i # 1
      <4>1. i \in 1 .. m
        BY <1>2, <3>3
      <4>2. i - 1 \in 1 .. m - 1 /\ (i - 1) + 1 = i
        BY <3>3, <4>1
      <4>3. i - 1 \in 1 .. Len(qs2[p][q]) /\ f = qs2[p][q][i - 1]
        BY <1>3, <2>3, <3>3, <4>2
      <4>. QED
        BY <2>1, <4>3 DEF InFlight
    <3>. QED
      BY <3>1, <3>2, <3>3
  <2>. QED
    BY <1>1, <2>2, <2>3 DEF InFlight
<1>5. ASSUME NEW f \in InFlight(qs2, s2) PROVE f \in InFlight(qs, s)
  <2>1. f \in FrameSet
    BY DEF InFlight
  <2>2. ASSUME NEW i \in 1 .. n + 1, f = s2[i] PROVE f \in InFlight(qs, s)
    <3>1. CASE i = n + 1
      <4>1. 1 \in 1 .. Len(qs[p][q]) /\ f = qs[p][q][1]
        BY <1>2, <1>3, <2>2, <3>1
      <4>. QED
        BY <2>1, <4>1 DEF InFlight
    <3>2. CASE i # n + 1
      <4>1. i \in 1 .. n
        BY <3>2
      <4>. QED
        BY <1>1, <1>3, <2>1, <2>2, <4>1 DEF InFlight
    <3>. QED
      BY <3>1, <3>2
  <2>3. ASSUME NEW p1 \in Ids, NEW q1 \in QueueNames, NEW i \in 1 .. Len(qs2[p1][q1]), f = qs2[p1][q1][i]
        PROVE  f \in InFlight(qs, s)
    <3>1. CASE p1 # p \/ q1 # q
      <4>1. qs2[p1][q1] = qs[p1][q1]
        BY <1>3, <3>1
      <4>2. i \in 1 .. Len(qs[p1][q1]) /\ f = qs[p1][q1][i]
        BY <2>3, <4>1
      <4>. QED
        BY <2>1, <4>2 DEF InFlight
    <3>2. CASE p1 = p /\ q1 = q
      <4>1. i \in 1 .. m - 1
        BY <1>3, <3>2
      <4>2. i + 1 \in 1 .. Len(qs[p][q]) /\ f = qs[p][q][i + 1]
        BY <1>2, <1>3, <2>3, <3>2, <4>1
      <4>. QED
        BY <2>1, <4>2 DEF InFlight
    <3>. QED
      BY <3>1, <3>2
  <2>. QED
    BY <1>3, <2>2, <2>3 DEF InFlight
<1>. QED
  BY <1>4, <1>5

LEMMA MoveKeepsLines ==
  ASSUME NEW qs, NEW s, FlowType(qs, s), Lined(qs, s), NEW p \in Ids, NEW q \in QueueNames,
         NEW qs2, NEW s2, Moved(qs, s, qs2, s2, p, q)
  PROVE  Lined(qs2, s2)
<1>1. PICK n \in Nat : n = Len(s)
  BY MovedIs
<1>2. PICK m \in Nat \ {0} : m = Len(qs[p][q])
  BY MovedIs
<1>3. /\ Len(s2) = n + 1 /\ \A i \in 1 .. n : s2[i] = s[i]
      /\ s2[n + 1] = qs[p][q][1]
      /\ Len(qs2[p][q]) = m - 1 /\ \A i \in 1 .. m - 1 : qs2[p][q][i] = qs[p][q][i + 1]
      /\ \A p1 \in Ids, q1 \in QueueNames : p1 # p \/ q1 # q => qs2[p1][q1] = qs[p1][q1]
  BY <1>1, <1>2, MovedIs
<1>4. \A p1 \in Ids, q1 \in QueueNames : \A i \in 1 .. Len(qs2[p1][q1]) :
        \E k \in 1 .. Len(qs[p1][q1]) :
          /\ qs2[p1][q1][i] = qs[p1][q1][k]
          /\ IF p1 = p /\ q1 = q THEN k = i + 1 ELSE k = i
  <2> TAKE p1 \in Ids, q1 \in QueueNames
  <2> TAKE i \in 1 .. Len(qs2[p1][q1])
  <2>1. CASE p1 = p /\ q1 = q
    <3>1. i \in 1 .. m - 1
      BY <1>3, <2>1
    <3>2. i + 1 \in 1 .. m
      BY <3>1
    <3>. QED
      BY <1>2, <1>3, <2>1, <3>1, <3>2
  <2>2. CASE ~ (p1 = p /\ q1 = q)
    <3>1. qs2[p1][q1] = qs[p1][q1]
      BY <1>3, <2>2
    <3>. QED
      BY <2>2, <3>1
  <2>. QED
    BY <2>1, <2>2
<1>5. \A i \in 1 .. n + 1 : s2[i] = IF i = n + 1 THEN qs[p][q][1] ELSE s[i]
  <2> TAKE i \in 1 .. n + 1
  <2>1. i # n + 1 => i \in 1 .. n
    OBVIOUS
  <2>. QED
    BY <1>3, <2>1
<1>6. ASSUME NEW p1 \in Ids, NEW q1 \in QueueNames, NEW i \in 1 .. Len(qs2[p1][q1])
      PROVE  /\ qs2[p1][q1][i].proto = p1 /\ added[qs2[p1][q1][i].packet].proto = p1
             /\ added[qs2[p1][q1][i].packet].queue = q1
             /\ \A k \in 1 .. Len(qs2[p1][q1]) : i < k => Follows(qs2[p1][q1][i], qs2[p1][q1][k])
             /\ \A k \in 1 .. Len(s2) :
                  SameQueue(s2[k].packet, qs2[p1][q1][i].packet) => Follows(s2[k], qs2[p1][q1][i])
  <2>1. PICK x \in 1 .. Len(qs[p1][q1]) :
          /\ qs2[p1][q1][i] = qs[p1][q1][x]
          /\ IF p1 = p /\ q1 = q THEN x = i + 1 ELSE x = i
    BY <1>4
  <2>2. /\ qs[p1][q1][x].proto = p1 /\ added[qs[p1][q1][x].packet].proto = p1
        /\ added[qs[p1][q1][x].packet].queue = q1
        /\ \A k \in 1 .. Len(qs[p1][q1]) : x < k => Follows(qs[p1][q1][x], qs[p1][q1][k])
        /\ \A k \in 1 .. n : SameQueue(s[k].packet, qs[p1][q1][x].packet) => Follows(s[k], qs[p1][q1][x])
    BY <1>1 DEF Lined
  <2>3. ASSUME NEW k \in 1 .. Len(qs2[p1][q1]), i < k PROVE Follows(qs2[p1][q1][i], qs2[p1][q1][k])
    <3>1. PICK y \in 1 .. Len(qs[p1][q1]) :
            /\ qs2[p1][q1][k] = qs[p1][q1][y]
            /\ IF p1 = p /\ q1 = q THEN y = k + 1 ELSE y = k
      BY <1>4
    <3>2. x < y
      BY <2>1, <2>3, <3>1
    <3>. QED
      BY <2>1, <2>2, <3>1, <3>2
  <2>4. ASSUME NEW k \in 1 .. n + 1, SameQueue(s2[k].packet, qs2[p1][q1][i].packet)
        PROVE  Follows(s2[k], qs2[p1][q1][i])
    <3>1. CASE k = n + 1
      <4>1. s2[k] = qs[p][q][1] /\ 1 \in 1 .. Len(qs[p][q])
        BY <1>2, <1>5, <3>1
      <4>2. added[qs[p][q][1].packet].proto = p /\ added[qs[p][q][1].packet].queue = q
        BY <4>1 DEF Lined
      <4>3. p1 = p /\ q1 = q
        BY <2>1, <2>2, <2>4, <4>1, <4>2 DEF SameQueue
      <4>4. x = i + 1
        BY <2>1, <4>3
      <4>5. 1 < x
        BY <4>4
      <4>6. Follows(qs[p][q][1], qs[p][q][x])
        BY <4>1, <4>3, <4>5 DEF Lined
      <4>. QED
        BY <2>1, <4>1, <4>3, <4>6
    <3>2. CASE k # n + 1
      <4>1. k \in 1 .. n
        BY <3>2
      <4>. QED
        BY <1>5, <2>1, <2>2, <2>4, <3>2, <4>1
    <3>. QED
      BY <3>1, <3>2
  <2>. QED
    BY <1>3, <2>1, <2>2, <2>3, <2>4
<1>7. ASSUME NEW i \in 1 .. n + 1, NEW k \in 1 .. n + 1, i < k, SameQueue(s2[i].packet, s2[k].packet)
      PROVE  Follows(s2[i], s2[k])
  <2>1. i \in 1 .. n /\ s2[i] = s[i]
    BY <1>5, <1>7
  <2>2. CASE k = n + 1
    <3>1. s2[k] = qs[p][q][1] /\ 1 \in 1 .. Len(qs[p][q])
      BY <1>2, <1>5, <2>2
    <3>. QED
      BY <1>1, <1>7, <2>1, <3>1 DEF Lined
  <2>3. CASE k # n + 1
    <3>1. k \in 1 .. n /\ s2[k] = s[k]
      BY <1>5, <2>3
    <3>. QED
      BY <1>1, <1>7, <2>1, <3>1 DEF Lined
  <2>. QED
    BY <2>2, <2>3
<1>. QED
  BY <1>3, <1>6, <1>7 DEF Lined

-----------------------------------------------------------------------------
(* Packets arriving: got[id] is how much of the body of packet id has.     *)

AddedOK ==
  /\ added \in Seq([id : Nat, proto : Ids, queue : QueueNames, len : Nat])
  /\ \A i \in DOMAIN added : added[i].id = i

\* Packets of p among the first n.
Count(p, n) == Cardinality({j \in 1 .. n : added[j].proto = p})

\* The sequence id that add_packet gave packet id.
Sid(id) == Count(added[id].proto, id - 1) % SidMod

\* f holds a stretch of the packet it was cut from.
FrameOK(f) ==
  /\ f.packet \in DOMAIN added /\ f.proto = added[f.packet].proto
  /\ f.sid = Sid(f.packet) /\ f.total = Whole(f.packet)
  /\ At(f) \in Nat /\ Upto(f) \in Nat /\ At(f) < Upto(f) /\ Upto(f) <= Whole(f.packet)
  /\ \A j \in 1 .. Len(f.data) : f.data[j] = <<f.packet, Base(f) + j>>
  /\ f.kind = "normal" <=> added[f.packet].queue # "chunked"
  /\ f.kind = "normal" => Upto(f) = Whole(f.packet)
  /\ f.kind = "chunked_0" => Upto(f) < Whole(f.packet)
  /\ f.kind = "chunked_n" => At(f) > 0

Message == [id : Nat, proto : Ids, payload : Seq(Nat \X Nat)]

Done(dec, id) == \E n \in 1 .. Len(dec) : dec[n].id = id

Partial(got, id) == 0 < got[id] /\ got[id] < Whole(id)

\* The buffer of a packet of which t units of the body have come.
Buffer(id, t) == [payload |-> Payload(id, t - CmdLen), total |-> added[id].len]

\* A packet that came in part has the buffer with its sequence id, and there are no
\* other buffers; the packets of a queue come one after the other.
Progress(got, dec, bufs) ==
  /\ got \in [DOMAIN added -> Nat] /\ DOMAIN bufs = Ids
  /\ \A id \in DOMAIN added : got[id] <= Whole(id) /\ (got[id] = Whole(id) <=> Done(dec, id))
  /\ \A id \in DOMAIN added : Partial(got, id) =>
        /\ added[id].queue = "chunked" /\ Sid(id) \in DOMAIN bufs[added[id].proto]
        /\ bufs[added[id].proto][Sid(id)] = Buffer(id, got[id])
  /\ \A p \in Ids : \A sd \in DOMAIN bufs[p] :
        \E id \in DOMAIN added : added[id].proto = p /\ Sid(id) = sd /\ Partial(got, id)
  /\ \A i, k \in DOMAIN added : i < k /\ SameQueue(i, k) /\ got[k] > 0 => got[i] = Whole(i)

\* Packets of a protocol that have not come have different sequence ids.
OpenDiffer(got) ==
  \A i, k \in DOMAIN added :
     i # k /\ added[i].proto = added[k].proto /\ got[i] < Whole(i) /\ got[k] < Whole(k)
       => Sid(i) # Sid(k)

\* What has not come of a packet is under way, and nothing else is.
Carried(got, qs, s) ==
  /\ \A f \in InFlight(qs, s) : FrameOK(f) /\ got[f.packet] <= At(f)
  /\ \A id \in DOMAIN added : \A u \in got[id] .. Whole(id) - 1 :
        \E f \in InFlight(qs, s) : f.packet = id /\ At(f) <= u /\ u < Upto(f)

LEMMA AddedIs ==
  ASSUME AddedOK
  PROVE  /\ DOMAIN added = 1 .. Len(added) /\ Len(added) \in Nat
         /\ \A id \in DOMAIN added : /\ added[id].id = id /\ added[id].proto \in Ids /\ added[id].len \in Nat
                                     /\ Whole(id) \in Nat \ {0} /\ Whole(id) = added[id].len + 1 /\ id \in Nat \ {0}
<1>1. DOMAIN added = 1 .. Len(added) /\ Len(added) \in Nat
  BY DEF AddedOK
<1>2. ASSUME NEW id \in DOMAIN added
      PROVE  /\ added[id].id = id /\ added[id].proto \in Ids /\ added[id].len \in Nat /\ id \in Nat \ {0}
             /\ Whole(id) \in Nat \ {0} /\ Whole(id) = added[id].len + 1
  <2>1. added[id] \in [id : Nat, proto : Ids, queue : QueueNames, len : Nat]
    <3>1. PICK S : S = [id : Nat, proto : Ids, queue : QueueNames, len : Nat]
      OBVIOUS
    <3>2. added \in Seq(S) /\ id \in 1 .. Len(added)
      BY <1>1, <3>1 DEF AddedOK
    <3>. QED
      BY <3>1, <3>2, ElementOfSeq
  <2>2. PICK n \in Nat : n = added[id].len
    BY <2>1
  <2>. QED
    BY <1>1, <2>1, <2>2 DEF AddedOK, Whole, CmdLen
<1>. QED
  BY <1>1, <1>2

LEMMA TailIs ==
  ASSUME NEW qs, NEW s, FlowType(qs, s), s # <<>>
  PROVE  /\ Len(s) \in Nat \ {0} /\ s[1] \in FrameSet /\ Head(s) = s[1] /\ s[1] \in InFlight(qs, s)
         /\ FlowType(qs, Tail(s)) /\ Len(Tail(s)) = Len(s) - 1
         /\ \A i \in 1 .. Len(s) - 1 : Tail(s)[i] = s[i + 1]
<1>1. s \in Seq(FrameSet)
  BY DEF FlowType
<1>2. /\ Len(s) \in Nat \ {0} /\ Head(s) \in FrameSet /\ Head(s) = s[1]
      /\ Tail(s) \in Seq(FrameSet) /\ Len(Tail(s)) = Len(s) - 1
      /\ \A i \in 1 .. Len(Tail(s)) : Tail(s)[i] = s[i + 1]
  BY <1>1, HeadTailProperties, EmptySeq
<1>3. 1 \in 1 .. Len(s)
  BY <1>2
<1>. QED
  BY <1>2, <1>3 DEF FlowType, InFlight

\* The frame at the head of the stream has all the others of its queue behind it.
LEMMA HeadFirst ==
  ASSUME NEW qs, NEW s, FlowType(qs, s), s # <<>>, Lined(qs, s)
  PROVE  /\ \A g \in InFlight(qs, Tail(s)) :
              g \in InFlight(qs, s) /\ (SameQueue(s[1].packet, g.packet) => Follows(s[1], g))
         /\ \A g \in InFlight(qs, s) : g # s[1] => g \in InFlight(qs, Tail(s))
         /\ Lined(qs, Tail(s))
<1>1. PICK n \in Nat \ {0} : n = Len(s)
  BY TailIs
<1>2. PICK t : t = Tail(s)
  OBVIOUS
<1>3. Len(t) = n - 1 /\ \A i \in 1 .. n - 1 : t[i] = s[i + 1]
  BY <1>1, <1>2, TailIs
<1>4. \A i \in 1 .. n - 1 : i + 1 \in 1 .. n /\ 1 \in 1 .. n /\ 1 < i + 1
  OBVIOUS
<1>5. ASSUME NEW g \in InFlight(qs, t)
      PROVE  g \in InFlight(qs, s) /\ (SameQueue(s[1].packet, g.packet) => Follows(s[1], g))
  <2>1. CASE \E i \in 1 .. n - 1 : g = t[i]
    BY <1>1, <1>3, <1>4, <1>5, <2>1 DEF InFlight, Lined
  <2>2. CASE \E p \in Ids, q \in QueueNames : \E i \in 1 .. Len(qs[p][q]) : g = qs[p][q][i]
    <3>1. 1 \in 1 .. n
      OBVIOUS
    <3>. QED
      BY <1>1, <1>5, <2>2, <3>1 DEF InFlight, Lined
  <2>. QED
    BY <1>3, <1>5, <2>1, <2>2 DEF InFlight
<1>6. ASSUME NEW g \in InFlight(qs, s), g # s[1] PROVE g \in InFlight(qs, t)
  <2>1. ASSUME NEW i \in 1 .. n, g = s[i] PROVE g \in InFlight(qs, t)
    <3>1. i - 1 \in 1 .. n - 1 /\ (i - 1) + 1 = i
      BY <1>6, <2>1
    <3>2. g = t[i - 1]
      BY <1>3, <2>1, <3>1
    <3>. QED
      BY <1>3, <1>6, <3>1, <3>2 DEF InFlight
  <2>. QED
    BY <1>1, <1>6, <2>1 DEF InFlight
<1>7. Lined(qs, t)
  <2>1. ASSUME NEW p \in Ids, NEW q \in QueueNames, NEW i \in 1 .. Len(qs[p][q]), NEW k \in 1 .. n - 1,
               SameQueue(t[k].packet, qs[p][q][i].packet)
        PROVE  Follows(t[k], qs[p][q][i])
    <3>1. k + 1 \in 1 .. n /\ t[k] = s[k + 1]
      BY <1>3
    <3>. QED
      BY <1>1, <2>1, <3>1 DEF Lined
  <2>2. ASSUME NEW i \in 1 .. n - 1, NEW k \in 1 .. n - 1, i < k, SameQueue(t[i].packet, t[k].packet)
        PROVE  Follows(t[i], t[k])
    <3>1. i + 1 \in 1 .. n /\ k + 1 \in 1 .. n /\ i + 1 < k + 1 /\ t[i] = s[i + 1] /\ t[k] = s[k + 1]
      BY <1>3, <2>2
    <3>. QED
      BY <1>1, <2>2, <3>1 DEF Lined
  <2>. QED
    BY <1>3, <2>1, <2>2 DEF Lined
<1>. QED
  BY <1>2, <1>5, <1>6, <1>7

\* The frame at the head of the stream is the next one its packet waits for, and
\* the earlier packets of the queue have come.
LEMMA HeadNext ==
  ASSUME AddedOK, NEW qs, NEW s, FlowType(qs, s), s # <<>>, Lined(qs, s),
         NEW got, got \in [DOMAIN added -> Nat], Carried(got, qs, s)
  PROVE  /\ FrameOK(s[1]) /\ At(s[1]) = got[s[1].packet]
         /\ \A k \in DOMAIN added : k < s[1].packet /\ SameQueue(k, s[1].packet) => got[k] >= Whole(k)
<1>1. PICK f \in InFlight(qs, s) : f = s[1]
  BY TailIs
<1>2. FrameOK(f) /\ got[f.packet] <= At(f)
  BY <1>1 DEF Carried
<1>3. \A g \in InFlight(qs, s) : SameQueue(f.packet, g.packet) => g = f \/ Follows(f, g)
  BY <1>1, HeadFirst
<1>4. PICK id \in DOMAIN added : id = f.packet
  BY <1>2 DEF FrameOK
<1>5. PICK a \in Nat : a = At(f)
  BY <1>2 DEF FrameOK
<1>6. PICK b \in Nat : b = Upto(f)
  BY <1>2 DEF FrameOK
<1>7. PICK w \in Nat : w = Whole(id)
  BY AddedIs
<1>8. a < b /\ b <= w
  BY <1>2, <1>4, <1>5, <1>6, <1>7 DEF FrameOK
<1>9. PICK x \in Nat : x = got[id]
  OBVIOUS
<1>10. x = a
  <2> SUFFICES ASSUME x < a PROVE FALSE
    BY <1>2, <1>4, <1>5, <1>9
  <2>1. x \in x .. w - 1
    BY <1>8
  <2>2. PICK g \in InFlight(qs, s) : g.packet = id /\ At(g) <= x /\ x < Upto(g)
    BY <1>7, <1>9, <2>1 DEF Carried
  <2>3. At(g) \in Nat
    BY <2>2 DEF Carried, FrameOK
  <2>4. g = f \/ b <= At(g)
    <3>1. SameQueue(f.packet, g.packet) /\ id \in Nat
      BY <1>4, <2>2, AddedIs DEF SameQueue
    <3>. QED
      BY <1>3, <1>4, <1>6, <2>2, <3>1 DEF Follows
  <2>. QED
    BY <1>5, <1>8, <2>2, <2>3, <2>4
<1>11. ASSUME NEW k \in DOMAIN added, k < id, SameQueue(k, id) PROVE got[k] >= Whole(k)
  <2>1. PICK y \in Nat : y = got[k]
    OBVIOUS
  <2>2. PICK v \in Nat : v = Whole(k)
    BY AddedIs
  <2> SUFFICES ASSUME y < v PROVE FALSE
    BY <2>1, <2>2
  <2>3. y \in y .. v - 1
    OBVIOUS
  <2>4. PICK g \in InFlight(qs, s) : g.packet = k
    BY <2>1, <2>2, <2>3 DEF Carried
  <2>5. SameQueue(f.packet, g.packet)
    BY <1>4, <1>11, <2>4 DEF SameQueue
  <2>6. k \in Nat /\ id \in Nat
    BY AddedIs
  <2>. QED
    BY <1>3, <1>4, <1>11, <2>4, <2>5, <2>6 DEF Follows
<1>. QED
  BY <1>1, <1>2, <1>4, <1>5, <1>9, <1>10, <1>11

\* The buffers bufs2 are bufs with buf for packets of p with sequence id sd.
Put(bufs, bufs2, p, sd, buf) ==
  /\ DOMAIN bufs2 = Ids /\ \A x \in Ids : x # p => bufs2[x] = bufs[x]
  /\ DOMAIN bufs2[p] = DOMAIN bufs[p] \cup {sd} /\ bufs2[p][sd] = buf
  /\ \A y \in DOMAIN bufs[p] : y # sd => bufs2[p][y] = bufs[p][y]

\* The buffers bufs2 are bufs without the one for packets of p with sequence id sd.
Dropped(bufs, bufs2, p, sd) ==
  /\ DOMAIN bufs2 = Ids /\ \A x \in Ids : x # p => bufs2[x] = bufs[x]
  /\ DOMAIN bufs2[p] = DOMAIN bufs[p] \ {sd}
  /\ \A y \in DOMAIN bufs[p] : y # sd => bufs2[p][y] = bufs[p][y]

\* Packet id as it is to arrive.
Arrival(id) == [id |-> id, proto |-> added[id].proto, payload |-> Payload(id, added[id].len)]

\* Packet id has t units now: it waits in its buffer for more, or is passed on.
Advance(got, dec, bufs, id, t, dec2, bufs2) ==
  \/ /\ t < Whole(id) /\ added[id].queue = "chunked" /\ dec2 = dec
     /\ Put(bufs, bufs2, added[id].proto, Sid(id), Buffer(id, t))
  \/ /\ t = Whole(id) /\ dec2 = Append(dec, Arrival(id))
     /\ Dropped(bufs, bufs2, added[id].proto, Sid(id))

LEMMA PayloadIs ==
  ASSUME NEW id \in Nat, NEW n \in Nat
  PROVE  Payload(id, n) \in Seq(Nat \X Nat) /\ Len(Payload(id, n)) = n /\ \A i \in 1 .. n : Payload(id, n)[i] = <<id, i>>
<1>1. \A i \in 1 .. n : <<id, i>> \in Nat \X Nat
  OBVIOUS
<1>. QED
  BY <1>1 DEF Payload

LEMMA ArrivalIs ==
  ASSUME AddedOK, NEW id \in DOMAIN added
  PROVE  Arrival(id) \in Message /\ Arrival(id).id = id
<1>1. id \in Nat /\ added[id].proto \in Ids /\ added[id].len \in Nat
  BY AddedIs
<1>2. Payload(id, added[id].len) \in Seq(Nat \X Nat)
  BY <1>1, PayloadIs
<1>. QED
  BY <1>1, <1>2 DEF Arrival, Message

LEMMA DoneIs ==
  ASSUME NEW dec \in Seq(Message), NEW m \in Message, NEW id
  PROVE  Done(Append(dec, m), id) <=> Done(dec, id) \/ m.id = id
<1>1. PICK n \in Nat : n = Len(dec)
  OBVIOUS
<1>2. PICK d : d = Append(dec, m)
  OBVIOUS
<1>3. Len(d) = n + 1 /\ d[n + 1] = m /\ \A i \in 1 .. n : d[i] = dec[i]
  BY <1>1, <1>2, AppendProperties
<1>4. \A i \in 1 .. n + 1 : i = n + 1 \/ i \in 1 .. n
  OBVIOUS
<1>5. n + 1 \in 1 .. n + 1 /\ \A i \in 1 .. n : i \in 1 .. n + 1
  OBVIOUS
<1>. QED
  BY <1>1, <1>2, <1>3, <1>4, <1>5 DEF Done

LEMMA ProgressMade ==
  ASSUME AddedOK, NEW got, NEW dec \in Seq(Message), NEW bufs, Progress(got, dec, bufs), OpenDiffer(got),
         NEW id \in DOMAIN added, NEW t \in Nat, got[id] < t, t <= Whole(id),
         \A k \in DOMAIN added : k < id /\ SameQueue(k, id) => got[k] >= Whole(k),
         NEW dec2, NEW bufs2, Advance(got, dec, bufs, id, t, dec2, bufs2),
         NEW got2, got2 = [got EXCEPT ![id] = t]
  PROVE  Progress(got2, dec2, bufs2) /\ OpenDiffer(got2)
<1>1. got \in [DOMAIN added -> Nat] /\ DOMAIN bufs = Ids
  BY DEF Progress
<1>2. \A k \in DOMAIN added : Whole(k) \in Nat /\ got[k] \in Nat /\ got[k] <= Whole(k) /\ k \in Nat
  BY <1>1, AddedIs DEF Progress
<1>3. got2 \in [DOMAIN added -> Nat] /\ got2[id] = t /\ \A k \in DOMAIN added : k # id => got2[k] = got[k]
  BY <1>1
<1>4. got[id] < Whole(id) /\ t > 0
  BY <1>2
<1>5. PICK p \in Ids : p = added[id].proto
  BY AddedIs
<1>6. PICK sd : sd = Sid(id)
  OBVIOUS
\* Another packet under way has another buffer.
<1>7. ASSUME NEW k \in DOMAIN added, k # id, Partial(got, k), added[k].proto = p PROVE Sid(k) # sd
  <2>1. got[k] < Whole(k)
    BY <1>7 DEF Partial
  <2>. QED
    BY <1>4, <1>5, <1>6, <1>7, <2>1 DEF OpenDiffer
<1>8. \A k \in DOMAIN added : k # id => (Partial(got2, k) <=> Partial(got, k))
  BY <1>3 DEF Partial
<1>9. Partial(got2, id) <=> t < Whole(id)
  BY <1>3, <1>4 DEF Partial
<1>10. DOMAIN bufs2 = Ids /\ \A x \in Ids : x # p => bufs2[x] = bufs[x]
  BY <1>5 DEF Advance, Put, Dropped
<1>11. DOMAIN bufs2[p] \ {sd} = DOMAIN bufs[p] \ {sd} /\ \A y \in DOMAIN bufs[p] : y # sd => bufs2[p][y] = bufs[p][y]
  <2>1. CASE Put(bufs, bufs2, p, sd, Buffer(id, t))
    BY <2>1 DEF Put
  <2>2. CASE Dropped(bufs, bufs2, p, sd)
    BY <2>2 DEF Dropped
  <2>. QED
    BY <1>5, <1>6, <2>1, <2>2 DEF Advance
<1>12. IF t < Whole(id) THEN sd \in DOMAIN bufs2[p] /\ bufs2[p][sd] = Buffer(id, t) /\ added[id].queue = "chunked"
       ELSE sd \notin DOMAIN bufs2[p]
  <2>1. CASE t < Whole(id)
    BY <1>2, <1>5, <1>6, <2>1 DEF Advance, Put
  <2>2. CASE ~ (t < Whole(id))
    BY <1>2, <1>5, <1>6, <2>2 DEF Advance, Dropped
  <2>. QED
    BY <2>1, <2>2
<1>12a. \A k : Done(dec2, k) <=> Done(dec, k) \/ (k = id /\ t = Whole(id))
  <2>1. CASE t < Whole(id)
    <3>1. dec2 = dec /\ t # Whole(id)
      BY <1>2, <2>1 DEF Advance
    <3>. QED
      BY <3>1
  <2>2. CASE ~ (t < Whole(id))
    <3>1. PICK m \in Message : m.id = id /\ dec2 = Append(dec, m)
      <4>1. dec2 = Append(dec, Arrival(id))
        BY <2>2 DEF Advance
      <4>. QED
        BY <4>1, ArrivalIs
    <3>2. t = Whole(id)
      BY <1>2, <2>2
    <3>. QED
      BY <3>1, <3>2, DoneIs
  <2>. QED
    BY <2>1, <2>2
<1>13. ASSUME NEW k \in DOMAIN added
       PROVE  got2[k] <= Whole(k) /\ (got2[k] = Whole(k) <=> Done(dec2, k))
  <2>1. got[k] = Whole(k) <=> Done(dec, k)
    BY DEF Progress
  <2>2. CASE k # id
    <3>1. Done(dec2, k) <=> Done(dec, k)
      BY <1>12a, <2>2
    <3>. QED
      BY <1>2, <1>3, <2>1, <2>2, <3>1
  <2>3. CASE k = id
    <3>1. ~ Done(dec, id)
      BY <1>2, <1>4, <2>1, <2>3
    <3>2. Done(dec2, id) <=> t = Whole(id)
      BY <1>12a, <3>1
    <3>. QED
      BY <1>3, <2>3, <3>2
  <2>. QED
    BY <2>2, <2>3
<1>14. ASSUME NEW k \in DOMAIN added, Partial(got2, k)
       PROVE  /\ added[k].queue = "chunked" /\ Sid(k) \in DOMAIN bufs2[added[k].proto]
              /\ bufs2[added[k].proto][Sid(k)] = Buffer(k, got2[k])
  <2>1. CASE k = id
    BY <1>3, <1>5, <1>6, <1>9, <1>12, <1>14, <2>1
  <2>2. CASE k # id
    <3>1. /\ added[k].queue = "chunked" /\ Sid(k) \in DOMAIN bufs[added[k].proto]
          /\ bufs[added[k].proto][Sid(k)] = Buffer(k, got[k])
      BY <1>8, <1>14, <2>2 DEF Progress
    <3>2. PICK r \in Ids : r = added[k].proto
      BY AddedIs
    <3>3. CASE r = p
      <4>1. Sid(k) # sd
        BY <1>7, <1>8, <1>14, <2>2, <3>2, <3>3
      <4>. QED
        BY <1>3, <1>11, <2>2, <3>1, <3>2, <3>3, <4>1
    <3>4. CASE r # p
      BY <1>3, <1>10, <2>2, <3>1, <3>2, <3>4
    <3>. QED
      BY <3>3, <3>4
  <2>. QED
    BY <2>1, <2>2
<1>15. ASSUME NEW r \in Ids, NEW sx \in DOMAIN bufs2[r]
       PROVE  \E k \in DOMAIN added : added[k].proto = r /\ Sid(k) = sx /\ Partial(got2, k)
  <2>1. CASE r = p /\ sx = sd
    <3>1. t < Whole(id)
      BY <1>12, <1>15, <2>1
    <3>. QED
      BY <1>5, <1>6, <1>9, <2>1, <3>1
  <2>2. CASE ~ (r = p /\ sx = sd)
    <3>1. sx \in DOMAIN bufs[r]
      BY <1>10, <1>11, <1>15, <2>2
    <3>2. PICK k \in DOMAIN added : added[k].proto = r /\ Sid(k) = sx /\ Partial(got, k)
      BY <3>1 DEF Progress
    <3>3. k # id
      BY <1>5, <1>6, <2>2, <3>2
    <3>. QED
      BY <1>8, <3>2, <3>3
  <2>. QED
    BY <2>1, <2>2
<1>16. ASSUME NEW i \in DOMAIN added, NEW k \in DOMAIN added, i < k, SameQueue(i, k), got2[k] > 0
       PROVE  got2[i] = Whole(i)
  <2>1. CASE k = id
    <3>1. got[i] >= Whole(i) /\ i # id
      BY <1>2, <1>16, <2>1
    <3>. QED
      BY <1>2, <1>3, <3>1
  <2>2. CASE k # id
    <3>1. got[i] = Whole(i)
      BY <1>3, <1>16, <2>2 DEF Progress
    <3>2. i # id
      BY <1>2, <1>4, <3>1
    <3>. QED
      BY <1>3, <3>1, <3>2
  <2>. QED
    BY <2>1, <2>2
<1>17. Progress(got2, dec2, bufs2)
  BY <1>3, <1>10, <1>13, <1>14, <1>15, <1>16 DEF Progress
<1>18. \A k \in DOMAIN added : got2[k] < Whole(k) => got[k] < Whole(k)
  BY <1>3, <1>4
<1>19. OpenDiffer(got2)
  BY <1>18 DEF OpenDiffer
<1>. QED
  BY <1>17, <1>19

\* The head of the stream has been decoded: nothing of it is under way any more.
LEMMA CarriedOn ==
  ASSUME AddedOK, NEW qs, NEW s, FlowType(qs, s), s # <<>>, Lined(qs, s),
         NEW got, got \in [DOMAIN added -> Nat], Carried(got, qs, s),
         NEW got2, got2 = [got EXCEPT ![s[1].packet] = Upto(s[1])]
  PROVE  Carried(got2, qs, Tail(s))
<1>1. PICK f \in InFlight(qs, s) : f = s[1]
  BY TailIs
<1>2. FrameOK(f) /\ At(f) = got[f.packet]
  BY <1>1, HeadNext
<1>3. PICK id \in DOMAIN added : id = f.packet
  BY <1>2 DEF FrameOK
<1>4. got2[id] = Upto(f) /\ \A k \in DOMAIN added : k # id => got2[k] = got[k]
  BY <1>1, <1>3
<1>5. Upto(f) \in Nat /\ At(f) \in Nat /\ At(f) < Upto(f)
  BY <1>2 DEF FrameOK
<1>6. ASSUME NEW g \in InFlight(qs, Tail(s)) PROVE FrameOK(g) /\ got2[g.packet] <= At(g)
  <2>1. FrameOK(g) /\ got[g.packet] <= At(g) /\ (SameQueue(f.packet, g.packet) => Follows(f, g))
    BY <1>1, <1>6, HeadFirst DEF Carried
  <2>2. g.packet \in DOMAIN added
    BY <2>1 DEF FrameOK
  <2>3. CASE g.packet = id
    <3>1. SameQueue(f.packet, g.packet) /\ id \in Nat
      BY <1>3, <2>3, AddedIs DEF SameQueue
    <3>2. Upto(f) <= At(g)
      BY <1>3, <2>1, <2>3, <3>1 DEF Follows
    <3>. QED
      BY <1>4, <2>1, <2>3, <3>2
  <2>4. CASE g.packet # id
    BY <1>4, <2>1, <2>2, <2>4
  <2>. QED
    BY <2>3, <2>4
<1>7. ASSUME NEW k \in DOMAIN added, NEW u \in got2[k] .. Whole(k) - 1
      PROVE  \E g \in InFlight(qs, Tail(s)) : g.packet = k /\ At(g) <= u /\ u < Upto(g)
  <2>0. got2[k] \in Nat /\ got[k] \in Nat /\ Whole(k) \in Nat
    BY <1>4, <1>5, AddedIs
  <2>1. got[k] <= got2[k] /\ (k = id => u >= Upto(f))
    BY <1>2, <1>3, <1>4, <1>5, <2>0
  <2>2. u \in got[k] .. Whole(k) - 1
    BY <2>0, <2>1
  <2>3. PICK g \in InFlight(qs, s) : g.packet = k /\ At(g) <= u /\ u < Upto(g)
    BY <2>2 DEF Carried
  <2>4. u \in Nat
    BY <2>0
  <2>5. g # f
    BY <1>3, <1>5, <2>1, <2>3, <2>4
  <2>6. g \in InFlight(qs, Tail(s))
    BY <1>1, <2>5, HeadFirst
  <2>. QED
    BY <2>3, <2>6
<1>. QED
  BY <1>6, <1>7 DEF Carried

-----------------------------------------------------------------------------
(* Decoding.                                                               *)

\* The payload of a frame is the stretch it holds.
LEMMA DataIs ==
  ASSUME AddedOK, NEW f \in FrameSet, FrameOK(f)
  PROVE  /\ f.packet \in Nat /\ Len(f.data) \in Nat
         /\ f.kind # "chunked_n" => At(f) = 0 /\ Upto(f) = Len(f.data) + 1 /\ f.data = Payload(f.packet, Upto(f) - 1)
         /\ f.kind = "chunked_n" =>
              /\ At(f) > 0 /\ Upto(f) = At(f) + Len(f.data)
              /\ Payload(f.packet, At(f) - 1) \o f.data = Payload(f.packet, Upto(f) - 1)
<1>1. PICK d \in Seq(Nat \X Nat) : d = f.data
  BY DEF FrameSet
<1>2. PICK n \in Nat : n = Len(d)
  OBVIOUS
<1>3. PICK id \in Nat : id = f.packet
  BY DEF FrameSet
<1>4. PICK a \in Nat : a = At(f)
  BY DEF FrameOK
<1>5. Upto(f) = a + (n + (IF f.kind = "chunked_n" THEN 0 ELSE 1))
  BY <1>1, <1>2, <1>4 DEF Upto, body_size, CmdLen
<1>6. PICK base : base = Base(f)
  OBVIOUS
<1>7. \A j \in 1 .. n : d[j] = <<id, base + j>>
  BY <1>1, <1>2, <1>3, <1>6 DEF FrameOK
<1>8. CASE f.kind # "chunked_n"
  <2>1. a = 0 /\ base = 0
    BY <1>4, <1>6, <1>8 DEF At, Base
  <2>2. Upto(f) = n + 1 /\ Upto(f) - 1 = n
    BY <1>5, <1>8, <2>1
  <2>3. PICK w \in Seq(Nat \X Nat) : w = Payload(id, n) /\ Len(w) = n /\ \A j \in 1 .. n : w[j] = <<id, j>>
    BY PayloadIs
  <2>4. d = w
    <3>1. \A j \in 1 .. n : base + j = j
      BY <2>1
    <3>2. \A j \in 1 .. n : d[j] = w[j]
      BY <1>7, <2>3, <3>1
    <3>. QED
      BY <1>2, <2>3, <3>2, SeqEqual
  <2>. QED
    BY <1>1, <1>2, <1>3, <1>4, <1>8, <2>1, <2>2, <2>3, <2>4
<1>9. CASE f.kind = "chunked_n"
  <2>1. a > 0 /\ a = 1 + base
    BY <1>4, <1>6, <1>9 DEF At, FrameOK, CmdLen
  <2>2. PICK b \in Nat : b = a - 1
    BY <2>1
  <2>3. Upto(f) = a + n /\ Upto(f) - 1 = b + n
    BY <1>5, <1>9, <2>2
  <2>4. base \in Nat /\ base = b
    <3>1. base = f.data[1][2] - 1
      BY <1>6, <1>9 DEF Base
    <3>2. n > 0
      BY <1>1, <1>2, <1>4, <2>3 DEF FrameOK
    <3>3. d[1] \in Nat \X Nat
      BY <1>2, <3>2
    <3>4. PICK y \in Nat : y = d[1][2]
      BY <3>3
    <3>. QED
      <4>1. base = y - 1
        BY <1>1, <3>1, <3>4
      <4>. QED
        BY <2>1, <2>2, <4>1
  <2>5. PICK c \in Seq(Nat \X Nat) : c = Payload(id, b) /\ Len(c) = b /\ \A i \in 1 .. b : c[i] = <<id, i>>
    BY PayloadIs
  <2>6. PICK e \in Seq(Nat \X Nat) : e = c \o d
    BY ConcatProperties
  <2>7. Len(e) = b + n /\ \A i \in 1 .. b + n : e[i] = IF i <= b THEN c[i] ELSE d[i - b]
    <3>1. /\ Len(c \o d) = Len(c) + Len(d)
          /\ \A i \in 1 .. Len(c) + Len(d) : (c \o d)[i] = IF i <= Len(c) THEN c[i] ELSE d[i - Len(c)]
      BY ConcatProperties
    <3>. QED
      BY <1>2, <2>5, <2>6, <3>1
  <2>7a. b + n \in Nat
    OBVIOUS
  <2>8. PICK w \in Seq(Nat \X Nat) : w = Payload(id, b + n) /\ Len(w) = b + n /\ \A i \in 1 .. b + n : w[i] = <<id, i>>
    BY <2>7a, PayloadIs
  <2>9. ASSUME NEW i \in 1 .. b + n PROVE e[i] = w[i]
    <3>1. CASE i <= b
      <4>1. i \in 1 .. b
        BY <3>1
      <4>. QED
        BY <2>5, <2>7, <2>8, <3>1, <4>1
    <3>2. CASE ~ (i <= b)
      <4>1. i - b \in 1 .. n /\ b + (i - b) = i
        BY <3>2
      <4>. QED
        BY <1>7, <2>4, <2>7, <2>8, <3>2, <4>1
    <3>. QED
      BY <3>1, <3>2
  <2>10. e = w
    BY <2>7, <2>8, <2>9, SeqEqual
  <2>. QED
    BY <1>1, <1>2, <1>3, <1>4, <1>9, <2>1, <2>2, <2>3, <2>5, <2>6, <2>8, <2>10
<1>. QED
  BY <1>8, <1>9

\* The receiver, with stream s before it.
Receiver(s, h, hd, b, m, fr, fl, o) ==
  [stream |-> s, have |-> h, header |-> hd, bufs |-> b, macs |-> m, frames |-> fr, failed |-> fl, out |-> o]

\* The body of the first frame of s goes into the receiver's buffers, b2 from b, and
\* a packet it makes whole is added to its output, o2 from o.
Becomes(r, s, b, m, fr, fl, o) ==
  \E h : decode_body(r) = Receiver(s, h, FALSE, b, m, fr, fl, o)

Decodes(s, b, o, b2, o2) ==
  \A h, hd, m, fr, fl : Becomes(Receiver(s, h, hd, b, m, fr, fl, o), Tail(s), b2, m, fr, fl, o2)

LEMMA OpensBuffer ==
  ASSUME NEW s, NEW b, NEW o, NEW f, f = Head(s), f.proto \in Ids, DOMAIN b = Ids,
         f.sid \notin DOMAIN b[f.proto], f.kind = "chunked_0"
  PROVE  \E b2 : /\ Decodes(s, b, o, b2, o)
                 /\ Put(b, b2, f.proto, f.sid, [payload |-> f.data, total |-> payload_total(f)])
<1>1. PICK p \in Ids : p = f.proto
  OBVIOUS
<1>2. PICK sd : sd = f.sid
  OBVIOUS
<1>3. PICK new : new = [payload |-> f.data, total |-> payload_total(f)]
  OBVIOUS
<1>4. PICK c : c = [i \in DOMAIN b[p] \cup {sd} |-> IF i = sd THEN new ELSE b[p][i]]
  OBVIOUS
<1>5. PICK b2 : b2 = [b EXCEPT ![p] = c]
  OBVIOUS
<1>6. Put(b, b2, p, sd, new)
  BY <1>2, <1>4, <1>5 DEF Put
<1>7. ASSUME NEW h, NEW hd, NEW m, NEW fr, NEW fl
      PROVE  decode_body(Receiver(s, h, hd, b, m, fr, fl, o))
               = Receiver(Tail(s), h - frame_size(f), FALSE, b2, m, fr, fl, o)
  BY <1>1, <1>2, <1>3, <1>4, <1>5 DEF decode_body, Receiver
<1>. QED
  BY <1>1, <1>2, <1>3, <1>6, <1>7 DEF Decodes, Becomes

LEMMA PassesOn ==
  ASSUME NEW s, NEW b, NEW o, NEW f, f = Head(s), f.proto \in Ids, DOMAIN b = Ids,
         f.sid \notin DOMAIN b[f.proto], f.kind = "normal"
  PROVE  /\ Decodes(s, b, o, b, Append(o, [id |-> f.packet, proto |-> f.proto, payload |-> f.data]))
         /\ Dropped(b, b, f.proto, f.sid)
<1> DEFINE o2 == Append(o, [id |-> f.packet, proto |-> f.proto, payload |-> f.data])
<1>1. ASSUME NEW h, NEW hd, NEW m, NEW fr, NEW fl
      PROVE  decode_body(Receiver(s, h, hd, b, m, fr, fl, o))
               = Receiver(Tail(s), h - frame_size(f), FALSE, b, m, fr, fl, o2)
  BY DEF decode_body, Receiver
<1>2. Dropped(b, b, f.proto, f.sid)
  BY DEF Dropped
<1> HIDE DEF o2
<1>3. Decodes(s, b, o, b, o2)
  BY <1>1 DEF Decodes, Becomes
<1>. QED
  BY <1>2, <1>3 DEF o2

LEMMA FillsBuffer ==
  ASSUME NEW s, NEW b, NEW o, NEW f, f = Head(s), f.proto \in Ids, DOMAIN b = Ids,
         f.sid \in DOMAIN b[f.proto], f.kind = "chunked_n",
         NEW c, NEW t, b[f.proto][f.sid] = [payload |-> c, total |-> t],
         Len(f.data) \in Nat, Len(f.data) < t - Len(c), t - Len(c) \in Nat
  PROVE  \E b2 : /\ Decodes(s, b, o, b2, o)
                 /\ Put(b, b2, f.proto, f.sid, [payload |-> c \o f.data, total |-> t])
<1>1. PICK p \in Ids : p = f.proto
  OBVIOUS
<1>2. PICK sd : sd = f.sid
  OBVIOUS
<1>3. PICK buf : buf = [payload |-> c, total |-> t]
  OBVIOUS
<1>4. PICK new : new = [buf EXCEPT !.payload = extended(buf, f.data)]
  OBVIOUS
<1>5. new = [payload |-> c \o f.data, total |-> t] /\ buf.total = t /\ buf.payload = c
  <2>1. PICK y : y = c \o f.data
    OBVIOUS
  <2>2. extended(buf, f.data) = y
    BY <1>3, <2>1 DEF extended
  <2>3. new = [buf EXCEPT !.payload = y]
    BY <1>4, <2>2
  <2>4. new = [payload |-> y, total |-> t]
    BY <1>3, <2>3
  <2>. QED
    BY <1>3, <2>1, <2>4
<1>6. PICK x : x = [b[p] EXCEPT ![sd] = new]
  OBVIOUS
<1>7. PICK b2 : b2 = [b EXCEPT ![p] = x]
  OBVIOUS
<1>8. Put(b, b2, p, sd, new)
  BY <1>1, <1>2, <1>6, <1>7 DEF Put
<1>9. ~ (Len(f.data) > t - Len(c)) /\ ~ (Len(f.data) = t - Len(c))
  OBVIOUS
<1>10. ASSUME NEW h, NEW hd, NEW m, NEW fr, NEW fl
      PROVE  decode_body(Receiver(s, h, hd, b, m, fr, fl, o))
               = Receiver(Tail(s), h - frame_size(f), FALSE, b2, m, fr, fl, o)
  <2>1. b[p][sd] = buf
    BY <1>1, <1>2, <1>3
  <2>. QED
    BY <1>1, <1>2, <1>4, <1>5, <1>6, <1>7, <1>9, <2>1 DEF decode_body, Receiver
<1>. QED
  BY <1>1, <1>2, <1>5, <1>8, <1>10 DEF Decodes, Becomes

LEMMA ClosesBuffer ==
  ASSUME NEW s, NEW b, NEW o, NEW f, f = Head(s), f.proto \in Ids, DOMAIN b = Ids,
         f.sid \in DOMAIN b[f.proto], f.kind = "chunked_n",
         NEW c, NEW t, b[f.proto][f.sid] = [payload |-> c, total |-> t],
         Len(f.data) \in Nat, Len(f.data) = t - Len(c)
  PROVE  \E b2 : /\ Decodes(s, b, o, b2, Append(o, [id |-> f.packet, proto |-> f.proto, payload |-> c \o f.data]))
                 /\ Dropped(b, b2, f.proto, f.sid)
<1>1. PICK p \in Ids : p = f.proto
  OBVIOUS
<1>2. PICK sd : sd = f.sid
  OBVIOUS
<1>3. PICK buf : buf = [payload |-> c, total |-> t]
  OBVIOUS
<1>5. extended(buf, f.data) = c \o f.data /\ buf.total = t /\ buf.payload = c
  BY <1>3 DEF extended
<1>6. PICK x : x = [i \in DOMAIN b[p] \ {sd} |-> b[p][i]]
  OBVIOUS
<1>7. PICK b2 : b2 = [b EXCEPT ![p] = x]
  OBVIOUS
<1>8. Dropped(b, b2, p, sd)
  BY <1>1, <1>2, <1>6, <1>7 DEF Dropped
<1>9. ~ (Len(f.data) > t - Len(c)) /\ Len(f.data) = t - Len(c)
  OBVIOUS
<1>9a. PICK e : e = extended(buf, f.data)
  OBVIOUS
<1>9b. PICK o2 : o2 = Append(o, [id |-> f.packet, proto |-> f.proto, payload |-> e])
  OBVIOUS
<1>10. ASSUME NEW h, NEW hd, NEW m, NEW fr, NEW fl
      PROVE  decode_body(Receiver(s, h, hd, b, m, fr, fl, o))
               = Receiver(Tail(s), h - frame_size(f), FALSE, b2, m, fr, fl, o2)
  <2>1. b[p][sd] = buf
    BY <1>1, <1>2, <1>3
  <2>2. PICK r : r = Receiver(s, h, hd, b, m, fr, fl, o)
    OBVIOUS
  <2>3. PICK done : done = [r EXCEPT !.stream = Tail(@), !.have = @ - frame_size(f), !.header = FALSE]
    OBVIOUS
  <2>4. done = Receiver(Tail(s), h - frame_size(f), FALSE, b, m, fr, fl, o)
    BY <2>2, <2>3 DEF Receiver
  <2>5. PICK less : less = [done EXCEPT !.bufs[f.proto] = [i \in DOMAIN @ \ {f.sid} |-> @[i]]]
    OBVIOUS
  <2>6. less = Receiver(Tail(s), h - frame_size(f), FALSE, b2, m, fr, fl, o)
    BY <1>1, <1>2, <1>6, <1>7, <2>4, <2>5 DEF Receiver
  <2>7. PICK out : out = [less EXCEPT !.out = Append(@, [id |-> f.packet, proto |-> f.proto, payload |-> e])]
    OBVIOUS
  <2>8. out = Receiver(Tail(s), h - frame_size(f), FALSE, b2, m, fr, fl, o2)
    BY <1>9b, <2>6, <2>7 DEF Receiver
  <2>9. r.stream = s /\ r.bufs = b
    BY <2>2 DEF Receiver
  <2>10. decode_body(r) = out
    BY <1>1, <1>2, <1>5, <1>9, <1>9a, <2>1, <2>3, <2>5, <2>7, <2>9 DEF decode_body
  <2>. QED
    BY <2>2, <2>8, <2>10
<1>11. Decodes(s, b, o, b2, o2)
  BY <1>10 DEF Decodes, Becomes
<1>. QED
  BY <1>1, <1>2, <1>5, <1>8, <1>9a, <1>9b, <1>11

\* A packet that is passed on goes to the output, o2 from o, and to the packets
\* decoded so far, dec2 from dec.
Emits(o, dec, id, o2, dec2) ==
  \/ o2 = o /\ dec2 = dec
  \/ o2 = Append(o, Arrival(id)) /\ dec2 = Append(dec, Arrival(id))

\* The first frame of s finds the buffer of its packet, or none, as it needs to.
Taken(qs, s, got, b, o, dec, b2, o2, dec2) ==
  /\ Decodes(s, b, o, b2, o2) /\ Emits(o, dec, s[1].packet, o2, dec2)
  /\ Advance(got, dec, b, s[1].packet, Upto(s[1]), dec2, b2)

LEMMA BodyTaken ==
  ASSUME AddedOK, NEW qs, NEW s, FlowType(qs, s), s # <<>>, Lined(qs, s),
         NEW got, NEW b, NEW o, NEW dec,
         Progress(got, dec, b), OpenDiffer(got), Carried(got, qs, s)
  PROVE  \E b2, o2, dec2 : Taken(qs, s, got, b, o, dec, b2, o2, dec2)
<1>1. PICK f \in FrameSet : f = s[1] /\ f = Head(s)
  BY TailIs
<1>2. got \in [DOMAIN added -> Nat] /\ DOMAIN b = Ids
  BY DEF Progress
<1>3. FrameOK(f) /\ At(f) = got[f.packet]
  BY <1>1, <1>2, HeadNext
<1>4. PICK id \in DOMAIN added : id = f.packet
  BY <1>3 DEF FrameOK
<1>5. PICK p \in Ids : p = added[id].proto
  BY AddedIs
<1>6. f.proto = p /\ f.sid = Sid(id) /\ f.total = Whole(id)
  BY <1>3, <1>4, <1>5 DEF FrameOK
<1>7. PICK len \in Nat : len = added[id].len /\ Whole(id) = len + 1 /\ id \in Nat
  BY AddedIs
<1>8. PICK a \in Nat : a = At(f)
  BY <1>3 DEF FrameOK
<1>9. PICK t \in Nat : t = Upto(f)
  BY <1>3 DEF FrameOK
<1>10. a < t /\ t <= len + 1 /\ got[id] = a
  BY <1>3, <1>4, <1>7, <1>8, <1>9 DEF FrameOK
\* A packet of which nothing has come has no buffer, nor another one the same.
<1>11. a = 0 => f.sid \notin DOMAIN b[p]
  <2> SUFFICES ASSUME a = 0, f.sid \in DOMAIN b[p] PROVE FALSE
    OBVIOUS
  <2>1. PICK k \in DOMAIN added : added[k].proto = p /\ Sid(k) = f.sid /\ Partial(got, k)
    BY DEF Progress
  <2>2. k # id /\ got[k] < Whole(k) /\ got[id] < Whole(id)
    BY <1>7, <1>10, <2>1 DEF Partial
  <2>. QED
    BY <1>5, <1>6, <2>1, <2>2 DEF OpenDiffer
<1>12. f.kind \in {"normal", "chunked_0", "chunked_n"}
  BY DEF FrameSet
<1>13. payload_total(f) = len
  BY <1>6, <1>7 DEF payload_total, CmdLen
<1>14. t - 1 \in Nat /\ (t = len + 1 => t - 1 = len)
  BY <1>10
<1>15. CASE f.kind = "normal"
  <2>1. a = 0 /\ t = len + 1 /\ f.data = Payload(id, len)
    BY <1>3, <1>4, <1>7, <1>8, <1>9, <1>14, <1>15, DataIs DEF FrameOK
  <2>2. [id |-> f.packet, proto |-> f.proto, payload |-> f.data] = Arrival(id)
    BY <1>4, <1>5, <1>6, <1>7, <2>1 DEF Arrival
  <2>3. f.sid \notin DOMAIN b[f.proto]
    BY <1>6, <1>11, <2>1
  <2>4. Decodes(s, b, o, b, Append(o, Arrival(id))) /\ Dropped(b, b, f.proto, f.sid)
    BY <1>1, <1>2, <1>6, <1>15, <2>2, <2>3, PassesOn
  <2>5. Advance(got, dec, b, id, t, Append(dec, Arrival(id)), b)
    BY <1>5, <1>6, <1>7, <2>1, <2>4 DEF Advance
  <2>. QED
    BY <1>1, <1>4, <1>9, <2>4, <2>5 DEF Taken, Emits
<1>16. CASE f.kind = "chunked_0"
  <2>1. a = 0 /\ t < len + 1 /\ f.data = Payload(id, t - 1) /\ added[id].queue = "chunked"
    BY <1>3, <1>4, <1>7, <1>8, <1>9, <1>14, <1>16, DataIs DEF FrameOK
  <2>2. [payload |-> f.data, total |-> payload_total(f)] = Buffer(id, t)
    BY <1>7, <1>13, <2>1 DEF Buffer, CmdLen
  <2>3. f.sid \notin DOMAIN b[f.proto]
    BY <1>6, <1>11, <2>1
  <2>4. PICK b2 : Decodes(s, b, o, b2, o) /\ Put(b, b2, f.proto, f.sid, Buffer(id, t))
    BY <1>1, <1>2, <1>6, <1>16, <2>2, <2>3, OpensBuffer
  <2>5. Advance(got, dec, b, id, t, dec, b2)
    BY <1>5, <1>6, <1>7, <2>1, <2>4 DEF Advance
  <2>. QED
    BY <1>1, <1>4, <1>9, <2>4, <2>5 DEF Taken, Emits
<1>17. CASE f.kind = "chunked_n"
  <2>1. /\ a > 0 /\ t = a + Len(f.data) /\ Payload(id, a - 1) \o f.data = Payload(id, t - 1)
        /\ added[id].queue = "chunked" /\ Len(f.data) \in Nat
    BY <1>3, <1>4, <1>8, <1>9, <1>17, DataIs DEF FrameOK
  <2>2. Partial(got, id)
    BY <1>7, <1>10, <2>1 DEF Partial
  <2>3. f.sid \in DOMAIN b[f.proto] /\ b[f.proto][f.sid] = [payload |-> Payload(id, a - 1), total |-> len]
    BY <1>5, <1>6, <1>7, <1>10, <2>2 DEF Progress, Buffer, CmdLen
  <2>4. PICK n \in Nat : n = Len(f.data)
    BY <2>1
  <2>5. a - 1 \in Nat /\ Len(Payload(id, a - 1)) = a - 1
    BY <1>7, <2>1, PayloadIs
  <2>6. len - Len(Payload(id, a - 1)) = (len + 1) - a /\ t = a + n
    BY <2>1, <2>4, <2>5
  <2>7. CASE t < len + 1
    <3>1. n < (len + 1) - a /\ (len + 1) - a \in Nat
      BY <2>6, <2>7
    <3>2. PICK b2 : /\ Decodes(s, b, o, b2, o)
                    /\ Put(b, b2, f.proto, f.sid, [payload |-> Payload(id, a - 1) \o f.data, total |-> len])
      BY <1>1, <1>2, <1>6, <1>17, <2>3, <2>4, <2>6, <3>1, FillsBuffer
    <3>3. [payload |-> Payload(id, a - 1) \o f.data, total |-> len] = Buffer(id, t)
      BY <1>7, <2>1 DEF Buffer, CmdLen
    <3>4. Advance(got, dec, b, id, t, dec, b2)
      BY <1>5, <1>6, <1>7, <2>1, <2>7, <3>2, <3>3 DEF Advance
    <3>. QED
      BY <1>1, <1>4, <1>9, <3>2, <3>4 DEF Taken, Emits
  <2>8. CASE t = len + 1
    <3>1. n = (len + 1) - a
      BY <2>6, <2>8
    <3>2. PICK b2 :
            /\ Decodes(s, b, o, b2,
                 Append(o, [id |-> f.packet, proto |-> f.proto, payload |-> Payload(id, a - 1) \o f.data]))
            /\ Dropped(b, b2, f.proto, f.sid)
      BY <1>1, <1>2, <1>6, <1>17, <2>3, <2>4, <2>6, <3>1, ClosesBuffer
    <3>3. [id |-> f.packet, proto |-> f.proto, payload |-> Payload(id, a - 1) \o f.data] = Arrival(id)
      BY <1>4, <1>5, <1>6, <1>7, <1>14, <2>1, <2>8 DEF Arrival
    <3>4. Advance(got, dec, b, id, t, Append(dec, Arrival(id)), b2)
      BY <1>5, <1>6, <1>7, <2>8, <3>2 DEF Advance
    <3>. QED
      BY <1>1, <1>4, <1>9, <3>2, <3>3, <3>4 DEF Taken, Emits
  <2>. QED
    BY <1>10, <2>7, <2>8
<1>. QED
  BY <1>12, <1>15, <1>16, <1>17

\* InOrderPerQueue, of any packets decoded.
Ordered(dec) ==
  \A n \in 1 .. Len(dec) :
    /\ dec[n].id \in DOMAIN added /\ dec[n].proto = added[dec[n].id].proto
    /\ dec[n].payload = Payload(dec[n].id, added[dec[n].id].len)
    /\ \A m \in 1 .. n - 1 : dec[m].id # dec[n].id
    /\ \A k \in 1 .. dec[n].id - 1 :
          SameQueue(k, dec[n].id) => \E m \in 1 .. n - 1 : dec[m].id = k

LEMMA OrderKept ==
  ASSUME AddedOK, NEW dec \in Seq(Message), Ordered(dec), NEW id \in DOMAIN added, ~ Done(dec, id),
         \A k \in DOMAIN added : k < id /\ SameQueue(k, id) => Done(dec, k)
  PROVE  Ordered(Append(dec, Arrival(id)))
<1>1. PICK n \in Nat : n = Len(dec)
  OBVIOUS
<1>2. PICK m \in Message : m = Arrival(id)
  BY ArrivalIs
<1>3. PICK d : d = Append(dec, m)
  OBVIOUS
<1>4. Len(d) = n + 1 /\ d[n + 1] = m /\ \A i \in 1 .. n : d[i] = dec[i]
  BY <1>1, <1>3, AppendProperties
<1>5. m.id = id /\ m.proto = added[id].proto /\ m.payload = Payload(id, added[id].len)
  BY <1>2 DEF Arrival
<1>6. \A i \in 1 .. n + 1 : \A j \in 1 .. i - 1 : j \in 1 .. n /\ d[j] = dec[j]
  BY <1>4
<1>7. ASSUME NEW i \in 1 .. n + 1
      PROVE  /\ d[i].id \in DOMAIN added /\ d[i].proto = added[d[i].id].proto
             /\ d[i].payload = Payload(d[i].id, added[d[i].id].len)
             /\ \A j \in 1 .. i - 1 : d[j].id # d[i].id
             /\ \A k \in 1 .. d[i].id - 1 : SameQueue(k, d[i].id) => \E j \in 1 .. i - 1 : d[j].id = k
  <2>1. CASE i = n + 1
    <3>1. d[i] = m /\ i - 1 = n
      BY <1>4, <2>1
    <3>2. \A j \in 1 .. n : d[j].id # id
      BY <1>1, <1>4 DEF Done
    <3>3. ASSUME NEW k \in 1 .. id - 1, SameQueue(k, id) PROVE \E j \in 1 .. n : d[j].id = k
      <4>1. k \in DOMAIN added /\ k < id
        BY AddedIs
      <4>2. Done(dec, k)
        BY <3>3, <4>1
      <4>. QED
        BY <1>1, <1>4, <4>2 DEF Done
    <3>. QED
      BY <1>5, <3>1, <3>2, <3>3
  <2>2. CASE i # n + 1
    <3>1. i \in 1 .. n
      BY <2>2
    <3>2. d[i] = dec[i] /\ \A j \in 1 .. i - 1 : d[j] = dec[j]
      BY <1>4, <1>6, <3>1
    <3>3. PICK x : x = dec[i]
      OBVIOUS
    <3>4. /\ x.id \in DOMAIN added /\ x.proto = added[x.id].proto
          /\ x.payload = Payload(x.id, added[x.id].len)
          /\ \A j \in 1 .. i - 1 : dec[j].id # x.id
          /\ \A k \in 1 .. x.id - 1 : SameQueue(k, x.id) => \E j \in 1 .. i - 1 : dec[j].id = k
      BY <1>1, <3>1, <3>3 DEF Ordered
    <3>. QED
      BY <3>2, <3>3, <3>4
  <2>. QED
    BY <2>1, <2>2
<1>8. Ordered(d)
  BY <1>4, <1>7 DEF Ordered
<1>. QED
  BY <1>2, <1>3, <1>8

\* What is between the packets sent and those decoded, got being what has come.
Arrived(got, qs, s, b, dec) ==
  /\ Lined(qs, s) /\ Progress(got, dec, b) /\ OpenDiffer(got) /\ Carried(got, qs, s) /\ Ordered(dec)

GoesLast(s, t, e) == Append(s \o t, e) = s \o Append(t, e)

LEMMA AppendConcat ==
  ASSUME NEW S, NEW s \in Seq(S), NEW t \in Seq(S), NEW e \in S
  PROVE  GoesLast(s, t, e)
<1>1. s \o t \in Seq(S) /\ <<e>> \in Seq(S)
  BY ConcatProperties
<1>2. Append(s \o t, e) = (s \o t) \o <<e>> /\ Append(t, e) = t \o <<e>>
  BY <1>1, AppendIsConcat
<1>3. (s \o t) \o <<e>> = s \o (t \o <<e>>)
  BY <1>1, ConcatAssociative
<1>. QED
  BY <1>2, <1>3 DEF GoesLast

LEMMA BodyArrived ==
  ASSUME AddedOK, NEW qs, NEW s, FlowType(qs, s), s # <<>>,
         NEW got, NEW b, NEW dec \in Seq(Message), Arrived(got, qs, s, b, dec),
         NEW o, NEW b2, NEW o2, NEW dec2, Taken(qs, s, got, b, o, dec, b2, o2, dec2)
  PROVE  \E got2 : Arrived(got2, qs, Tail(s), b2, dec2)
<1>1. Lined(qs, s) /\ Progress(got, dec, b) /\ OpenDiffer(got) /\ Carried(got, qs, s) /\ Ordered(dec)
  BY DEF Arrived
<1>2. got \in [DOMAIN added -> Nat]
  BY <1>1 DEF Progress
<1>3. FrameOK(s[1]) /\ At(s[1]) = got[s[1].packet]
      /\ \A k \in DOMAIN added : k < s[1].packet /\ SameQueue(k, s[1].packet) => got[k] >= Whole(k)
  BY <1>1, <1>2, HeadNext
<1>4. PICK id \in DOMAIN added : id = s[1].packet
  BY <1>3 DEF FrameOK
<1>5. PICK t \in Nat : t = Upto(s[1])
  BY <1>3 DEF FrameOK
<1>6. got[id] < t /\ t <= Whole(id)
  BY <1>3, <1>4, <1>5 DEF FrameOK
<1>7. \A k \in DOMAIN added : k < id /\ SameQueue(k, id) => got[k] >= Whole(k)
  BY <1>3, <1>4
<1>8. Advance(got, dec, b, id, t, dec2, b2)
  BY <1>4, <1>5 DEF Taken
<1>9. PICK got2 : got2 = [got EXCEPT ![id] = t]
  OBVIOUS
<1>10. Progress(got2, dec2, b2) /\ OpenDiffer(got2)
  BY <1>1, <1>6, <1>7, <1>8, <1>9, ProgressMade
<1>11. Carried(got2, qs, Tail(s))
  BY <1>1, <1>2, <1>4, <1>5, <1>9, CarriedOn
<1>12. Lined(qs, Tail(s))
  BY <1>1, HeadFirst
<1>13. Ordered(dec2)
  <2>1. ASSUME NEW k \in DOMAIN added PROVE got[k] = Whole(k) <=> Done(dec, k)
    BY <1>1 DEF Progress
  <2>2. ASSUME NEW k \in DOMAIN added PROVE got[k] \in Nat /\ Whole(k) \in Nat /\ got[k] <= Whole(k)
    BY <1>1, <1>2, AddedIs DEF Progress
  <2>3. ~ Done(dec, id)
    BY <1>6, <2>1, <2>2
  <2>4. \A k \in DOMAIN added : k < id /\ SameQueue(k, id) => Done(dec, k)
    BY <1>7, <2>1, <2>2
  <2>5. dec2 = dec \/ dec2 = Append(dec, Arrival(id))
    BY <1>8 DEF Advance
  <2>. QED
    BY <1>1, <2>3, <2>4, <2>5, OrderKept
<1>. QED
  BY <1>10, <1>11, <1>12, <1>13 DEF Arrived

\* The receiver r, in the middle of decoding: it has read the header of every frame
\* once, and has nothing to object to.
Receives(got, qs, dec, r) ==
  /\ r = Receiver(r.stream, r.have, r.header, r.bufs, r.macs, r.frames, "no", r.out)
  /\ r.stream \in Seq(FrameSet) /\ r.header \in BOOLEAN /\ r.frames \in Nat /\ r.out \in Seq(Message)
  /\ r.macs = r.frames + (IF r.header THEN 1 ELSE 0)
  /\ Arrived(got, qs, r.stream, r.bufs, dec \o r.out)

Counts(s, h, hd, b, m, fr, fl, o, n) ==
  [Receiver(s, h, hd, b, m, fr, fl, o) EXCEPT !.frames = n] = Receiver(s, h, hd, b, m, n, fl, o)

LEMMA FrameCounted ==
  ASSUME NEW s, NEW h, NEW hd, NEW b, NEW m, NEW fr, NEW fl, NEW o, NEW n
  PROVE  Counts(s, h, hd, b, m, fr, fl, o, n)
<1>1. PICK x : x = Receiver(s, h, hd, b, m, fr, fl, o)
  OBVIOUS
<1>2. PICK r : r = [x EXCEPT !.frames = n]
  OBVIOUS
<1>3. r = Receiver(s, h, hd, b, m, n, fl, o)
  BY <1>1, <1>2 DEF Receiver
<1>. QED
  BY <1>1, <1>2, <1>3 DEF Counts

LEMMA StepReceives ==
  ASSUME AddedOK, NEW qs \in [Ids -> Queued(FrameSet)], NEW dec \in Seq(Message), NEW got, NEW r,
         Receives(got, qs, dec, r)
  PROVE  \E got2 : Receives(got2, qs, dec, decode_step(r))
<1>0. PICK s \in Seq(FrameSet) : s = r.stream
  BY DEF Receives
<1>0a. PICK hd \in BOOLEAN : hd = r.header
  BY DEF Receives
<1>0b. PICK fr \in Nat : fr = r.frames
  BY DEF Receives
<1>0c. PICK o \in Seq(Message) : o = r.out
  BY DEF Receives
<1>0d. PICK h, b, m : h = r.have /\ b = r.bufs /\ m = r.macs
  OBVIOUS
<1>1. r = Receiver(s, h, hd, b, m, fr, "no", o)
  BY <1>0, <1>0a, <1>0b, <1>0c, <1>0d DEF Receives
<1>2. /\ r.stream = s /\ r.have = h /\ r.header = hd /\ r.bufs = b /\ r.macs = m /\ r.frames = fr
      /\ r.failed = "no" /\ r.out = o
  BY <1>1 DEF Receiver
<1>3. m = fr + (IF hd THEN 1 ELSE 0) /\ Arrived(got, qs, s, b, dec \o o)
  BY <1>2 DEF Receives
<1>4. CASE decode_step(r) = r
  BY <1>4
<1>5. CASE decode_step(r) # r
  <2>1. s # <<>>
    BY <1>2, <1>5 DEF decode_step
  <2>2. CASE ~ hd
    <3>1. decode_step(r) = decode_header(r)
      BY <1>2, <1>5, <2>1, <2>2 DEF decode_step
    <3>2. m = fr
      BY <1>3, <2>2
    <3>3. decode_header(r) = [r EXCEPT !.header = TRUE, !.macs = @ + 1]
      BY <1>2, <3>2 DEF decode_header
    <3>4. PICK r2 : r2 = [r EXCEPT !.header = TRUE, !.macs = @ + 1]
      OBVIOUS
    <3>5. r2 = Receiver(s, h, TRUE, b, m + 1, fr, "no", o)
      BY <1>1, <3>4 DEF Receiver
    <3>6. /\ r2.stream = s /\ r2.have = h /\ r2.header = TRUE /\ r2.bufs = b /\ r2.macs = m + 1
          /\ r2.frames = fr /\ r2.out = o
      BY <3>5 DEF Receiver
    <3>7. Receives(got, qs, dec, r2)
      BY <1>3, <3>2, <3>5, <3>6 DEF Receives
    <3>. QED
      BY <3>1, <3>3, <3>4, <3>7
  <2>3. CASE hd
    <3>1. decode_step(r) = [decode_body(r) EXCEPT !.frames = @ + 1]
      BY <1>2, <1>5, <2>1, <2>3 DEF decode_step
    <3>2. FlowType(qs, s)
      BY DEF FlowType
    <3>3. PICK d \in Seq(Message) : d = dec \o o
      BY ConcatProperties
    <3>4. Lined(qs, s) /\ Progress(got, d, b) /\ OpenDiffer(got) /\ Carried(got, qs, s)
      BY <1>3, <3>3 DEF Arrived
    <3>5. PICK b2, o2, d2 : Taken(qs, s, got, b, o, d, b2, o2, d2)
      BY <2>1, <3>2, <3>4, BodyTaken
    <3>6. PICK got2 : Arrived(got2, qs, Tail(s), b2, d2)
      BY <1>3, <2>1, <3>2, <3>3, <3>5, BodyArrived
    <3>7. PICK h2 : decode_body(r) = Receiver(Tail(s), h2, FALSE, b2, m, fr, "no", o2)
      <4>1. Decodes(s, b, o, b2, o2)
        BY <3>5 DEF Taken
      <4>2. Becomes(Receiver(s, h, hd, b, m, fr, "no", o), Tail(s), b2, m, fr, "no", o2)
        BY <4>1 DEF Decodes
      <4>. QED
        BY <1>1, <4>2 DEF Becomes
    <3>8. PICK id \in DOMAIN added : id = s[1].packet
      BY <2>1, <3>2, <3>4, HeadNext DEF FrameOK, Progress
    <3>9. o2 \in Seq(Message) /\ d2 = dec \o o2
      <4>1. PICK a \in Message : a = Arrival(id)
        BY ArrivalIs
      <4>2. (o2 = o /\ d2 = d) \/ (o2 = Append(o, a) /\ d2 = Append(d, a))
        BY <3>5, <3>8, <4>1 DEF Taken, Emits
      <4>3. Append(o, a) \in Seq(Message) /\ Append(dec \o o, a) = dec \o Append(o, a)
        <5>1. GoesLast(dec, o, a)
          BY <1>0c, <4>1, AppendConcat
        <5>. QED
          BY <1>0c, <4>1, <5>1, AppendProperties DEF GoesLast
      <4>. QED
        BY <3>3, <4>2, <4>3
    <3>10. PICK r2 : r2 = [decode_body(r) EXCEPT !.frames = @ + 1]
      OBVIOUS
    <3>11. r2 = Receiver(Tail(s), h2, FALSE, b2, m, fr + 1, "no", o2)
      <4>1. PICK x : x = decode_body(r)
        OBVIOUS
      <4>2. x.frames = fr
        BY <3>7, <4>1 DEF Receiver
      <4>3. PICK n : n = fr + 1
        OBVIOUS
      <4>4. r2 = [x EXCEPT !.frames = n]
        BY <3>10, <4>1, <4>2, <4>3
      <4>5. r2 = Receiver(Tail(s), h2, FALSE, b2, m, n, "no", o2)
        <5>1. Counts(Tail(s), h2, FALSE, b2, m, fr, "no", o2, n)
          BY FrameCounted
        <5>. QED
          BY <3>7, <4>1, <4>4, <5>1 DEF Counts
      <4>. QED
        BY <4>3, <4>5
    <3>12. /\ r2.stream = Tail(s) /\ r2.have = h2 /\ r2.header = FALSE /\ r2.bufs = b2 /\ r2.macs = m
           /\ r2.frames = fr + 1 /\ r2.out = o2
      BY <3>11 DEF Receiver
    <3>13. Tail(s) \in Seq(FrameSet)
      BY <2>1, <3>2, TailIs DEF FlowType
    <3>14. m = fr + 1 /\ fr + 1 \in Nat
      BY <1>3, <2>3
    <3>15. Receives(got2, qs, dec, r2)
      <4>1. r2 = Receiver(r2.stream, r2.have, r2.header, r2.bufs, r2.macs, r2.frames, "no", r2.out)
        BY <3>11, <3>12
      <4>2. r2.stream \in Seq(FrameSet) /\ r2.header \in BOOLEAN /\ r2.frames \in Nat /\ r2.out \in Seq(Message)
        BY <3>9, <3>12, <3>13, <3>14
      <4>3. r2.macs = r2.frames + (IF r2.header THEN 1 ELSE 0)
        BY <3>12, <3>14
      <4>4. Arrived(got2, qs, r2.stream, r2.bufs, dec \o r2.out)
        BY <3>6, <3>9, <3>12
      <4>. QED
        BY <4>1, <4>2, <4>3, <4>4 DEF Receives
    <3>. QED
      BY <3>1, <3>10, <3>15
  <2>. QED
    BY <2>2, <2>3
<1>. QED
  BY <1>4, <1>5

\* The steps of decode.
IsDecoding(loop, r, n) ==
  loop = [k \in 0 .. n |-> IF k = 0 THEN r ELSE LET q == loop[k - 1] IN decode_step(q)]

LEMMA DecodingExists ==
  ASSUME NEW r, NEW n \in Nat
  PROVE  \E loop : IsDecoding(loop, r, n)
<1> DEFINE T == {k \in 0 .. n : ~ \E f : IsDecoding(f, r, k)}
<1>1. T = {}
  <2> SUFFICES ASSUME T # {} PROVE FALSE
    OBVIOUS
  <2>1. T \subseteq Nat
    OBVIOUS
  <2>2. PICK k \in T : \A y \in T : k <= y
    BY <2>1, LeastNat
  <2>3. CASE k = 0
    <3>1. PICK f : f = [i \in 0 .. 0 |-> r]
      OBVIOUS
    <3>2. IsDecoding(f, r, 0)
      BY <3>1 DEF IsDecoding
    <3>. QED
      BY <2>2, <2>3, <3>2
  <2>4. CASE k # 0
    <3>1. k \in 1 .. n /\ k - 1 \in 0 .. n /\ k - 1 \in 0 .. k - 1 /\ k - 1 \notin T
      <4>1. k \in 0 .. n
        OBVIOUS
      <4> HIDE DEF T
      <4>. QED
        BY <2>2, <2>4, <4>1
    <3>2. PICK f : IsDecoding(f, r, k - 1)
      BY <3>1
    <3>3. PICK h : h = [i \in 0 .. k |-> IF i = k THEN decode_step(f[k - 1]) ELSE f[i]]
      OBVIOUS
    <3>4. h = [i \in 0 .. k |-> h[i]] /\ h[k] = decode_step(f[k - 1]) /\ \A i \in 0 .. k - 1 : h[i] = f[i]
      BY <3>1, <3>3
    <3>5. \A i \in 0 .. k - 1 : f[i] = IF i = 0 THEN r ELSE decode_step(f[i - 1])
      BY <3>2 DEF IsDecoding
    <3>6. ASSUME NEW i \in 0 .. k PROVE h[i] = IF i = 0 THEN r ELSE decode_step(h[i - 1])
      <4>1. CASE i = k
        BY <2>4, <3>1, <3>4, <4>1
      <4>2. CASE i # k
        <5>1. i \in 0 .. k - 1 /\ (i # 0 => i - 1 \in 0 .. k - 1)
          BY <4>2
        <5>. QED
          BY <3>4, <3>5, <5>1
      <4>. QED
        BY <4>1, <4>2
    <3>7. IsDecoding(h, r, k)
      BY <3>4, <3>6 DEF IsDecoding
    <3>. QED
      BY <2>2, <3>7
  <2>. QED
    BY <2>3, <2>4
<1>2. n \in 0 .. n
  OBVIOUS
<1>. QED
  BY <1>1, <1>2

\* decode never raises, and passes on whole packets only, in order.
LEMMA DecodeReceives ==
  ASSUME AddedOK, queues \in [Ids -> Queued(FrameSet)], stream \in Seq(FrameSet), decoded \in Seq(Message),
         NEW got, NEW r, Receives(got, queues, decoded, r)
  PROVE  \E got2 : Receives(got2, queues, decoded, decode(r))
<1>1. PICK n \in Nat : n = 2 * Len(stream)
  OBVIOUS
<1>2. PICK loop : IsDecoding(loop, r, n) /\ decode(r) = loop[n]
  <2> DEFINE L == CHOOSE loop : IsDecoding(loop, r, n)
  <2>1. decode(r) = L[n]
    BY <1>1 DEF decode, IsDecoding
  <2>2. IsDecoding(L, r, n)
    BY DecodingExists
  <2>. QED
    BY <2>1, <2>2
<1> DEFINE Good(k) == \E got2 : Receives(got2, queues, decoded, loop[k])
           T == {k \in 0 .. n : ~ Good(k)}
<1>3. loop[0] = r
  BY <1>2 DEF IsDecoding
<1>4. ASSUME NEW k \in 1 .. n PROVE loop[k] = decode_step(loop[k - 1])
  BY <1>2 DEF IsDecoding
<1>5. T = {}
  <2> SUFFICES ASSUME T # {} PROVE FALSE
    OBVIOUS
  <2>1. T \subseteq Nat
    OBVIOUS
  <2>2. PICK k \in T : \A y \in T : k <= y
    BY <2>1, LeastNat
  <2>3. k \in 0 .. n /\ ~ Good(k)
    BY <2>2
  <2>4. k # 0
    BY <1>3, <2>3
  <2>5. k \in 1 .. n /\ k - 1 \in 0 .. n
    BY <2>3, <2>4
  <2>6. k - 1 \notin T
    <3> HIDE DEF T
    <3>. QED
      BY <2>2, <2>5
  <2>7. PICK q, got1 : q = loop[k - 1] /\ Receives(got1, queues, decoded, q)
    BY <2>5, <2>6
  <2>8. \E got2 : Receives(got2, queues, decoded, decode_step(q))
    BY <2>7, StepReceives
  <2>9. loop[k] = decode_step(q)
    BY <1>4, <2>5, <2>7
  <2>. QED
    BY <2>3, <2>8, <2>9
<1>6. n \in 0 .. n
  OBVIOUS
<1>. QED
  BY <1>2, <1>5, <1>6

-----------------------------------------------------------------------------
(* The invariant of both ends.                                             *)

DeliveryInvariant ==
  /\ MuxTypeOK /\ AddedOK /\ stream \in Seq(FrameSet) /\ header \in BOOLEAN /\ decoded \in Seq(Message)
  /\ \A p \in Ids : sequence_id[p] = Count(p, Len(added)) % SidMod
  /\ failed = "no" /\ macs.frames \in Nat /\ macs.headers = macs.frames + (IF header THEN 1 ELSE 0)
  /\ \E got : Arrived(got, queues, stream, chunked_buffers, decoded)

LEMMA ArrivedStill ==
  ASSUME added' = added, NEW got, NEW qs, NEW s, NEW b, NEW dec, Arrived(got, qs, s, b, dec),
         qs = queues', s = stream', b = chunked_buffers', dec = decoded'
  PROVE  (\E g : Arrived(g, queues, stream, chunked_buffers, decoded))'
<1>1. Lined(qs, s) => Lined(queues, stream)'
  BY DEF Lined, SameQueue
<1>2. Ordered(dec) => Ordered(decoded)'
  BY DEF Ordered, SameQueue
<1>3. OpenDiffer(got) => OpenDiffer(got)'
  BY DEF OpenDiffer, Whole, Sid, Count
<1>4. Progress(got, dec, b) => Progress(got, decoded, chunked_buffers)'
  <2>1. \A id : Whole(id)' = Whole(id) /\ Sid(id)' = Sid(id)
    BY DEF Whole, Sid, Count
  <2>2. \A id : Done(decoded, id)' <=> Done(dec, id)
    BY DEF Done
  <2>3. \A id : Partial(got, id)' <=> Partial(got, id)
    BY <2>1 DEF Partial
  <2>4. \A id, t : Buffer(id, t)' = Buffer(id, t)
    BY DEF Buffer
  <2>5. \A i, k : SameQueue(i, k)' <=> SameQueue(i, k)
    BY DEF SameQueue
  <2>. QED
    BY <2>1, <2>2, <2>3, <2>4, <2>5 DEF Progress
<1>5. Carried(got, qs, s) => Carried(got, queues, stream)'
  <2>1. \A id : Whole(id)' = Whole(id) /\ Sid(id)' = Sid(id)
    BY DEF Whole, Sid, Count
  <2>2. \A f : FrameOK(f)' <=> FrameOK(f)
    BY <2>1 DEF FrameOK
  <2>3. InFlight(queues, stream)' = InFlight(qs, s)
    BY DEF InFlight
  <2>. QED
    BY <2>1, <2>2, <2>3 DEF Carried
<1>. QED
  BY <1>1, <1>2, <1>3, <1>4, <1>5 DEF Arrived

LEMMA DeliveryInit == Init => DeliveryInvariant
<1> SUFFICES ASSUME Init PROVE DeliveryInvariant
  OBVIOUS
<1>1. MuxTypeOK
  BY InitInvariant DEF MuxInvariant
<1>2. /\ added = <<>> /\ decoded = <<>> /\ stream = <<>> /\ failed = "no" /\ header = FALSE
      /\ macs = [headers |-> 0, frames |-> 0] /\ sequence_id = [p \in Ids |-> 0]
      /\ chunked_buffers = [p \in Ids |-> [i \in {} |-> <<>>]]
      /\ queues = [p \in Ids |-> [q \in QueueNames |-> <<>>]]
  BY DEF Init
<1>3. AddedOK /\ stream \in Seq(FrameSet) /\ decoded \in Seq(Message) /\ DOMAIN added = {} /\ Len(added) = 0
  BY <1>2 DEF AddedOK
<1>4. ASSUME NEW p \in Ids PROVE sequence_id[p] = Count(p, Len(added)) % SidMod
  <2>1. {j \in 1 .. Len(added) : added[j].proto = p} = {}
    BY <1>3
  <2>2. Count(p, Len(added)) = 0
    BY <2>1, FS_EmptySet DEF Count
  <2>3. SidMod \in Nat \ {0}
    BY MultiplexerAssumption
  <2>4. 0 % SidMod = 0
    BY <2>3
  <2>. QED
    BY <1>2, <2>2, <2>4
<1>5. macs.frames = 0 /\ macs.headers = 0
  BY <1>2
<1>6. InFlight(queues, stream) = {}
  BY <1>2 DEF InFlight
<1>7. Lined(queues, stream)
  BY <1>2 DEF Lined
<1>8. PICK got : got = [id \in {} |-> 0]
  OBVIOUS
<1>9. Progress(got, decoded, chunked_buffers)
  BY <1>2, <1>3, <1>8 DEF Progress
<1>10. OpenDiffer(got) /\ Carried(got, queues, stream) /\ Ordered(decoded)
  BY <1>2, <1>3, <1>6 DEF OpenDiffer, Carried, Ordered
<1>11. Arrived(got, queues, stream, chunked_buffers, decoded)
  BY <1>7, <1>9, <1>10 DEF Arrived
<1>12. /\ header \in BOOLEAN /\ failed = "no" /\ macs.frames \in Nat
       /\ macs.headers = macs.frames + (IF header THEN 1 ELSE 0)
  <2>1. header = FALSE /\ failed = "no"
    BY <1>2
  <2>2. header \in BOOLEAN /\ (IF header THEN 1 ELSE 0) = 0
    BY <2>1, Zenon
  <2>. QED
    BY <1>5, <2>1, <2>2
<1>. QED
  BY <1>1, <1>3, <1>4, <1>11, <1>12 DEF DeliveryInvariant

LEMMA DeliveryDeliver ==
  ASSUME DeliveryInvariant, NEW k, Deliver(k)
  PROVE  DeliveryInvariant'
<1>1. /\ MuxTypeOK /\ AddedOK /\ stream \in Seq(FrameSet) /\ header \in BOOLEAN /\ decoded \in Seq(Message)
      /\ \A p \in Ids : sequence_id[p] = Count(p, Len(added)) % SidMod
      /\ failed = "no" /\ macs.frames \in Nat /\ macs.headers = macs.frames + (IF header THEN 1 ELSE 0)
  BY DEF DeliveryInvariant
<1>2. PICK got : Arrived(got, queues, stream, chunked_buffers, decoded)
  BY DEF DeliveryInvariant
<1>3. queues' = queues /\ sequence_id' = sequence_id /\ last_protocol' = last_protocol /\ added' = added
  BY DEF Deliver, sender
<1>4. queues \in [Ids -> Queued(FrameSet)]
  BY <1>1 DEF MuxTypeOK
<1>5. PICK r0 : r0 = Receiver(stream, have + k, header, chunked_buffers, macs.headers, macs.frames, failed, <<>>)
  OBVIOUS
<1>6. /\ r0.stream = stream /\ r0.have = have + k /\ r0.header = header /\ r0.bufs = chunked_buffers
      /\ r0.macs = macs.headers /\ r0.frames = macs.frames /\ r0.failed = failed /\ r0.out = <<>>
  BY <1>5 DEF Receiver
<1>7. Receives(got, queues, decoded, r0)
  <2>1. decoded \o <<>> = decoded /\ <<>> \in Seq(Message)
    BY <1>1, ConcatEmptySeq
  <2>. QED
    BY <1>1, <1>2, <1>5, <1>6, <2>1 DEF Receives
<1>8. PICK r : r = decode(r0)
  OBVIOUS
<1>9. PICK got2 : Receives(got2, queues, decoded, r)
  BY <1>1, <1>4, <1>7, <1>8, DecodeReceives
<1>10. /\ stream' = r.stream /\ have' = r.have /\ header' = r.header
       /\ chunked_buffers' = r.bufs /\ failed' = r.failed
       /\ macs' = [headers |-> r.macs, frames |-> r.frames]
       /\ decoded' = decoded \o r.out
  BY <1>5, <1>8 DEF Deliver, Receiver
<1>11. /\ r = Receiver(r.stream, r.have, r.header, r.bufs, r.macs, r.frames, "no", r.out)
       /\ r.stream \in Seq(FrameSet) /\ r.header \in BOOLEAN /\ r.frames \in Nat /\ r.out \in Seq(Message)
       /\ r.macs = r.frames + (IF r.header THEN 1 ELSE 0)
       /\ Arrived(got2, queues, r.stream, r.bufs, decoded \o r.out)
  BY <1>9 DEF Receives
<1>12. r.failed = "no"
  BY <1>11 DEF Receiver
<1>13. PICK qs, s, b, dec : qs = queues' /\ s = stream' /\ b = chunked_buffers' /\ dec = decoded'
  OBVIOUS
<1>14. Arrived(got2, qs, s, b, dec)
  BY <1>3, <1>10, <1>11, <1>13
<1>15. (\E g : Arrived(g, queues, stream, chunked_buffers, decoded))'
  BY <1>3, <1>13, <1>14, ArrivedStill
<1>16. decoded' \in Seq(Message)
  BY <1>1, <1>10, <1>11, ConcatProperties
<1>17. MuxTypeOK' /\ AddedOK' /\ \A p \in Ids : (sequence_id[p] = Count(p, Len(added)) % SidMod)'
  BY <1>1, <1>3 DEF MuxTypeOK, AddedOK, Count
<1>18. /\ stream' \in Seq(FrameSet) /\ header' \in BOOLEAN /\ failed' = "no"
       /\ macs'.frames \in Nat /\ macs'.headers = macs'.frames + (IF header' THEN 1 ELSE 0)
  BY <1>10, <1>11, <1>12
<1>. QED
  BY <1>15, <1>16, <1>17, <1>18 DEF DeliveryInvariant

\* A pass under way has moved frames of p to the end of the stream.
SameFlow(qs, s, qs2, s2) ==
  FlowType(qs2, s2) /\ InFlight(qs2, s2) = InFlight(qs, s) /\ (Lined(qs, s) => Lined(qs2, s2))

Popped(qs, s, p) ==
  {st \in PassStates(FrameSet) : SameFlow(qs, s, [qs EXCEPT ![p] = st.queues], s \o st.frames)}

LEMMA FrameTaken ==
  ASSUME NEW qs, NEW s, FlowType(qs, s), NEW p \in Ids, NEW st \in Popped(qs, s, p),
         NEW q \in QueueNames, NEW window \in Nat
  PROVE  TakeFrame(st, q, window) \in Popped(qs, s, p)
<1>1. st \in PassStates(FrameSet) /\ SameFlow(qs, s, [qs EXCEPT ![p] = st.queues], s \o st.frames)
  BY DEF Popped
<1>2. PICK new \in PassStates(FrameSet) : new = TakeFrame(st, q, window)
  BY <1>1, TakeFrameIs
<1>3. CASE new = st
  BY <1>2, <1>3
<1>4. CASE new # st
  <2>1. PICK Q \in [QueueNames -> Seq(FrameSet)] : Q = st.queues
    BY <1>1 DEF PassStates
  <2>2. PICK fr \in Seq(FrameSet) : fr = st.frames
    BY <1>1 DEF PassStates
  <2>3. Q[q] # <<>> /\ new.queues = [Q EXCEPT ![q] = Tail(@)] /\ new.frames = Append(fr, Head(Q[q]))
    BY <1>2, <1>4, <2>1, <2>2 DEF TakeFrame
  <2>4. PICK h \in FrameSet : h = Head(Q[q])
    BY <2>1, <2>3, HeadTailProperties
  <2>5. s \in Seq(FrameSet) /\ qs \in [Ids -> Queued(FrameSet)]
    BY DEF FlowType
  <2>6. PICK s2 : s2 = s \o fr
    OBVIOUS
  <2>7. PICK s3 : s3 = s \o Append(fr, h)
    OBVIOUS
  <2>8. s3 = Append(s2, h)
    <3>1. GoesLast(s, fr, h)
      BY <2>2, <2>4, <2>5, AppendConcat
    <3>. QED
      BY <2>6, <2>7, <3>1 DEF GoesLast
  <2>9. PICK Q3 : Q3 = [Q EXCEPT ![q] = Tail(@)]
    OBVIOUS
  <2>10. Q3 \in Queued(FrameSet) /\ Q3[q] = Tail(Q[q]) /\ \A x \in QueueNames : x # q => Q3[x] = Q[x]
    <3>1. Tail(Q[q]) \in Seq(FrameSet)
      BY <2>1, <2>3, HeadTailProperties
    <3>. QED
      BY <2>1, <2>9, <3>1 DEF Queued
  <2>11. PICK qs2 : qs2 = [qs EXCEPT ![p] = Q]
    OBVIOUS
  <2>12. PICK qs3 : qs3 = [qs EXCEPT ![p] = Q3]
    OBVIOUS
  <2>13. SameFlow(qs, s, qs2, s2)
    BY <1>1, <2>1, <2>2, <2>6, <2>11
  <2>14. qs2[p] = Q /\ qs3[p] = Q3 /\ (\A x \in Ids : x # p => qs3[x] = qs2[x]) /\ qs3 \in [Ids -> Queued(FrameSet)]
    BY <2>5, <2>10, <2>11, <2>12
  <2>15. Moved(qs2, s2, qs3, s3, p, q)
    BY <2>3, <2>4, <2>8, <2>10, <2>14 DEF Moved
  <2>16. SameFlow(qs, s, qs3, s3)
    BY <2>13, <2>15, MovedIs, MoveKeepsFrames, MoveKeepsLines DEF SameFlow
  <2>17. qs3 = [qs EXCEPT ![p] = new.queues] /\ s3 = s \o new.frames
    BY <2>3, <2>4, <2>7, <2>9, <2>12
  <2>. QED
    BY <1>2, <2>16, <2>17 DEF Popped
<1>. QED
  BY <1>3, <1>4

LEMMA PassTaken ==
  ASSUME NEW qs, NEW s, FlowType(qs, s), NEW p \in Ids, NEW st \in Popped(qs, s, p), NEW window \in Nat
  PROVE  Pass(st, window) \in Popped(qs, s, p)
<1>1. st \in PassStates(FrameSet) /\ SameFlow(qs, s, [qs EXCEPT ![p] = st.queues], s \o st.frames)
  BY DEF Popped
<1>2. PICK s0 \in PassStates(FrameSet) : s0 = [st EXCEPT !.taken = 0]
  BY <1>1 DEF PassStates
<1>3. s0.queues = st.queues /\ s0.frames = st.frames
  BY <1>1, <1>2 DEF PassStates
<1>4. s0 \in Popped(qs, s, p)
  BY <1>1, <1>2, <1>3 DEF Popped
<1>5. "priority" \in QueueNames /\ "normal" \in QueueNames /\ "chunked" \in QueueNames
  BY DEF QueueNames
<1>6. PICK s1 \in Popped(qs, s, p) : s1 = TakeFrame(s0, "priority", window)
  BY <1>4, <1>5, FrameTaken
<1>7. PICK s2 \in Popped(qs, s, p) : s2 = TakeFrame(s1, "normal", window)
  BY <1>5, <1>6, FrameTaken
<1>8. PICK s3 \in Popped(qs, s, p) : s3 = TakeFrame(s2, "chunked", window)
  BY <1>5, <1>7, FrameTaken
<1>. QED
  BY <1>2, <1>6, <1>7, <1>8 DEF Pass

\* pop_frames_for_protocol takes frames from the front of p's queues, in order.
LEMMA PopKeepsFlow ==
  ASSUME NEW qs, NEW s, FlowType(qs, s), NEW p \in Ids
  PROVE  SameFlow(qs, s, [qs EXCEPT ![p] = pop_frames_for_protocol(qs, p).queues],
                         s \o pop_frames_for_protocol(qs, p).frames)
<1>1. qs \in [Ids -> Queued(FrameSet)] /\ s \in Seq(FrameSet)
  BY DEF FlowType
<1>2. qs[p] \in [QueueNames -> Seq(FrameSet)]
  BY <1>1 DEF Queued
<1>3. PICK n \in Nat : n = num_active(qs)
  <2>1. {x \in Ids : is_active(qs, x)} \subseteq Ids
    OBVIOUS
  <2>2. IsFiniteSet({x \in Ids : is_active(qs, x)})
    BY <2>1, IdsIs, FS_Subset
  <2>. QED
    BY <2>2, FS_CardinalityType DEF num_active
<1>4. PICK m \in Nat \ {0} : m = Max({1, n})
  BY MaxOne
<1>5. PICK start : start = PopStart(qs, p)
  OBVIOUS
<1>6. PICK window \in Nat : window = Window(m)
  BY WindowIs
<1>7. start \in PassStates(FrameSet)
  BY <1>2, <1>3, <1>4, <1>5, PopsInPasses
<1>8. AfterPasses(pop_frames_for_protocol(qs, p), start, window)
  BY <1>2, <1>3, <1>4, <1>5, <1>6, PopsInPasses
<1>9. PICK loop : \E k \in 0 .. MaxWindow : IsPopping(loop, start, window) /\ pop_frames_for_protocol(qs, p) = loop[k]
  BY <1>8 DEF AfterPasses
<1>10. PICK k \in 0 .. MaxWindow : IsPopping(loop, start, window) /\ pop_frames_for_protocol(qs, p) = loop[k]
  BY <1>9
<1>11. start \in Popped(qs, s, p)
  <2>1. start.queues = qs[p] /\ start.frames = <<>>
    BY <1>5 DEF PopStart
  <2>2. [qs EXCEPT ![p] = start.queues] = qs
    BY <1>1, <2>1
  <2>3. s \o start.frames = s
    BY <1>1, <2>1, ConcatEmptySeq
  <2>. QED
    BY <1>7, <2>2, <2>3 DEF Popped, SameFlow
<1>12. Pass(start, window) \in Popped(qs, s, p) /\ \A st \in Popped(qs, s, p) : Pass(st, window) \in Popped(qs, s, p)
  BY <1>6, <1>11, PassTaken
<1>13. loop[k] \in Popped(qs, s, p)
  BY <1>10, <1>12, PoppingWithin
<1>. QED
  BY <1>10, <1>13 DEF Popped

LEMMA FollowingReady ==
  ASSUME MuxTypeOK, Ready(queues, last_protocol) # {}
  PROVE  Following(last_protocol, Min(Ready(queues, last_protocol))) \in Ids
<1>1. PICK R : R = Ready(queues, last_protocol)
  OBVIOUS
<1>2. R \subseteq Nat /\ R \subseteq 1 .. Len(Protocols)
  BY <1>1 DEF Ready
<1>3. \E x \in R : \A y \in R : x <= y
  BY <1>1, <1>2, LeastNat
<1>4. Min(R) \in 1 .. Len(Protocols)
  BY <1>2, <1>3 DEF Min
<1>5. last_protocol \in Ids
  BY DEF MuxTypeOK
<1>. QED
  BY <1>1, <1>4, <1>5, FollowingIs

LEMMA PopTypes == ASSUME MuxTypeOK, pop_frames PROVE MuxTypeOK'
<1>1. queues \in [Ids -> Queued(FrameSet)] /\ last_protocol \in Ids
  BY DEF MuxTypeOK
<1>2. sequence_id' = sequence_id /\ added' = added /\ last_protocol' = Following(last_protocol, 1)
  BY DEF pop_frames, next_protocol
<1>3. last_protocol' \in Ids
  BY <1>1, <1>2, FollowingIs
<1>4. queues' \in [Ids -> Queued(FrameSet)]
  <2>1. CASE Ready(queues, last_protocol) = {}
    BY <1>1, <2>1 DEF pop_frames
  <2>2. CASE Ready(queues, last_protocol) # {}
    <3>1. PICK p \in Ids : p = Following(last_protocol, Min(Ready(queues, last_protocol)))
      BY <2>2, FollowingReady
    <3>2. queues' = [queues EXCEPT ![p] = pop_frames_for_protocol(queues, p).queues]
      BY <2>2, <3>1 DEF pop_frames
    <3>3. FlowType(queues, <<>>)
      BY <1>1 DEF FlowType
    <3>. QED
      BY <3>2, <3>3, PopKeepsFlow DEF SameFlow, FlowType
  <2>. QED
    BY <2>1, <2>2
<1>. QED
  BY <1>2, <1>3, <1>4 DEF MuxTypeOK

LEMMA DeliveryPop ==
  ASSUME DeliveryInvariant, pop_frames PROVE DeliveryInvariant'
<1>1. /\ MuxTypeOK /\ AddedOK /\ stream \in Seq(FrameSet) /\ header \in BOOLEAN /\ decoded \in Seq(Message)
      /\ \A p \in Ids : sequence_id[p] = Count(p, Len(added)) % SidMod
      /\ failed = "no" /\ macs.frames \in Nat /\ macs.headers = macs.frames + (IF header THEN 1 ELSE 0)
  BY DEF DeliveryInvariant
<1>2. PICK got : Arrived(got, queues, stream, chunked_buffers, decoded)
  BY DEF DeliveryInvariant
<1>3. /\ sequence_id' = sequence_id /\ added' = added /\ header' = header /\ decoded' = decoded
      /\ failed' = failed /\ macs' = macs /\ chunked_buffers' = chunked_buffers
  BY DEF pop_frames, receiver
<1>4. FlowType(queues, stream)
  BY <1>1 DEF FlowType, MuxTypeOK
<1>5. SameFlow(queues, stream, queues', stream')
  <2>1. CASE Ready(queues, last_protocol) = {}
    BY <1>4, <2>1 DEF pop_frames, SameFlow
  <2>2. CASE Ready(queues, last_protocol) # {}
    <3>1. PICK p \in Ids : p = Following(last_protocol, Min(Ready(queues, last_protocol)))
      BY <1>1, <2>2, FollowingReady
    <3>2. /\ queues' = [queues EXCEPT ![p] = pop_frames_for_protocol(queues, p).queues]
          /\ stream' = stream \o pop_frames_for_protocol(queues, p).frames
      BY <2>2, <3>1 DEF pop_frames
    <3>3. PICK left : left = [queues EXCEPT ![p] = pop_frames_for_protocol(queues, p).queues]
      OBVIOUS
    <3>4. PICK sent : sent = stream \o pop_frames_for_protocol(queues, p).frames
      OBVIOUS
    <3>5. SameFlow(queues, stream, left, sent)
      BY <1>4, <3>3, <3>4, PopKeepsFlow
    <3>. QED
      BY <3>2, <3>3, <3>4, <3>5
  <2>. QED
    BY <2>1, <2>2
<1>6. PICK qs, s, b, dec : qs = queues' /\ s = stream' /\ b = chunked_buffers' /\ dec = decoded'
  OBVIOUS
<1>7. Arrived(got, qs, s, b, dec)
  <2>1. FlowType(qs, s) /\ InFlight(qs, s) = InFlight(queues, stream) /\ (Lined(queues, stream) => Lined(qs, s))
    BY <1>5, <1>6 DEF SameFlow
  <2>2. Carried(got, queues, stream) => Carried(got, qs, s)
    BY <2>1 DEF Carried
  <2>. QED
    BY <1>2, <1>3, <1>6, <2>1, <2>2 DEF Arrived
<1>8. (\E g : Arrived(g, queues, stream, chunked_buffers, decoded))'
  BY <1>3, <1>6, <1>7, ArrivedStill
<1>9. stream' \in Seq(FrameSet)
  BY <1>5 DEF SameFlow, FlowType
<1>10. AddedOK' /\ \A p \in Ids : (sequence_id[p] = Count(p, Len(added)) % SidMod)'
  BY <1>1, <1>3 DEF AddedOK, Count
<1>11. MuxTypeOK'
  BY <1>1, PopTypes
<1>12. /\ header' \in BOOLEAN /\ failed' = "no" /\ decoded' \in Seq(Message)
       /\ macs'.frames \in Nat /\ macs'.headers = macs'.frames + (IF header' THEN 1 ELSE 0)
  BY <1>1, <1>3
<1>. QED
  BY <1>8, <1>9, <1>10, <1>11, <1>12 DEF DeliveryInvariant

-----------------------------------------------------------------------------
(* A new packet.                                                           *)

LEMMA NewFramesCut ==
  ASSUME NEW p \in Ids, NEW len \in Lengths[p], NEW id \in Nat, NEW sid \in Nat
  PROVE  NewFrames(p, len, id, sid) \in Seq(FrameSet) /\ IsCut(NewFrames(p, len, id, sid), p, sid, id, len)
<1>1. PICK packet : packet = [id |-> id, proto |-> p, payload |-> Payload(id, len)]
  OBVIOUS
<1>2. PICK m \in Nat \ {0} : m <= Len(Protocols) /\ protocol_window_size(queues, p) = Window(m)
  BY WindowAsked DEF Asked
<1>3. PICK w \in Nat : w = Window(m)
  BY WindowIs
<1>4. PICK k \in Nat : w = k * Pad
  BY <1>3, WindowIs
<1>5. w >= 4 * Pad
  BY <1>2, <1>3, WindowIs
<1>6. len \in Nat
  BY MultiplexerAssumption
<1>7. /\ packet.payload \in Seq(Nat \X Nat) /\ packet.proto \in Ids /\ packet.id \in Nat
  BY <1>1, <1>6 DEF Payload
<1>8. PICK frames : frames = Frames(packet, sid, w)
  OBVIOUS
<1>9. frames = NewFrames(p, len, id, sid)
  BY <1>1, <1>2, <1>3, <1>8 DEF NewFrames, Payload
<1>10. frames \in Seq(FrameSet)
  <2>1. frames \in Seq(Fitting(w))
    BY <1>3, <1>4, <1>5, <1>7, <1>8, FramesFit
  <2>. QED
    BY <2>1 DEF Fitting
<1>11. IsCut(frames, p, sid, id, len)
  BY <1>1, <1>4, <1>5, <1>6, <1>8, FramesCut
<1>. QED
  BY <1>9, <1>10, <1>11

\* What add_packet does: the frames of a packet go to the end of one queue of p.
Adds(p, len, frames, q) ==
  /\ len \in Nat /\ frames \in Seq(FrameSet) /\ IsCut(frames, p, sequence_id[p], Len(added) + 1, len)
  /\ q \in QueueNames /\ Spread(p) < MaxSpread
  /\ q = "chunked" <=> Len(frames) # 1
  /\ queues' \in [Ids -> Queued(FrameSet)] /\ queues'[p][q] = queues[p][q] \o frames
  /\ \A p1 \in Ids, q1 \in QueueNames : p1 # p \/ q1 # q => queues'[p1][q1] = queues[p1][q1]
  /\ sequence_id' = [sequence_id EXCEPT ![p] = (@ + 1) % SidMod]
  /\ added' = Append(added, [id |-> Len(added) + 1, proto |-> p, queue |-> q, len |-> len])
  /\ UNCHANGED <<last_protocol, stream, receiver>>

LEMMA AddEffect ==
  ASSUME MuxTypeOK, NEW p \in Ids, NEW len \in Lengths[p], NEW prioritize \in BOOLEAN,
         add_packet(p, len, prioritize)
  PROVE  \E frames, q : Adds(p, len, frames, q)
<1> DEFINE id == Len(added) + 1
           packet == [id |-> id, proto |-> p, payload |-> [i \in 1 .. len |-> <<id, i>>]]
           frames == Frames(packet, sequence_id[p], protocol_window_size(queues, p))
           q == IF prioritize THEN "priority" ELSE IF Len(frames) = 1 THEN "normal" ELSE "chunked"
<1>1. id \in Nat /\ sequence_id[p] \in Nat /\ queues \in [Ids -> Queued(FrameSet)]
  BY DEF MuxTypeOK
<1>2. frames \in Seq(FrameSet) /\ IsCut(frames, p, sequence_id[p], id, len)
  <2>1. frames = NewFrames(p, len, id, sequence_id[p])
    BY DEF NewFrames
  <2> HIDE DEF id, packet, frames
  <2>. QED
    BY <1>1, <2>1, NewFramesCut
<1>3. q \in QueueNames
  BY DEF QueueNames
<1>4. /\ queues' = [queues EXCEPT ![p][q] = @ \o frames]
      /\ sequence_id' = [sequence_id EXCEPT ![p] = (@ + 1) % SidMod]
      /\ added' = Append(added, [id |-> id, proto |-> p, queue |-> q, len |-> len])
      /\ Spread(p) < MaxSpread /\ UNCHANGED <<last_protocol, stream, receiver>>
      /\ prioritize => Len(frames) = 1
  BY DEF add_packet
<1>5. q = "chunked" <=> Len(frames) # 1
  <2>1. prioritize => Len(frames) = 1
    BY <1>4
  <2> HIDE DEF frames
  <2>. QED
    BY <2>1
<1> HIDE DEF frames, q
<1>6. PICK old \in [QueueNames -> Seq(FrameSet)] : old = queues[p]
  BY <1>1 DEF Queued
<1>7. PICK new : new = [old EXCEPT ![q] = @ \o frames]
  OBVIOUS
<1>8. queues' = [queues EXCEPT ![p] = new]
  BY <1>4, <1>6, <1>7
<1>9. new \in [QueueNames -> Seq(FrameSet)] /\ new[q] = old[q] \o frames
  <2>1. old[q] \o frames \in Seq(FrameSet)
    BY <1>2, <1>3, <1>6, ConcatProperties
  <2>. QED
    BY <1>3, <1>6, <1>7, <2>1
<1>10. \A q1 \in QueueNames : q1 # q => new[q1] = old[q1]
  BY <1>6, <1>7
<1>11. queues' \in [Ids -> Queued(FrameSet)] /\ queues'[p] = new
       /\ \A p1 \in Ids : p1 # p => queues'[p1] = queues[p1]
  BY <1>1, <1>8, <1>9 DEF Queued
<1>12. len \in Nat
  BY MultiplexerAssumption
<1>13. Adds(p, len, frames, q)
  <2>1. queues'[p][q] = queues[p][q] \o frames
    BY <1>6, <1>9, <1>11
  <2>2. \A p1 \in Ids, q1 \in QueueNames : p1 # p \/ q1 # q => queues'[p1][q1] = queues[p1][q1]
    BY <1>6, <1>10, <1>11
  <2>. QED
    BY <1>2, <1>3, <1>4, <1>5, <1>11, <1>12, <2>1, <2>2 DEF Adds
<1>. QED
  BY <1>13

\* Nothing changes for the packets before a new one.
OthersStay(n) ==
  /\ DOMAIN added' = DOMAIN added \cup {n} /\ Len(added') = n /\ n \notin DOMAIN added
  /\ \A i \in DOMAIN added : i < n /\ added'[i] = added[i] /\ Whole(i)' = Whole(i) /\ Sid(i)' = Sid(i)
  /\ \A i, k \in DOMAIN added : SameQueue(i, k)' <=> SameQueue(i, k)
  /\ \A p \in Ids, k \in 0 .. n - 1 : Count(p, k)' = Count(p, k)

LEMMA AddedGrows ==
  ASSUME AddedOK, NEW x \in [id : Nat, proto : Ids, queue : QueueNames, len : Nat],
         NEW n, n = Len(added) + 1, x.id = n, added' = Append(added, x)
  PROVE  /\ AddedOK' /\ OthersStay(n) /\ added'[n] = x
         /\ \A p \in Ids : Count(p, n)' = Count(p, n - 1) + (IF x.proto = p THEN 1 ELSE 0)
<1>1. PICK S : S = [id : Nat, proto : Ids, queue : QueueNames, len : Nat]
  OBVIOUS
<1>2. added \in Seq(S) /\ x \in S /\ Len(added) \in Nat /\ DOMAIN added = 1 .. n - 1 /\ n \in Nat \ {0}
  BY <1>1, AddedIs DEF AddedOK
<1>3. /\ added' \in Seq(S) /\ Len(added') = n /\ added'[n] = x /\ DOMAIN added' = 1 .. n
      /\ \A i \in 1 .. n - 1 : added'[i] = added[i]
  BY <1>2, AppendProperties
<1>4. AddedOK'
  <2>1. \A i \in DOMAIN added' : added'[i].id = i
    BY <1>2, <1>3 DEF AddedOK
  <2>. QED
    BY <1>1, <1>3, <2>1 DEF AddedOK
<1>5. ASSUME NEW p \in Ids, NEW k \in 0 .. n - 1 PROVE Count(p, k)' = Count(p, k)
  <2>1. {j \in 1 .. k : added'[j].proto = p} = {j \in 1 .. k : added[j].proto = p}
    BY <1>2, <1>3
  <2>. QED
    BY <2>1 DEF Count
<1>6. ASSUME NEW i \in DOMAIN added
      PROVE  i < n /\ added'[i] = added[i] /\ Whole(i)' = Whole(i) /\ Sid(i)' = Sid(i)
  <2>1. i \in 1 .. n - 1 /\ added'[i] = added[i]
    BY <1>2, <1>3
  <2>2. added[i].proto \in Ids /\ i - 1 \in 0 .. n - 1
    BY <2>1, AddedIs
  <2>3. Count(added[i].proto, i - 1)' = Count(added[i].proto, i - 1)
    <3>1. PICK p \in Ids : p = added[i].proto
      BY <2>2
    <3>2. Count(p, i - 1)' = Count(p, i - 1)
      BY <1>5, <2>2
    <3>. QED
      BY <2>1, <3>1, <3>2 DEF Count
  <2>4. Sid(i)' = Sid(i)
    BY <2>1, <2>3 DEF Sid
  <2>. QED
    BY <2>1, <2>4 DEF Whole
<1>7. \A i, k \in DOMAIN added : SameQueue(i, k)' <=> SameQueue(i, k)
  BY <1>6 DEF SameQueue
<1>8. ASSUME NEW p \in Ids PROVE Count(p, n)' = Count(p, n - 1) + (IF x.proto = p THEN 1 ELSE 0)
  <2>1. PICK A : A = {j \in 1 .. n - 1 : added[j].proto = p}
    OBVIOUS
  <2>2. PICK B : B = {j \in 1 .. n : added'[j].proto = p}
    OBVIOUS
  <2>3. IsFiniteSet(A) /\ n \notin A /\ Cardinality(A) \in Nat
    <3>1. A \subseteq 1 .. n - 1 /\ n \notin A
      BY <1>2, <2>1
    <3>2. IsFiniteSet(1 .. n - 1)
      BY <1>2, FS_Interval
    <3>. QED
      BY <3>1, <3>2, FS_Subset, FS_CardinalityType
  <2>4. B = IF x.proto = p THEN A \cup {n} ELSE A
    BY <1>2, <1>3, <2>1, <2>2
  <2>5. Cardinality(A \cup {n}) = Cardinality(A) + 1
    BY <2>3, FS_AddElement
  <2>6. Cardinality(B) = Cardinality(A) + (IF x.proto = p THEN 1 ELSE 0)
    BY <2>3, <2>4, <2>5
  <2>. QED
    BY <1>3, <2>1, <2>2, <2>6 DEF Count
<1>9. OthersStay(n)
  <2>1. DOMAIN added' = DOMAIN added \cup {n} /\ n \notin DOMAIN added
    BY <1>2, <1>3
  <2>. QED
    BY <1>3, <1>5, <1>6, <1>7, <2>1 DEF OthersStay
<1>. QED
  BY <1>3, <1>4, <1>8, <1>9

\* What was so of frames and packets before a new one remains so.
LEMMA FramesStay ==
  ASSUME NEW n, OthersStay(n), NEW f, FrameOK(f) PROVE FrameOK(f)'
<1>1. PICK i \in DOMAIN added : i = f.packet
  BY DEF FrameOK
<1>2. i \in DOMAIN added' /\ added'[i] = added[i] /\ Whole(i)' = Whole(i) /\ Sid(i)' = Sid(i)
  BY <1>1 DEF OthersStay
<1>. QED
  BY <1>1, <1>2 DEF FrameOK

LEMMA OrderStays ==
  ASSUME AddedOK, NEW n, OthersStay(n), NEW dec, Ordered(dec) PROVE Ordered(dec)'
<1>1. ASSUME NEW m \in 1 .. Len(dec)
      PROVE  /\ dec[m].id \in DOMAIN added' /\ dec[m].proto = added'[dec[m].id].proto
             /\ dec[m].payload = Payload(dec[m].id, added'[dec[m].id].len)
             /\ \A l \in 1 .. m - 1 : dec[l].id # dec[m].id
             /\ \A k \in 1 .. dec[m].id - 1 : SameQueue(k, dec[m].id)' => \E l \in 1 .. m - 1 : dec[l].id = k
  <2>1. PICK i \in DOMAIN added : i = dec[m].id
    BY DEF Ordered
  <2>2. i \in DOMAIN added' /\ added'[i] = added[i]
    BY DEF OthersStay
  <2>3. ASSUME NEW k \in 1 .. i - 1, SameQueue(k, i)' PROVE \E l \in 1 .. m - 1 : dec[l].id = k
    <3>1. k \in DOMAIN added
      BY AddedIs
    <3>2. SameQueue(k, i)
      BY <2>3, <3>1 DEF OthersStay
    <3>. QED
      BY <2>1, <3>2 DEF Ordered
  <2>. QED
    BY <2>1, <2>2, <2>3 DEF Ordered
<1>. QED
  BY <1>1 DEF Ordered, Payload

\* Sequence ids are given in a cycle of SidMod.
LEMMA ModUnique ==
  ASSUME NEW m \in Nat \ {0}, NEW d \in Nat, NEW a \in 0 .. m - 1, NEW x \in Nat, x = m * d + a
  PROVE  x % m = a
<1>1. PICK e \in Nat : e = x \div m
  BY DivMod
<1>2. PICK r \in 0 .. m - 1 : r = x % m
  BY DivMod
<1>3. x = m * e + r
  BY <1>1, <1>2, DivMod
<1>4. PICK u \in Nat : u = m * d
  BY TimesGrows
<1>5. PICK v \in Nat : v = m * e
  BY TimesGrows
<1>6. d < e => u + m <= v
  <2>1. d < e => (d + 1) * m <= e * m /\ m * e = e * m
    BY TimesGrows
  <2>2. (d + 1) * m = m * d + m
    OBVIOUS
  <2>. QED
    BY <1>4, <1>5, <2>1, <2>2
<1>7. e < d => v + m <= u
  <2>1. e < d => (e + 1) * m <= d * m /\ m * d = d * m
    BY TimesGrows
  <2>2. (e + 1) * m = m * e + m
    OBVIOUS
  <2>. QED
    BY <1>4, <1>5, <2>1, <2>2
<1>8. e = d => u = v
  BY <1>4, <1>5
<1>9. x = u + a /\ x = v + r
  BY <1>3, <1>4, <1>5
<1>10. r = a
  BY <1>6, <1>7, <1>8, <1>9
<1>. QED
  BY <1>2, <1>10

LEMMA ModNext ==
  ASSUME NEW m \in Nat \ {0}, NEW x \in Nat
  PROVE  ((x % m) + 1) % m = (x + 1) % m
<1>1. PICK d \in Nat : d = x \div m
  BY DivMod
<1>2. PICK r \in 0 .. m - 1 : r = x % m
  BY DivMod
<1>3. x = m * d + r
  BY <1>1, <1>2, DivMod
<1>4. CASE r + 1 < m
  <2>1. (r + 1) % m = r + 1
    BY <1>4, ModIs
  <2>2. r + 1 \in 0 .. m - 1 /\ x + 1 \in Nat /\ x + 1 = m * d + (r + 1)
    <3>1. PICK u \in Nat : u = m * d
      BY TimesGrows
    <3>. QED
      BY <1>3, <1>4, <3>1
  <2>3. (x + 1) % m = r + 1
    <3>1. PICK y \in Nat : y = x + 1
      BY <2>2
    <3>2. PICK a \in 0 .. m - 1 : a = r + 1
      BY <2>2
    <3>3. y = m * d + a
      BY <2>2, <3>1, <3>2
    <3>4. y % m = a
      BY ONLY <3>3, m \in Nat \ {0}, ModUnique
    <3>. QED
      BY <3>1, <3>2, <3>4
  <2>. QED
    BY <1>2, <2>1, <2>3
<1>5. CASE r + 1 = m
  <2>1. (0 + m) % m = 0
    BY ModIs
  <2>2. m * (d + 1) = m * d + m
    OBVIOUS
  <2>3. 0 \in 0 .. m - 1 /\ x + 1 \in Nat /\ d + 1 \in Nat /\ x + 1 = m * (d + 1) + 0
    <3>1. PICK u \in Nat : u = m * d
      BY TimesGrows
    <3>2. x = u + r /\ m * (d + 1) = u + m
      BY <1>3, <2>2, <3>1
    <3>3. x + 1 = u + m
      BY <1>5, <3>2
    <3>. QED
      BY <3>1, <3>2, <3>3
  <2>4. (x + 1) % m = 0
    <3>1. PICK y \in Nat : y = x + 1
      BY <2>3
    <3>2. PICK e \in Nat : e = d + 1
      BY <2>3
    <3>3. y = m * e + 0 /\ 0 \in 0 .. m - 1
      BY <2>3, <3>1, <3>2
    <3>4. y % m = 0
      BY ONLY <3>3, m \in Nat \ {0}, ModUnique
    <3>. QED
      BY <3>1, <3>4
  <2>5. r + 1 = 0 + m
    BY <1>5
  <2>. QED
    BY <1>2, <2>1, <2>4, <2>5
<1>. QED
  BY <1>2, <1>4, <1>5

LEMMA ModApart ==
  ASSUME NEW m \in Nat \ {0}, NEW x \in Nat, NEW y \in Nat, x < y, y < x + m
  PROVE  x % m # y % m
<1> SUFFICES ASSUME x % m = y % m PROVE FALSE
  OBVIOUS
<1>1. PICK d \in Nat : d = x \div m
  BY DivMod
<1>2. PICK e \in Nat : e = y \div m
  BY DivMod
<1>3. PICK r \in 0 .. m - 1 : r = x % m
  BY DivMod
<1>4. x = m * d + r /\ y = m * e + r
  <2>1. y % m = r
    BY <1>3
  <2>. QED
    BY <1>1, <1>2, <1>3, <2>1, DivMod
<1>5. PICK u \in Nat : u = m * d
  BY TimesGrows
<1>6. PICK v \in Nat : v = m * e
  BY TimesGrows
<1>7. d < e => u + m <= v
  <2>1. d < e => (d + 1) * m <= e * m /\ m * e = e * m
    BY TimesGrows
  <2>2. (d + 1) * m = m * d + m
    OBVIOUS
  <2>. QED
    BY <1>5, <1>6, <2>1, <2>2
<1>8. e <= d => v <= u
  BY <1>5, <1>6, TimesGrows
<1>9. x = u + r /\ y = v + r
  BY <1>4, <1>5, <1>6
<1>. QED
  BY <1>7, <1>8, <1>9

\* A packet of p that has not come was given another sequence id than the next
\* one: no more than MaxSpread packets of p came since.
LEMMA OpenApart ==
  ASSUME AddedOK, NEW p \in Ids, Spread(p) < MaxSpread,
         NEW i \in DOMAIN added, added[i].proto = p, ~ Done(decoded, i), decoded \in Seq(Message)
  PROVE  Sid(i) # Count(p, Len(added)) % SidMod
<1>1. PICK n \in Nat : n = Len(added)
  BY AddedIs
<1>2. DOMAIN added = 1 .. n /\ i \in 1 .. n /\ added[i].id = i
  BY <1>1, AddedIs
<1>3. PICK S : S = {j \in 1 .. n : added[j].proto = p}
  OBVIOUS
<1>4. PICK A : A = {j \in 1 .. i - 1 : added[j].proto = p}
  OBVIOUS
<1>5. PICK B : B = {j \in i .. n : added[j].proto = p}
  OBVIOUS
<1>6. S = A \cup B /\ A \cap B = {} /\ i \in B /\ B \subseteq 1 .. n /\ A \subseteq 1 .. n
  BY <1>2, <1>3, <1>4, <1>5
<1>7. IsFiniteSet(1 .. n)
  BY FS_Interval
<1>8. PICK a \in Nat : a = Cardinality(A)
  BY <1>6, <1>7, FS_Subset, FS_CardinalityType
<1>9. PICK b \in Nat : b = Cardinality(B)
  BY <1>6, <1>7, FS_Subset, FS_CardinalityType
<1>10. Cardinality(S) = a + b
  <2>1. IsFiniteSet(A) /\ IsFiniteSet(B)
    BY <1>6, <1>7, FS_Subset
  <2>2. Cardinality(A \cup B) = Cardinality(A) + Cardinality(B) - Cardinality(A \cap B)
    BY <2>1, FS_Union
  <2>3. Cardinality(A \cap B) = 0
    BY <1>6, FS_EmptySet
  <2>. QED
    BY <1>6, <1>8, <1>9, <2>2, <2>3
<1>11. b > 0
  <2>1. IsFiniteSet(B) /\ B # {}
    BY <1>6, <1>7, FS_Subset
  <2>. QED
    BY <1>9, <2>1, FS_EmptySet
<1>12. b < SidMod /\ SidMod \in Nat \ {0}
  <2>1. PICK open : open = {x \in DOMAIN added : added[x].proto = p
                                        /\ \A y \in Range(decoded) : y.id # added[x].id}
    OBVIOUS
  <2>2. PICK T : T = {x \in DOMAIN added : added[x].proto = p /\ \E o \in open : o <= x}
    OBVIOUS
  <2>3. Cardinality(T) < MaxSpread
    BY <2>1, <2>2 DEF Spread
  <2>4. i \in open
    <3>1. ASSUME NEW y \in Range(decoded) PROVE y.id # i
      BY <3>1 DEF Range, Done
    <3>. QED
      BY <1>2, <2>1, <3>1
  <2>5. B \subseteq T
    BY <1>2, <1>5, <1>6, <2>2, <2>4
  <2>6. T \subseteq 1 .. n
    BY <1>2, <2>2
  <2>7. IsFiniteSet(T)
    BY <1>7, <2>6, FS_Subset
  <2>8. b <= Cardinality(T) /\ Cardinality(T) \in Nat
    BY <1>9, <2>5, <2>7, FS_Subset, FS_CardinalityType
  <2>9. MaxSpread <= SidMod /\ SidMod \in Nat \ {0} /\ MaxSpread \in Nat
    BY MultiplexerAssumption
  <2>. QED
    BY <2>3, <2>8, <2>9
<1>13. a % SidMod # (a + b) % SidMod
  <2>1. PICK y \in Nat : y = a + b
    OBVIOUS
  <2>2. a < y /\ y < a + SidMod
    BY <1>11, <1>12, <2>1
  <2>. QED
    BY <1>12, <2>1, <2>2, ModApart
<1>14. Count(p, i - 1) = a /\ Count(p, Len(added)) = a + b
  BY <1>1, <1>3, <1>4, <1>8, <1>10 DEF Count
<1>. QED
  BY <1>13, <1>14 DEF Sid

\* qs2 has frames at the end of the queue q of p, and is otherwise qs.
Grown(qs, qs2, frames, p, q) ==
  /\ qs2 \in [Ids -> Queued(FrameSet)] /\ frames \in Seq(FrameSet) /\ qs2[p][q] = qs[p][q] \o frames
  /\ \A p1 \in Ids, q1 \in QueueNames : p1 # p \/ q1 # q => qs2[p1][q1] = qs[p1][q1]

Lengthened(qs, qs2, frames, p, q) ==
  /\ Len(frames) \in Nat
  /\ \A p1 \in Ids, q1 \in QueueNames :
        /\ Len(qs[p1][q1]) \in Nat /\ qs[p1][q1] \in Seq(FrameSet)
        /\ \A i \in 1 .. Len(qs[p1][q1]) : qs2[p1][q1][i] = qs[p1][q1][i]
        /\ Len(qs2[p1][q1]) = Len(qs[p1][q1]) + (IF p1 = p /\ q1 = q THEN Len(frames) ELSE 0)
  /\ \A j \in 1 .. Len(frames) : qs2[p][q][Len(qs[p][q]) + j] = frames[j]

LEMMA GrownIs ==
  ASSUME NEW qs, NEW s, FlowType(qs, s), NEW qs2, NEW frames, NEW p \in Ids, NEW q \in QueueNames,
         Grown(qs, qs2, frames, p, q)
  PROVE  Lengthened(qs, qs2, frames, p, q)
<1>1. ASSUME NEW p1 \in Ids, NEW q1 \in QueueNames
      PROVE  qs[p1][q1] \in Seq(FrameSet) /\ Len(qs[p1][q1]) \in Nat
  <2>1. qs[p1] \in [QueueNames -> Seq(FrameSet)]
    BY DEF FlowType, Queued
  <2>2. qs[p1][q1] \in Seq(FrameSet)
    BY <2>1
  <2>. QED
    BY <2>2, LenProperties
<1>2. PICK old \in Seq(FrameSet) : old = qs[p][q]
  BY <1>1
<1>3. frames \in Seq(FrameSet) /\ Len(frames) \in Nat /\ Len(old) \in Nat
  BY LenProperties DEF Grown
<1>4. PICK new : new = old \o frames
  OBVIOUS
<1>5. /\ Len(new) = Len(old) + Len(frames)
      /\ \A i \in 1 .. Len(old) : new[i] = old[i]
      /\ \A j \in 1 .. Len(frames) : new[Len(old) + j] = frames[j]
  BY <1>3, <1>4
<1>6. qs2[p][q] = new
  BY <1>2, <1>4 DEF Grown
<1>7. \A p1 \in Ids, q1 \in QueueNames : p1 # p \/ q1 # q => qs2[p1][q1] = qs[p1][q1]
  BY DEF Grown
<1>8. ASSUME NEW p1 \in Ids, NEW q1 \in QueueNames
      PROVE  /\ \A i \in 1 .. Len(qs[p1][q1]) : qs2[p1][q1][i] = qs[p1][q1][i]
             /\ Len(qs2[p1][q1]) = Len(qs[p1][q1]) + (IF p1 = p /\ q1 = q THEN Len(frames) ELSE 0)
  <2>1. CASE p1 = p /\ q1 = q
    BY <1>2, <1>5, <1>6, <2>1
  <2>2. CASE p1 # p \/ q1 # q
    <3>1. PICK x : x = qs[p1][q1]
      OBVIOUS
    <3>2. qs2[p1][q1] = x
      BY <1>7, <2>2, <3>1
    <3>3. PICK l \in Nat : l = Len(x)
      BY <1>1, <3>1
    <3>4. (IF p1 = p /\ q1 = q THEN Len(frames) ELSE 0) = 0
      BY <2>2
    <3>5. Len(qs2[p1][q1]) = l /\ Len(qs[p1][q1]) = l /\ l = l + 0
      BY <3>1, <3>2, <3>3
    <3>. QED
      BY <3>1, <3>2, <3>4, <3>5
  <2>. QED
    BY <2>1, <2>2
<1>9. \A j \in 1 .. Len(frames) : qs2[p][q][Len(qs[p][q]) + j] = frames[j]
  BY <1>2, <1>5, <1>6
<1>. QED
  BY <1>1, <1>3, <1>8, <1>9 DEF Lengthened

LEMMA FlightGrows ==
  ASSUME NEW qs, NEW s, FlowType(qs, s), NEW qs2, NEW frames, NEW p \in Ids, NEW q \in QueueNames,
         Grown(qs, qs2, frames, p, q)
  PROVE  /\ \A f \in InFlight(qs2, s) : f \in InFlight(qs, s) \/ \E j \in 1 .. Len(frames) : f = frames[j]
         /\ \A f \in InFlight(qs, s) : f \in InFlight(qs2, s)
         /\ \A j \in 1 .. Len(frames) : frames[j] \in InFlight(qs2, s)
<1>0. Lengthened(qs, qs2, frames, p, q)
  BY GrownIs
<1>1. PICK n \in Nat : n = Len(qs[p][q])
  BY <1>0 DEF Lengthened
<1>2. PICK m \in Nat : m = Len(frames)
  BY <1>0 DEF Lengthened
<1>3. ASSUME NEW f \in InFlight(qs2, s)
      PROVE  f \in InFlight(qs, s) \/ \E j \in 1 .. m : f = frames[j]
  <2>1. f \in FrameSet
    BY DEF InFlight
  <2>2. CASE \E i \in 1 .. Len(s) : f = s[i]
    BY <2>1, <2>2 DEF InFlight
  <2>3. CASE \E p1 \in Ids, q1 \in QueueNames : \E i \in 1 .. Len(qs2[p1][q1]) : f = qs2[p1][q1][i]
    <3>1. PICK p1 \in Ids, q1 \in QueueNames : \E i \in 1 .. Len(qs2[p1][q1]) : f = qs2[p1][q1][i]
      BY <2>3
    <3>2. PICK i \in 1 .. Len(qs2[p1][q1]) : f = qs2[p1][q1][i]
      BY <3>1
    <3>3. PICK l \in Nat : l = Len(qs[p1][q1])
      BY <1>0 DEF Lengthened
    <3>4. CASE i \in 1 .. l
      <4>1. f = qs[p1][q1][i]
        BY <1>0, <3>2, <3>3, <3>4 DEF Lengthened
      <4>. QED
        BY <2>1, <3>3, <3>4, <4>1 DEF InFlight
    <3>5. CASE i \notin 1 .. l
      <4>0. Len(qs2[p1][q1]) = l + (IF p1 = p /\ q1 = q THEN m ELSE 0)
        BY <1>0, <1>2, <3>3 DEF Lengthened
      <4>1. p1 = p /\ q1 = q /\ Len(qs2[p1][q1]) = l + m
        <5>1. p1 = p /\ q1 = q
          <6> SUFFICES ASSUME ~ (p1 = p /\ q1 = q) PROVE FALSE
            OBVIOUS
          <6>1. Len(qs2[p1][q1]) = l
            BY <4>0
          <6>. QED
            BY <3>2, <3>5, <6>1
        <5>. QED
          BY <4>0, <5>1
      <4>2. i - l \in 1 .. m /\ i = l + (i - l)
        BY <3>5, <4>1
      <4>3. qs2[p][q][l + (i - l)] = frames[i - l]
        BY <1>0, <1>2, <3>3, <4>1, <4>2 DEF Lengthened
      <4>. QED
        BY <3>2, <4>1, <4>2, <4>3
    <3>. QED
      BY <3>4, <3>5
  <2>. QED
    BY <2>2, <2>3 DEF InFlight
<1>4. ASSUME NEW f \in InFlight(qs, s) PROVE f \in InFlight(qs2, s)
  <2>1. f \in FrameSet
    BY DEF InFlight
  <2>2. CASE \E i \in 1 .. Len(s) : f = s[i]
    BY <2>1, <2>2 DEF InFlight
  <2>3. CASE \E p1 \in Ids, q1 \in QueueNames : \E i \in 1 .. Len(qs[p1][q1]) : f = qs[p1][q1][i]
    <3>1. PICK p1 \in Ids, q1 \in QueueNames : \E i \in 1 .. Len(qs[p1][q1]) : f = qs[p1][q1][i]
      BY <2>3
    <3>2. PICK i \in 1 .. Len(qs[p1][q1]) : f = qs[p1][q1][i]
      BY <3>1
    <3>3. PICK l \in Nat : l = Len(qs[p1][q1])
      BY <1>0 DEF Lengthened
    <3>4. PICK x \in Nat : x = IF p1 = p /\ q1 = q THEN m ELSE 0
      OBVIOUS
    <3>5. Len(qs2[p1][q1]) = l + x
      BY <1>0, <1>2, <3>3, <3>4 DEF Lengthened
    <3>6. f = qs2[p1][q1][i]
      BY <1>0, <3>2 DEF Lengthened
    <3>7. i \in 1 .. Len(qs2[p1][q1])
      BY <3>2, <3>3, <3>5
    <3>. QED
      BY <2>1, <3>6, <3>7 DEF InFlight
  <2>. QED
    BY <2>2, <2>3 DEF InFlight
<1>5. ASSUME NEW j \in 1 .. m PROVE frames[j] \in InFlight(qs2, s)
  <2>1. frames[j] \in FrameSet
    BY <1>2, ElementOfSeq DEF Grown
  <2>2. Len(qs2[p][q]) = n + m
    BY <1>0, <1>1, <1>2 DEF Lengthened
  <2>3. n + j \in 1 .. Len(qs2[p][q])
    BY <2>2
  <2>4. frames[j] = qs2[p][q][n + j]
    BY <1>0, <1>1, <1>2 DEF Lengthened
  <2>. QED
    BY <2>1, <2>3, <2>4 DEF InFlight
<1>. QED
  BY <1>2, <1>3, <1>4, <1>5

\* The frames of a new packet come after all the others of its queue.
LEMMA LinesGrow ==
  ASSUME NEW qs, NEW s, FlowType(qs, s), NEW qs2, NEW frames, NEW p \in Ids, NEW q \in QueueNames,
         Grown(qs, qs2, frames, p, q), Lined(qs, s), AddedOK, NEW n \in Nat, OthersStay(n),
         \A f \in InFlight(qs, s) : f.packet \in DOMAIN added,
         added'[n].proto = p, added'[n].queue = q,
         \A j \in 1 .. Len(frames) : frames[j].proto = p /\ frames[j].packet = n,
         \A j, k \in 1 .. Len(frames) : j < k => Upto(frames[j]) <= At(frames[k])
  PROVE  Lined(qs2, s)'
<1>0. Lengthened(qs, qs2, frames, p, q)
  BY GrownIs
<1>1. PICK m \in Nat : m = Len(frames)
  BY <1>0 DEF Lengthened
<1>2. \A i \in DOMAIN added : i < n /\ added'[i] = added[i] /\ i \in Nat
  BY AddedIs DEF OthersStay
<1>3. \A i, k \in DOMAIN added : SameQueue(i, k)' <=> SameQueue(i, k)
  BY DEF OthersStay
<1>4. \A i \in 1 .. Len(s) : s[i] \in InFlight(qs, s) /\ s[i].packet \in DOMAIN added
  <2>1. \A i \in 1 .. Len(s) : s[i] \in FrameSet
    BY ElementOfSeq DEF FlowType
  <2>. QED
    BY <2>1 DEF InFlight
<1>5. \A i, k \in 1 .. Len(s) : i < k /\ SameQueue(s[i].packet, s[k].packet)' => Follows(s[i], s[k])
  <2>1. ASSUME NEW i \in 1 .. Len(s), NEW k \in 1 .. Len(s), i < k, SameQueue(s[i].packet, s[k].packet)'
        PROVE  Follows(s[i], s[k])
    <3>1. SameQueue(s[i].packet, s[k].packet)
      BY <1>3, <1>4, <2>1
    <3>. QED
      BY <2>1, <3>1 DEF Lined
  <2>. QED
    BY <2>1
<1>6. ASSUME NEW p1 \in Ids, NEW q1 \in QueueNames, NEW l \in Nat, l = Len(qs[p1][q1]), NEW i \in 1 .. l
      PROVE  /\ qs2[p1][q1][i] = qs[p1][q1][i] /\ qs2[p1][q1][i].packet \in DOMAIN added
             /\ qs2[p1][q1][i].proto = p1 /\ added'[qs2[p1][q1][i].packet].proto = p1
             /\ added'[qs2[p1][q1][i].packet].queue = q1
             /\ \A k \in 1 .. l : i < k => Follows(qs2[p1][q1][i], qs2[p1][q1][k])
             /\ \A k \in 1 .. Len(s) :
                  SameQueue(s[k].packet, qs2[p1][q1][i].packet)' => Follows(s[k], qs2[p1][q1][i])
  <2>1. PICK Q \in Seq(FrameSet) : Q = qs[p1][q1]
    BY <1>0 DEF Lengthened
  <2>2. \A k \in 1 .. l : qs2[p1][q1][k] = Q[k]
    BY <1>0, <1>6, <2>1 DEF Lengthened
  <2>3. PICK f \in FrameSet : f = Q[i]
    BY <1>6, <2>1, ElementOfSeq
  <2>4. f \in InFlight(qs, s) /\ f.packet \in DOMAIN added
    <3>1. f = qs[p1][q1][i] /\ i \in 1 .. Len(qs[p1][q1])
      BY <1>6, <2>1, <2>3
    <3>2. f \in InFlight(qs, s)
      BY <3>1 DEF InFlight
    <3>. QED
      BY <3>2
  <2>5. /\ f.proto = p1 /\ added[f.packet].proto = p1 /\ added[f.packet].queue = q1
        /\ \A k \in 1 .. l : i < k => Follows(f, Q[k])
        /\ \A k \in 1 .. Len(s) : SameQueue(s[k].packet, f.packet) => Follows(s[k], f)
    BY <1>6, <2>1, <2>3 DEF Lined
  <2>6. added'[f.packet] = added[f.packet]
    BY <1>2, <2>4
  <2>7. \A k \in 1 .. Len(s) : SameQueue(s[k].packet, f.packet)' => Follows(s[k], f)
    BY <1>3, <1>4, <2>4, <2>5
  <2>8. qs2[p1][q1][i] = f
    BY <2>2, <2>3
  <2>. QED
    BY <2>1, <2>2, <2>3, <2>4, <2>5, <2>6, <2>7, <2>8
<1>7. PICK L \in Nat : L = Len(qs[p][q])
  BY <1>0 DEF Lengthened
<1>8. Len(qs2[p][q]) = L + m /\ \A j \in 1 .. m : qs2[p][q][L + j] = frames[j]
  BY <1>0, <1>1, <1>7 DEF Lengthened
<1>9. \A g : g.packet \in DOMAIN added => \A j \in 1 .. m : Follows(g, frames[j])
  BY <1>1, <1>2 DEF Follows
<1>10. \A i \in 1 .. L : qs2[p][q][i].packet \in DOMAIN added
  BY <1>6, <1>7
<1>11. ASSUME NEW i \in L + 1 .. L + m
       PROVE  /\ qs2[p][q][i].proto = p /\ added'[qs2[p][q][i].packet].proto = p
              /\ added'[qs2[p][q][i].packet].queue = q
              /\ \A k \in 1 .. L + m : i < k => Follows(qs2[p][q][i], qs2[p][q][k])
              /\ \A k \in 1 .. Len(s) : Follows(s[k], qs2[p][q][i])
  <2>1. PICK j \in 1 .. m : i = L + j
    <3>1. i - L \in 1 .. m /\ i = L + (i - L)
      OBVIOUS
    <3>. QED
      BY <3>1
  <2>2. qs2[p][q][i] = frames[j]
    BY <1>8, <2>1
  <2>3. frames[j].proto = p /\ frames[j].packet = n
    BY <1>1
  <2>4. ASSUME NEW k \in 1 .. L + m, i < k PROVE Follows(frames[j], qs2[p][q][k])
    <3>1. k - L \in 1 .. m /\ k = L + (k - L) /\ j < k - L
      BY <2>1, <2>4
    <3>2. PICK x \in 1 .. m : k = L + x /\ j < x
      BY <3>1
    <3>3. qs2[p][q][k] = frames[x]
      BY <1>8, <3>2
    <3>4. frames[x].packet = n /\ Upto(frames[j]) <= At(frames[x])
      BY <1>1, <3>2
    <3>. QED
      BY <2>3, <3>3, <3>4 DEF Follows
  <2>5. \A k \in 1 .. Len(s) : Follows(s[k], frames[j])
    BY <1>4, <1>9
  <2>. QED
    BY <2>2, <2>3, <2>4, <2>5
<1>12. ASSUME NEW p1 \in Ids, NEW q1 \in QueueNames, NEW i \in 1 .. Len(qs2[p1][q1])
       PROVE  /\ qs2[p1][q1][i].proto = p1 /\ added'[qs2[p1][q1][i].packet].proto = p1
              /\ added'[qs2[p1][q1][i].packet].queue = q1
              /\ \A k \in 1 .. Len(qs2[p1][q1]) : i < k => Follows(qs2[p1][q1][i], qs2[p1][q1][k])
              /\ \A k \in 1 .. Len(s) :
                   SameQueue(s[k].packet, qs2[p1][q1][i].packet)' => Follows(s[k], qs2[p1][q1][i])
  <2>1. CASE p1 = p /\ q1 = q
    <3>1. i \in 1 .. L + m
      BY <1>8, <2>1
    <3>2. CASE i \in 1 .. L
      <4>1. \A k \in L + 1 .. L + m : Follows(qs2[p][q][i], qs2[p][q][k])
        <5>1. ASSUME NEW k \in L + 1 .. L + m PROVE \E j \in 1 .. m : k = L + j
          <6>1. k - L \in 1 .. m /\ k = L + (k - L)
            OBVIOUS
          <6>. QED
            BY <6>1
        <5>2. qs2[p][q][i].packet \in DOMAIN added
          BY <1>10, <3>2
        <5>. QED
          BY <1>8, <1>9, <5>1, <5>2
      <4>2. \A k \in 1 .. L + m : k \in 1 .. L \/ k \in L + 1 .. L + m
        OBVIOUS
      <4>3. \A k \in 1 .. L : i < k => Follows(qs2[p][q][i], qs2[p][q][k])
        BY <1>6, <1>7, <3>2
      <4>4. \A k \in 1 .. L + m : i < k => Follows(qs2[p][q][i], qs2[p][q][k])
        BY <4>1, <4>2, <4>3
      <4>5. /\ qs2[p][q][i].proto = p /\ added'[qs2[p][q][i].packet].proto = p
            /\ added'[qs2[p][q][i].packet].queue = q
            /\ \A k \in 1 .. Len(s) : SameQueue(s[k].packet, qs2[p][q][i].packet)' => Follows(s[k], qs2[p][q][i])
        BY <1>6, <1>7, <3>2
      <4>6. Len(qs2[p][q]) = L + m
        BY <1>8
      <4>. QED
        BY <2>1, <4>4, <4>5, <4>6
    <3>3. CASE i \in L + 1 .. L + m
      BY <1>8, <1>11, <2>1, <3>3
    <3>. QED
      BY <3>1, <3>2, <3>3
  <2>2. CASE p1 # p \/ q1 # q
    <3>1. PICK l \in Nat : l = Len(qs[p1][q1])
      BY <1>0 DEF Lengthened
    <3>2. qs2[p1][q1] = qs[p1][q1]
      BY <2>2 DEF Grown
    <3>3. i \in 1 .. l /\ Len(qs2[p1][q1]) = l
      BY <3>1, <3>2
    <3>. QED
      BY <1>6, <3>1, <3>3
  <2>. QED
    BY <2>1, <2>2
<1>. QED
  BY <1>5, <1>12 DEF Lined

\* Nothing has come of the packet n.
NothingOf(got, got2, n) ==
  got2 \in [DOMAIN added' -> Nat] /\ got2[n] = 0 /\ \A i \in DOMAIN added : got2[i] = got[i]

LEMMA ProgressGrows ==
  ASSUME AddedOK, NEW n \in Nat, OthersStay(n), added'[n].len \in Nat,
         NEW got, NEW dec, NEW bufs, Progress(got, dec, bufs), Ordered(dec),
         NEW got2, NothingOf(got, got2, n)
  PROVE  Progress(got2, dec, bufs)'
<1>1. DOMAIN added' = DOMAIN added \cup {n} /\ n \notin DOMAIN added
  BY DEF OthersStay
<1>2. /\ \A i \in DOMAIN added : i < n /\ added'[i] = added[i] /\ Whole(i)' = Whole(i) /\ Sid(i)' = Sid(i)
      /\ \A i, k \in DOMAIN added : SameQueue(i, k)' <=> SameQueue(i, k)
  BY DEF OthersStay
<1>3. \A i \in DOMAIN added : i \in Nat /\ Whole(i) \in Nat
  BY AddedIs
<1>4. got2 \in [DOMAIN added' -> Nat] /\ got2[n] = 0 /\ \A i \in DOMAIN added : got2[i] = got[i]
  BY DEF NothingOf
<1>5. PICK w \in Nat \ {0} : w = Whole(n)'
  BY DEF Whole, CmdLen
<1>6. ~ Done(dec, n) /\ \A i : Done(dec, i)' <=> Done(dec, i)
  <2>1. \A m \in 1 .. Len(dec) : dec[m].id # n
    BY <1>1 DEF Ordered
  <2>. QED
    BY <2>1 DEF Done
<1>7. DOMAIN bufs = Ids
  BY DEF Progress
<1>8. ASSUME NEW i \in DOMAIN added'
      PROVE  got2[i] <= Whole(i)' /\ (got2[i] = Whole(i)' <=> Done(dec, i)')
  <2>1. CASE i = n
    BY <1>4, <1>5, <1>6, <2>1
  <2>2. CASE i # n
    <3>1. i \in DOMAIN added
      BY <1>1, <2>2
    <3>2. got[i] <= Whole(i) /\ (got[i] = Whole(i) <=> Done(dec, i))
      BY <3>1 DEF Progress
    <3>. QED
      BY <1>2, <1>4, <1>6, <3>1, <3>2
  <2>. QED
    BY <2>1, <2>2
<1>9. \A i \in DOMAIN added : Partial(got2, i)' <=> Partial(got, i)
  BY <1>2, <1>4 DEF Partial
<1>10. ~ Partial(got2, n)'
  BY <1>4 DEF Partial
<1>11. \A i \in DOMAIN added, t \in Nat : Buffer(i, t)' = Buffer(i, t)
  BY <1>2 DEF Buffer
<1>12. ASSUME NEW i \in DOMAIN added', Partial(got2, i)'
       PROVE  /\ added'[i].queue = "chunked" /\ Sid(i)' \in DOMAIN bufs[added'[i].proto]
              /\ bufs[added'[i].proto][Sid(i)'] = Buffer(i, got2[i])'
  <2>1. i \in DOMAIN added /\ Partial(got, i)
    BY <1>1, <1>9, <1>10, <1>12
  <2>2. /\ added[i].queue = "chunked" /\ Sid(i) \in DOMAIN bufs[added[i].proto]
        /\ bufs[added[i].proto][Sid(i)] = Buffer(i, got[i])
    BY <2>1 DEF Progress
  <2>3. PICK t \in Nat : t = got2[i] /\ t = got[i]
    BY <1>4, <2>1
  <2>4. Buffer(i, t)' = Buffer(i, t)
    BY <1>11, <2>1
  <2>5. Buffer(i, got2[i])' = Buffer(i, got[i])
    BY <2>3, <2>4 DEF Buffer
  <2>. QED
    BY <1>2, <2>1, <2>2, <2>5
<1>13. ASSUME NEW p \in Ids, NEW sd \in DOMAIN bufs[p]
       PROVE  \E i \in DOMAIN added' : added'[i].proto = p /\ Sid(i)' = sd /\ Partial(got2, i)'
  <2>1. PICK i \in DOMAIN added : added[i].proto = p /\ Sid(i) = sd /\ Partial(got, i)
    BY DEF Progress
  <2>2. i \in DOMAIN added' /\ added'[i].proto = p /\ Sid(i)' = sd /\ Partial(got2, i)'
    BY <1>1, <1>2, <1>9, <2>1
  <2>. QED
    BY <2>2
<1>14. ASSUME NEW i \in DOMAIN added', NEW k \in DOMAIN added', i < k, SameQueue(i, k)', got2[k] > 0
       PROVE  got2[i] = Whole(i)'
  <2>1. k \in DOMAIN added
    BY <1>1, <1>4, <1>14
  <2>2. i \in DOMAIN added
    BY <1>1, <1>2, <1>3, <1>14, <2>1
  <2>3. got[i] = Whole(i)
    BY <1>2, <1>4, <1>14, <2>1, <2>2 DEF Progress
  <2>. QED
    BY <1>2, <1>4, <2>2, <2>3
<1>. QED
  BY <1>4, <1>7, <1>8, <1>12, <1>13, <1>14 DEF Progress

LEMMA OpenStayApart ==
  ASSUME AddedOK, decoded \in Seq(Message), NEW n \in Nat, n = Len(added) + 1, OthersStay(n),
         NEW p \in Ids, added'[n].proto = p, Spread(p) < MaxSpread,
         NEW got, NEW bufs, Progress(got, decoded, bufs), OpenDiffer(got),
         NEW got2, NothingOf(got, got2, n)
  PROVE  OpenDiffer(got2)'
<1>1. DOMAIN added' = DOMAIN added \cup {n} /\ n \notin DOMAIN added
  BY DEF OthersStay
<1>2. \A i \in DOMAIN added : added'[i] = added[i] /\ Whole(i)' = Whole(i) /\ Sid(i)' = Sid(i)
  BY DEF OthersStay
<1>3. \A i \in DOMAIN added : got2[i] = got[i]
  BY DEF NothingOf
<1>4. Sid(n)' = Count(p, Len(added)) % SidMod
  <2>1. n - 1 = Len(added) /\ n - 1 \in 0 .. n - 1
    BY AddedIs
  <2>2. Count(p, n - 1)' = Count(p, n - 1)
    BY <2>1 DEF OthersStay
  <2>3. Sid(n)' = Count(p, n - 1)' % SidMod
    BY DEF Sid, Count
  <2>. QED
    BY <2>1, <2>2, <2>3
<1>5. ASSUME NEW i \in DOMAIN added, added[i].proto = p, got[i] < Whole(i) PROVE Sid(i)' # Sid(n)'
  <2>1. got[i] \in Nat /\ Whole(i) \in Nat
    BY AddedIs DEF Progress
  <2>2. ~ Done(decoded, i)
    BY <1>5, <2>1 DEF Progress
  <2>3. Sid(i) # Count(p, Len(added)) % SidMod
    BY <1>5, <2>2, OpenApart
  <2>. QED
    BY <1>2, <1>4, <2>3
<1>6. ASSUME NEW i \in DOMAIN added', NEW k \in DOMAIN added', i # k, added'[i].proto = added'[k].proto,
             got2[i] < Whole(i)', got2[k] < Whole(k)'
      PROVE  Sid(i)' # Sid(k)'
  <2>1. CASE i # n /\ k # n
    <3>1. i \in DOMAIN added /\ k \in DOMAIN added
      BY <1>1, <2>1
    <3>2. Sid(i) # Sid(k)
      BY <1>2, <1>3, <1>6, <3>1 DEF OpenDiffer
    <3>. QED
      BY <1>2, <3>1, <3>2
  <2>2. CASE i = n /\ k # n
    BY <1>1, <1>2, <1>3, <1>5, <1>6, <2>2
  <2>3. CASE i # n /\ k = n
    BY <1>1, <1>2, <1>3, <1>5, <1>6, <2>3
  <2>. QED
    BY <1>6, <2>1, <2>2, <2>3
<1>. QED
  BY <1>6 DEF OpenDiffer

LEMMA CarriedGrows ==
  ASSUME NEW qs, NEW s, FlowType(qs, s), NEW qs2, NEW frames, NEW p \in Ids, NEW q \in QueueNames,
         Grown(qs, qs2, frames, p, q), AddedOK, NEW n \in Nat, OthersStay(n),
         NEW len \in Nat, added'[n].proto = p, added'[n].queue = q, added'[n].len = len,
         NEW sid, Sid(n)' = sid, IsCut(frames, p, sid, n, len), q = "chunked" <=> Len(frames) # 1,
         NEW got, Carried(got, qs, s), NEW got2, NothingOf(got, got2, n)
  PROVE  Carried(got2, qs2, s)'
<1>1. DOMAIN added' = DOMAIN added \cup {n} /\ n \notin DOMAIN added
  BY DEF OthersStay
<1>2. \A i \in DOMAIN added : added'[i] = added[i] /\ Whole(i)' = Whole(i) /\ i \in Nat
  BY AddedIs DEF OthersStay
<1>3. got2[n] = 0 /\ \A i \in DOMAIN added : got2[i] = got[i]
  BY DEF NothingOf
<1>4. Whole(n)' = len + CmdLen
  BY DEF Whole
<1>5. InFlight(qs2, s)' = InFlight(qs2, s)
  BY DEF InFlight
<1>6. PICK m \in Nat : m = Len(frames)
  <2>1. Lengthened(qs, qs2, frames, p, q)
    BY GrownIs
  <2>. QED
    BY <2>1 DEF Lengthened
<1>7. ASSUME NEW j \in 1 .. m PROVE FrameOK(frames[j])' /\ frames[j].packet = n /\ 0 <= At(frames[j])
  <2>1. PICK f : f = frames[j]
    OBVIOUS
  <2>2. /\ f.proto = p /\ f.sid = sid /\ f.packet = n /\ f.total = len + CmdLen
        /\ At(f) \in Nat /\ Upto(f) \in Nat /\ At(f) < Upto(f) /\ Upto(f) <= len + CmdLen
        /\ \A l \in 1 .. Len(f.data) : f.data[l] = <<n, Base(f) + l>>
        /\ f.kind = "normal" <=> m = 1
        /\ f.kind = "normal" => Upto(f) = len + CmdLen
        /\ f.kind = "chunked_0" => Upto(f) < len + CmdLen
        /\ f.kind = "chunked_n" => At(f) > 0
    BY <1>6, <2>1 DEF IsCut
  <2>3. f.kind = "normal" <=> q # "chunked"
    BY <1>6, <2>2
  <2>4. n \in DOMAIN added' /\ f.sid = Sid(n)' /\ f.total = Whole(n)' /\ Upto(f) <= Whole(n)'
    BY <1>1, <1>4, <2>2
  <2>5. FrameOK(f)'
    BY <1>4, <2>2, <2>3, <2>4 DEF FrameOK
  <2>. QED
    BY <2>1, <2>2, <2>5
<1>8. ASSUME NEW f \in InFlight(qs2, s) PROVE FrameOK(f)' /\ got2[f.packet] <= At(f)
  <2>1. CASE f \in InFlight(qs, s)
    <3>1. FrameOK(f) /\ got[f.packet] <= At(f)
      BY <2>1 DEF Carried
    <3>2. f.packet \in DOMAIN added
      BY <3>1 DEF FrameOK
    <3>3. FrameOK(f)'
      BY <3>1, FramesStay
    <3>. QED
      BY <1>3, <3>1, <3>2, <3>3
  <2>2. CASE \E j \in 1 .. m : f = frames[j]
    BY <1>3, <1>7, <2>2
  <2>. QED
    BY <1>6, <2>1, <2>2, FlightGrows
<1>9. ASSUME NEW i \in DOMAIN added', NEW u \in got2[i] .. Whole(i)' - 1
      PROVE  \E f \in InFlight(qs2, s) : f.packet = i /\ At(f) <= u /\ u < Upto(f)
  <2>1. CASE i = n
    <3>0. Whole(i)' = len + CmdLen /\ got2[i] = 0
      BY <1>3, <2>1 DEF Whole
    <3>1. u \in 0 .. len + CmdLen - 1
      BY <3>0 DEF CmdLen
    <3>2. PICK j \in 1 .. m : At(frames[j]) <= u /\ u < Upto(frames[j])
      BY <1>6, <3>1 DEF IsCut
    <3>3. frames[j] \in InFlight(qs2, s)
      BY <1>6, FlightGrows
    <3>. QED
      BY <1>7, <2>1, <3>2, <3>3
  <2>2. CASE i # n
    <3>1. i \in DOMAIN added /\ u \in got[i] .. Whole(i) - 1
      BY <1>1, <1>2, <1>3, <2>2
    <3>2. PICK f \in InFlight(qs, s) : f.packet = i /\ At(f) <= u /\ u < Upto(f)
      BY <3>1 DEF Carried
    <3>3. f \in InFlight(qs2, s)
      BY FlightGrows
    <3>. QED
      BY <3>2, <3>3
  <2>. QED
    BY <2>1, <2>2
<1>. QED
  BY <1>5, <1>8, <1>9 DEF Carried

LEMMA DeliveryAdd ==
  ASSUME DeliveryInvariant, NEW p \in Ids, NEW len \in Lengths[p], NEW prioritize \in BOOLEAN,
         add_packet(p, len, prioritize)
  PROVE  DeliveryInvariant'
<1>1. /\ MuxTypeOK /\ AddedOK /\ stream \in Seq(FrameSet) /\ header \in BOOLEAN /\ decoded \in Seq(Message)
      /\ \A x \in Ids : sequence_id[x] = Count(x, Len(added)) % SidMod
      /\ failed = "no" /\ macs.frames \in Nat /\ macs.headers = macs.frames + (IF header THEN 1 ELSE 0)
  BY DEF DeliveryInvariant
<1>2. PICK got : Arrived(got, queues, stream, chunked_buffers, decoded)
  BY DEF DeliveryInvariant
<1>3. /\ Lined(queues, stream) /\ Progress(got, decoded, chunked_buffers) /\ OpenDiffer(got)
      /\ Carried(got, queues, stream) /\ Ordered(decoded)
  BY <1>2 DEF Arrived
<1>4. PICK frames, q : Adds(p, len, frames, q)
  BY <1>1, AddEffect
<1>5. PICK n \in Nat : n = Len(added) + 1
  BY <1>1, AddedIs
<1>6. PICK x : x = [id |-> n, proto |-> p, queue |-> q, len |-> len]
  OBVIOUS
<1>7. PICK sid : sid = sequence_id[p]
  OBVIOUS
<1>8. /\ len \in Nat /\ frames \in Seq(FrameSet) /\ IsCut(frames, p, sid, n, len)
      /\ q \in QueueNames /\ Spread(p) < MaxSpread
      /\ (q = "chunked" <=> Len(frames) # 1)
      /\ queues' \in [Ids -> Queued(FrameSet)] /\ queues'[p][q] = queues[p][q] \o frames
      /\ \A p1 \in Ids, q1 \in QueueNames : p1 # p \/ q1 # q => queues'[p1][q1] = queues[p1][q1]
      /\ sequence_id' = [sequence_id EXCEPT ![p] = (@ + 1) % SidMod]
      /\ added' = Append(added, x)
  BY <1>4, <1>5, <1>6, <1>7 DEF Adds
<1>9. /\ last_protocol' = last_protocol /\ stream' = stream /\ header' = header /\ decoded' = decoded
      /\ failed' = failed /\ macs' = macs /\ chunked_buffers' = chunked_buffers
  BY <1>4 DEF Adds, receiver
<1>10. /\ x \in [id : Nat, proto : Ids, queue : QueueNames, len : Nat]
       /\ x.id = n /\ x.proto = p /\ x.queue = q /\ x.len = len
  BY <1>6, <1>8
<1>11. /\ AddedOK' /\ OthersStay(n) /\ added'[n] = x
       /\ \A y \in Ids : Count(y, n)' = Count(y, n - 1) + (IF x.proto = y THEN 1 ELSE 0)
  BY <1>1, <1>5, <1>8, <1>10, AddedGrows
<1>12. PICK qs, s, b, dec : qs = queues /\ s = stream /\ b = chunked_buffers /\ dec = decoded
  OBVIOUS
<1>13. PICK qs2 : qs2 = queues'
  OBVIOUS
<1>14. FlowType(qs, s) /\ Grown(qs, qs2, frames, p, q)
  BY <1>1, <1>8, <1>12, <1>13 DEF FlowType, Grown, MuxTypeOK
<1>15. PICK got2 : NothingOf(got, got2, n)
  <2>1. PICK g : g = [i \in DOMAIN added' |-> IF i = n THEN 0 ELSE got[i]]
    OBVIOUS
  <2>2. DOMAIN added' = DOMAIN added \cup {n} /\ n \notin DOMAIN added
    BY <1>11 DEF OthersStay
  <2>3. \A i \in DOMAIN added : got[i] \in Nat
    BY <1>3 DEF Progress
  <2>4. NothingOf(got, g, n)
    BY <2>1, <2>2, <2>3 DEF NothingOf
  <2>. QED
    BY <2>4
<1>16. Progress(got2, dec, b)'
  BY <1>1, <1>3, <1>8, <1>10, <1>11, <1>12, <1>15, ProgressGrows
<1>17. OpenDiffer(got2)'
  BY <1>1, <1>3, <1>5, <1>8, <1>10, <1>11, <1>15, OpenStayApart
<1>18. \A k \in Ids : Count(k, n - 1) \in Nat /\ Len(added) = n - 1
  <2>1. ASSUME NEW k \in Ids PROVE Count(k, n - 1) \in Nat
    <3>1. {j \in 1 .. n - 1 : added[j].proto = k} \subseteq 1 .. n - 1 /\ IsFiniteSet(1 .. n - 1)
      BY FS_Interval
    <3>. QED
      BY <3>1, FS_Subset, FS_CardinalityType DEF Count
  <2>. QED
    BY <1>5, <2>1
<1>19. Sid(n)' = sid
  <2>1. n - 1 \in 0 .. n - 1
    BY <1>1, <1>5, AddedIs
  <2>2. Count(p, n - 1)' = Count(p, n - 1)
    BY <1>11, <2>1 DEF OthersStay
  <2>3. Sid(n)' = Count(p, n - 1)' % SidMod
    BY <1>10, <1>11 DEF Sid, Count
  <2>4. sid = Count(p, n - 1) % SidMod
    BY <1>1, <1>7, <1>18
  <2>. QED
    BY <2>2, <2>3, <2>4
<1>20. Carried(got2, qs2, s)'
  BY <1>1, <1>3, <1>8, <1>10, <1>11, <1>12, <1>14, <1>15, <1>19, CarriedGrows
<1>21. Lined(qs2, s)'
  <2>1. \A f \in InFlight(qs, s) : f.packet \in DOMAIN added
    BY <1>3, <1>12 DEF Carried, FrameOK
  <2>2. \A j \in 1 .. Len(frames) : frames[j].proto = p /\ frames[j].packet = n
    BY <1>8 DEF IsCut
  <2>3. \A j, k \in 1 .. Len(frames) : j < k => Upto(frames[j]) <= At(frames[k])
    BY <1>8 DEF IsCut
  <2>4. Lined(qs, s)
    BY <1>3, <1>12
  <2>. QED
    BY <1>1, <1>8, <1>10, <1>11, <1>14, <2>1, <2>2, <2>3, <2>4, LinesGrow
<1>22. Ordered(dec)'
  BY <1>1, <1>3, <1>11, <1>12, OrderStays
<1>23. Arrived(got2, qs2, s, b, dec)'
  BY <1>16, <1>17, <1>20, <1>21, <1>22 DEF Arrived
<1>24. (\E g : Arrived(g, queues, stream, chunked_buffers, decoded))'
  <2>1. qs2 = queues' /\ s = stream' /\ b = chunked_buffers' /\ dec = decoded'
    BY <1>9, <1>12, <1>13
  <2>2. Arrived(got2, queues, stream, chunked_buffers, decoded)'
    BY <1>23, <2>1 DEF Arrived, Lined, Progress, OpenDiffer, Carried, Ordered, InFlight, Done
  <2>. QED
    BY <2>2
<1>25. ASSUME NEW k \in Ids PROVE (sequence_id[k] = Count(k, Len(added)) % SidMod)'
  <2>1. SidMod \in Nat \ {0}
    BY MultiplexerAssumption
  <2>2. PICK c \in Nat : c = Count(k, n - 1)
    BY <1>18
  <2>3. sequence_id \in [Ids -> Nat] /\ sequence_id[k] = c % SidMod
    BY <1>1, <1>18, <2>2 DEF MuxTypeOK
  <2>4. Len(added)' = n
    BY <1>11 DEF OthersStay
  <2>5. Count(k, n)' = c + (IF p = k THEN 1 ELSE 0)
    BY <1>10, <1>11, <2>2
  <2>6. Count(k, Len(added))' = c + (IF p = k THEN 1 ELSE 0)
    BY <2>4, <2>5 DEF Count
  <2>7. CASE k = p
    <3>1. sequence_id'[k] = ((c % SidMod) + 1) % SidMod
      BY <1>8, <2>3, <2>7
    <3>2. ((c % SidMod) + 1) % SidMod = (c + 1) % SidMod
      BY <2>1, ModNext
    <3>. QED
      BY <2>6, <2>7, <3>1, <3>2
  <2>8. CASE k # p
    <3>1. sequence_id'[k] = c % SidMod
      BY <1>8, <2>3, <2>8
    <3>. QED
      BY <2>6, <2>8, <3>1
  <2>. QED
    BY <2>7, <2>8
<1>26. MuxTypeOK'
  <2>1. sequence_id' \in [Ids -> Nat]
    <3>1. SidMod \in Nat \ {0}
      BY MultiplexerAssumption
    <3>2. \A y \in Nat : (y + 1) % SidMod \in Nat
      BY <3>1, DivMod
    <3>3. sequence_id \in [Ids -> Nat]
      BY <1>1 DEF MuxTypeOK
    <3>. QED
      BY <1>8, <3>2, <3>3
  <2>. QED
    BY <1>1, <1>8, <1>9, <1>11, <2>1 DEF MuxTypeOK, AddedOK
<1>27. /\ stream' \in Seq(FrameSet) /\ header' \in BOOLEAN /\ failed' = "no" /\ decoded' \in Seq(Message)
       /\ macs'.frames \in Nat /\ macs'.headers = macs'.frames + (IF header' THEN 1 ELSE 0)
  BY <1>1, <1>9
<1>. QED
  BY <1>11, <1>24, <1>25, <1>26, <1>27 DEF DeliveryInvariant

LEMMA DeliveryStep == ASSUME DeliveryInvariant, [Next]_vars PROVE DeliveryInvariant'
<1>1. ASSUME NEW p \in Ids, NEW len \in Lengths[p], NEW prioritize \in BOOLEAN,
             add_packet(p, len, prioritize)
      PROVE  DeliveryInvariant'
  BY <1>1, DeliveryAdd
<1>2. ASSUME pop_frames PROVE DeliveryInvariant'
  BY <1>2, DeliveryPop
<1>3. ASSUME NEW k \in Readable, Deliver(k) PROVE DeliveryInvariant'
  BY <1>3, DeliveryDeliver
<1>4. ASSUME UNCHANGED vars PROVE DeliveryInvariant'
  <2>1. /\ queues' = queues /\ sequence_id' = sequence_id /\ last_protocol' = last_protocol
        /\ added' = added /\ stream' = stream /\ header' = header /\ decoded' = decoded
        /\ failed' = failed /\ macs' = macs /\ chunked_buffers' = chunked_buffers
    BY <1>4 DEF vars, sender, receiver
  <2>2. PICK got : Arrived(got, queues, stream, chunked_buffers, decoded)
    BY DEF DeliveryInvariant
  <2>3. (\E g : Arrived(g, queues, stream, chunked_buffers, decoded))'
    BY <2>1, <2>2, ArrivedStill
  <2>4. /\ MuxTypeOK /\ AddedOK /\ stream \in Seq(FrameSet) /\ header \in BOOLEAN /\ decoded \in Seq(Message)
        /\ \A p \in Ids : sequence_id[p] = Count(p, Len(added)) % SidMod
        /\ failed = "no" /\ macs.frames \in Nat /\ macs.headers = macs.frames + (IF header THEN 1 ELSE 0)
    BY DEF DeliveryInvariant
  <2>5. MuxTypeOK' /\ AddedOK' /\ \A p \in Ids : (sequence_id[p] = Count(p, Len(added)) % SidMod)'
    BY <2>1, <2>4 DEF MuxTypeOK, AddedOK, Count
  <2>6. /\ stream' \in Seq(FrameSet) /\ header' \in BOOLEAN /\ decoded' \in Seq(Message) /\ failed' = "no"
        /\ macs'.frames \in Nat /\ macs'.headers = macs'.frames + (IF header' THEN 1 ELSE 0)
    BY <2>1, <2>4
  <2>. QED
    BY <2>3, <2>5, <2>6 DEF DeliveryInvariant
<1>. QED
  BY <1>1, <1>2, <1>3, <1>4 DEF Next

-----------------------------------------------------------------------------
\* decode_body, decode_header: what of the packets sent has not been decoded is
\* in the frames under way, in order, and the buffers hold what has come of
\* packets whose rest has not.
THEOREM NothingIsLost == Spec => []DeliveryInvariant
<1>1. Init => DeliveryInvariant
  BY DeliveryInit
<1>2. DeliveryInvariant /\ [Next]_vars => DeliveryInvariant'
  BY DeliveryStep
<1>. QED
  BY <1>1, <1>2, PTL DEF Spec

\* add_packet, pop_frames, decode: whatever is decoded was sent, whole, and the
\* packets of one queue arrive once each in the order of their add_packet calls.
THEOREM QueuesArriveInOrder == Spec => []InOrderPerQueue
<1>1. DeliveryInvariant => InOrderPerQueue
  <2> SUFFICES ASSUME DeliveryInvariant PROVE InOrderPerQueue
    OBVIOUS
  <2>1. Ordered(decoded) /\ decoded \in Seq(Message)
    BY DEF DeliveryInvariant, Arrived
  <2>2. DOMAIN decoded = 1 .. Len(decoded)
    BY <2>1
  <2>. QED
    BY <2>1, <2>2 DEF Ordered, InOrderPerQueue, Payload
<1>. QED
  BY <1>1, NothingIsLost, PTL

\* _decode_header, decode_body: no header mac is wrong, no first chunk meets
\* a buffer with its sequence id and no chunk is larger than what its packet lacks.
THEOREM StreamNeverRejected == Spec => [](failed = "no")
<1>1. DeliveryInvariant => failed = "no"
  BY DEF DeliveryInvariant
<1>. QED
  BY <1>1, NothingIsLost, PTL
===============================================================================
