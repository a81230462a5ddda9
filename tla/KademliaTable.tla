---------------------------- MODULE KademliaTable ----------------------------
(***************************************************************************)
(* KBucket and RoutingTable of devp2p/kademlia.py as functions on tables.  *)
(* A table is the list `buckets': a sequence of records [start, end, nodes *)
(* (least recently seen first), cache (replacement_cache), updated         *)
(* (last_updated)].  Node ids are IdBits bits wide; a node is its id.      *)
(***************************************************************************)
EXTENDS Integers, Sequences, FiniteSets, SequencesExt, TLC

CONSTANTS IdBits,   \* k_id_size
          K,        \* k_bucket_size
          B,        \* k_b, the bits per hop
          Idle,     \* k_idle_bucket_refresh_interval
          Pow       \* Pow[i] is 2 ** i

ASSUME TableAssumption ==
    /\ {IdBits, K, B, Idle} \subseteq Nat \ {0}
    /\ K > 1

ASSUME PowAssumption ==
    /\ Pow \in [0 .. IdBits -> Nat] /\ Pow[0] = 1
    /\ \A i \in 0 .. IdBits - 1 : Pow[i + 1] = 2 * Pow[i]

Ids == 0 .. (Pow[IdBits] - 1)

-----------------------------------------------------------------------------
(* Node and KBucket *)

\* The bits in which two ids differ weigh as much as in the ids.
XorTable ==
    [a, b \in Ids |-> MapThenSumSet(LAMBDA i : Pow[i],
        {i \in 0 .. IdBits - 1 : (a \div Pow[i]) % 2 # (b \div Pow[i]) % 2})]

\* Mutant: the numerical difference instead of the exclusive or.
id_distance_Linear(a, b) == IF a < b THEN b - a ELSE a - b

id_distance(a, b) == XorTable[a, b]

KBucket(s, e, now) == [start |-> s, end |-> e, nodes |-> <<>>, cache |-> <<>>, updated |-> now]

midpoint(b) == b.start + (b.end - b.start) \div 2

in_range(b, n) == b.start <= n /\ n <= b.end

is_full(b) == Len(b.nodes) = K

by_id_distance(s, id) == SortSeq(s, LAMBDA x, y : id_distance(x, id) < id_distance(y, id))

\* The number of leading bits all nodes of the bucket share.
depth(b) ==
    IF Len(b.nodes) < 2 THEN IdBits
    ELSE Max({d \in 0 .. IdBits :
                \A x, y \in Range(b.nodes) : x \div Pow[IdBits - d] = y \div Pow[IdBits - d]})

\* The nodes of a list up to an id, or those above it, in order.
Part(s, mid, upto) ==
    LET part[i \in 0 .. Len(s)] ==
            IF i = 0 THEN <<>>
            ELSE IF (s[i] <= mid) = upto THEN Append(part[i - 1], s[i]) ELSE part[i - 1]
    IN  part[Len(s)]

\* Mutant: the lower half keeps the whole replacement cache.
split_CacheLow(b, now) ==
    LET mid == midpoint(b)
    IN  <<[KBucket(b.start, mid, now) EXCEPT !.nodes = Part(b.nodes, mid, TRUE), !.cache = b.cache],
          [KBucket(mid + 1, b.end, now) EXCEPT !.nodes = Part(b.nodes, mid, FALSE)]>>

\* Nodes and replacements keep their order in the halves.
split(b, now) ==
    LET mid == midpoint(b)
        Half(s, e, upto) == [KBucket(s, e, now) EXCEPT !.nodes = Part(b.nodes, mid, upto),
                                                       !.cache = Part(b.cache, mid, upto)]
    IN  <<Half(b.start, mid, TRUE), Half(mid + 1, b.end, FALSE)>>

\* Mutant: a full bucket drops its head for the new node.
bucket_add_Evict(b, n, now) ==
    [b EXCEPT !.updated = now,
              !.nodes = LET rest == RemoveFirst(@, n)
                        IN  Append(IF Len(rest) = K THEN Tail(rest) ELSE rest, n)]

\* A known node moves to the tail; a full bucket stays as it is.
bucket_add(b, n, now) ==
    [b EXCEPT !.updated = now,
              !.nodes = IF Contains(@, n) \/ ~ is_full(b)
                        THEN Append(RemoveFirst(@, n), n) ELSE @]

-----------------------------------------------------------------------------
(* RoutingTable *)

RoutingTable(now) == <<KBucket(0, Pow[IdBits] - 1, now)>>

Members(t) == UNION {Range(t[i].nodes) : i \in DOMAIN t}

\* The buckets whose end lies above the id; bucket_by_node takes the first.
EndsAbove(t, n) == {i \in DOMAIN t : n < t[i].end}

bucket_by_node(t, n) == Min(EndsAbove(t, n))

split_bucket(t, i, now) ==
    SubSeq(t, 1, i - 1) \o split(t[i], now) \o SubSeq(t, i + 1, Len(t))

\* A full bucket splits for a new node when it holds the local node or when
\* its depth is not a multiple of B.
MustSplit(t, n, this) ==
    LET b == t[bucket_by_node(t, n)]
    IN  /\ is_full(b) /\ ~ Contains(b.nodes, n)
        /\ in_range(b, this) \/ (depth(b) % B # 0 /\ depth(b) # IdBits)

SplitOnce(t, n, this, now) ==
    IF MustSplit(t, n, this) THEN split_bucket(t, bucket_by_node(t, n), now) ELSE t

\* The retries of add_node: at most IdBits splits make room or give up.
Retried(t, n, this, now) ==
    LET retry[d \in 0 .. IdBits] == IF d = 0 THEN t ELSE SplitOnce(retry[d - 1], n, this, now)
    IN  retry[IdBits]

add_node(t, n, this, now) ==
    LET s == Retried(t, n, this, now)
    IN  [s EXCEPT ![bucket_by_node(s, n)] = bucket_add(@, n, now)]

\* The least recently seen node of the full bucket that did not take n.
eviction_candidate(t, n) ==
    IF n \in Members(t) THEN {} ELSE {Head(t[bucket_by_node(t, n)].nodes)}

remove_node(t, n) ==
    [t EXCEPT ![bucket_by_node(t, n)].nodes = RemoveFirst(@, n)]

not_full_buckets(t) == {i \in DOMAIN t : ~ is_full(t[i])}

idle_buckets(t, now) == {i \in DOMAIN t : t[i].updated < now - Idle}

buckets_by_id_distance(t, id) ==
    SortSeq(t, LAMBDA x, y : id_distance(midpoint(x), id) < id_distance(midpoint(y), id))

Take(s, k) == SubSeq(s, 1, Min({k, Len(s)}))

\* The inner loop stops when the list is exactly 2k long; the buckets after
\* that one are appended in full.
neighbours(t, id, k) ==
    LET bs == buckets_by_id_distance(t, id)
        near == [i \in DOMAIN bs |-> by_id_distance(bs[i].nodes, id)]
        upto == [i \in 0 .. Len(bs) |-> FlattenSeq(SubSeq(near, 1, i))]
        full == {i \in 0 .. Len(bs) : Len(upto[i]) >= 2 * k}
        cut == IF full = {} THEN Len(bs) ELSE Min(full)
        list == Take(upto[cut], 2 * k) \o FlattenSeq(SubSeq(near, cut + 1, Len(bs)))
    IN  Take(by_id_distance(list, id), k)

-----------------------------------------------------------------------------
(* What a sound table is *)

\* The buckets partition the id space in order, each a dyadic interval.
Partition(t) ==
    /\ t[1].start = 0 /\ t[Len(t)].end = Pow[IdBits] - 1
    /\ \A i \in 1 .. Len(t) - 1 : t[i + 1].start = t[i].end + 1
    /\ \A i \in DOMAIN t : \E d \in 0 .. IdBits :
          t[i].end - t[i].start + 1 = Pow[d] /\ t[i].start % Pow[d] = 0

\* Nodes and replacements lie in the range of their bucket, no node occurs
\* twice, no bucket holds more than K.
Placed(t) ==
    \A i \in DOMAIN t :
        /\ IsInjective(t[i].nodes) /\ Len(t[i].nodes) <= K
        /\ \A n \in Range(t[i].nodes) \cup Range(t[i].cache) : in_range(t[i], n)

\* The reference for neighbours: no node left out is closer than one returned.
Closest(t, id, k) ==
    LET r == neighbours(t, id, k)
    IN  /\ Len(r) = Min({k, Cardinality(Members(t))})
        /\ \A i \in DOMAIN r : \A n \in Members(t) \ {r[j] : j \in 1 .. i} :
              XorTable[r[i], id] < XorTable[n, id]
=============================================================================
