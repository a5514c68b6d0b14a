-------------------------- MODULE HeapLayoutProofs ---------------------------
(***************************************************************************)
(* The layout of the kernel heap: which arrangements of headers the lists    *)
(* of BucketAlloc form, what a traversal of them visits, and that a split,   *)
(* a merge and a refreshed cache keep them in order.  BucketAllocProofs      *)
(* builds on it.                                                            *)
(***************************************************************************)
EXTENDS BucketAlloc, FiniteSetTheorems, TLAPS

-----------------------------------------------------------------------------
(* Linked lists.                                                            *)

LessThan == {p \in Nat \X Nat : p[1] < p[2]}

\* A set of numbers that is not empty has a least element.
LEMMA HasLeast ==
  ASSUME NEW S, S \subseteq Nat, S # {}
  PROVE  \E x \in S : \A y \in S : x <= y
<1>1. IsWellFoundedOn(LessThan, Nat)
  BY NatLessThanWellFounded, Zenon DEF OpToRel, LessThan
<1>2. PICK x \in S : \A y \in S : ~ (<<y, x>> \in LessThan)
  BY <1>1, WFMin
<1>3. ASSUME NEW y \in S
      PROVE  x <= y
  <2>1. x \in Nat /\ y \in Nat
    OBVIOUS
  <2>2. <<y, x>> \in LessThan <=> y < x
    BY <2>1 DEF LessThan
  <2> QED
    BY <1>2, <2>1, <2>2
<1> QED
  BY <1>3

\* MinOf finds it.
LEMMA MinIs ==
  ASSUME NEW S, S \subseteq Nat, S # {}
  PROVE  MinOf(S) \in S /\ \A y \in S : MinOf(S) <= y
BY HasLeast DEF MinOf

\* One hop of a traversal.
Hop(f, p) == IF p \in DOMAIN f THEN f[p].next ELSE p

\* The first k hops.
Hopping(f, first, k, g) ==
  g = [n \in 0 .. k |-> IF n = 0 THEN first ELSE Hop(f, g[n - 1])]

\* The equation that defines a traversal has a solution: a least length without one
\* does not exist.
LEMMA CanHop ==
  ASSUME NEW f, NEW first, NEW N \in Nat
  PROVE  \E g : Hopping(f, first, N, g)
<1> DEFINE Bad == {k \in 0 .. N : ~ \E g : Hopping(f, first, k, g)}
<1>1. SUFFICES ASSUME Bad # {} PROVE FALSE
  OBVIOUS
<1>2. PICK k \in Bad : \A j \in Bad : k <= j
  <2>1. Bad \subseteq Nat
    OBVIOUS
  <2> QED
    BY <1>1, <2>1, HasLeast
<1>3. k \in 0 .. N /\ ~ \E g : Hopping(f, first, k, g)
  OBVIOUS
<1>4. CASE k = 0
  <2> DEFINE g == [n \in 0 .. 0 |-> first]
  <2>1. g = [n \in 0 .. 0 |-> IF n = 0 THEN first ELSE Hop(f, g[n - 1])]
    OBVIOUS
  <2> QED
    BY <1>3, <1>4, <2>1 DEF Hopping
<1>5. CASE k # 0
  <2>1. k - 1 \in 0 .. N /\ k - 1 \notin Bad
    BY <1>2, <1>3, <1>5
  <2>2. PICK g : Hopping(f, first, k - 1, g)
    BY <2>1
  <2> DEFINE e == [n \in 0 .. k |-> IF n < k THEN g[n] ELSE Hop(f, g[k - 1])]
  <2>3. \A n \in 0 .. k - 1 : g[n] = IF n = 0 THEN first ELSE Hop(f, g[n - 1])
    BY <2>2 DEF Hopping
  <2>4. \A n \in 0 .. k : e[n] = IF n = 0 THEN first ELSE Hop(f, e[n - 1])
    <3> SUFFICES ASSUME NEW n \in 0 .. k PROVE e[n] = IF n = 0 THEN first ELSE Hop(f, e[n - 1])
      OBVIOUS
    <3>1. CASE n = 0
      BY <1>3, <1>5, <2>3, <3>1
    <3>2. CASE n # 0 /\ n < k
      BY <1>3, <2>3, <3>2
    <3>3. CASE n # 0 /\ n = k
      BY <1>3, <3>3
    <3> QED
      BY <1>3, <3>1, <3>2, <3>3
  <2>5. e = [n \in 0 .. k |-> IF n = 0 THEN first ELSE Hop(f, e[n - 1])]
    BY <2>4
  <2> HIDE DEF e
  <2> QED
    BY <1>3, <2>5 DEF Hopping
<1> QED
  BY <1>4, <1>5

\* Hops, hop by hop.
LEMMA HopsAre ==
  ASSUME NEW f, NEW first, IsFiniteSet(DOMAIN f), NEW N, N = Cardinality(DOMAIN f)
  PROVE  /\ N \in Nat /\ DOMAIN Hops(f, first) = 0 .. N
         /\ Hops(f, first)[0] = first
         /\ \A n \in 0 .. N - 1 : Hops(f, first)[n + 1] = Hop(f, Hops(f, first)[n])
<1>1. N \in Nat
  BY FS_CardinalityType
<1>2. PICK g : Hopping(f, first, N, g)
  BY <1>1, CanHop
<1>3. g = [n \in 0 .. N |-> IF n = 0 THEN first
                            ELSE LET p == g[n - 1] IN IF p \in DOMAIN f THEN f[p].next ELSE p]
  BY <1>2 DEF Hopping, Hop
<1> DEFINE at == Hops(f, first)
<1>4. at = [n \in 0 .. N |-> IF n = 0 THEN first
                             ELSE LET p == at[n - 1] IN IF p \in DOMAIN f THEN f[p].next ELSE p]
  BY <1>3 DEF Hops
<1> HIDE DEF at
<1>5. DOMAIN at = 0 .. N /\ at[0] = first
  BY <1>1, <1>4
<1>6. ASSUME NEW n \in 0 .. N - 1
      PROVE  at[n + 1] = Hop(f, at[n])
  <2>1. n + 1 \in 0 .. N /\ n + 1 # 0 /\ (n + 1) - 1 = n
    BY <1>1
  <2> QED
    BY <1>4, <2>1 DEF Hop
<1> QED
  BY <1>1, <1>5, <1>6 DEF at

\* S is a list in f from first: next links lead through S to NULL and up in rank,
\* and each member but the first has a predecessor.
IsList(f, first, S, rank) ==
  /\ IsFiniteSet(DOMAIN f) /\ S \subseteq DOMAIN f /\ Null \notin DOMAIN f
  /\ first \in S
  /\ rank \in [S -> Nat]
  /\ \A p \in S : f[p].next = Null \/ (f[p].next \in S /\ rank[p] < rank[f[p].next])
  /\ \A p \in S \ {first} : \E q \in S : f[q].next = p

\* A traversal of a list visits its members, in rank order, and ends.
LEMMA WalkList ==
  ASSUME NEW f, NEW first, NEW S, NEW rank, IsList(f, first, S, rank)
  PROVE  /\ Ends(f, first) /\ OnList(f, first) = S
         /\ \A n \in DOMAIN Hops(f, first) : Hops(f, first)[n] \in S \cup {Null}
<1> DEFINE N == Cardinality(DOMAIN f)
           at == Hops(f, first)
<1>0. /\ IsFiniteSet(DOMAIN f) /\ S \subseteq DOMAIN f /\ Null \notin DOMAIN f
      /\ first \in S /\ rank \in [S -> Nat]
      /\ \A p \in S : f[p].next = Null \/ (f[p].next \in S /\ rank[p] < rank[f[p].next])
      /\ \A p \in S \ {first} : \E q \in S : f[q].next = p
  BY DEF IsList
<1>1. /\ N \in Nat /\ DOMAIN at = 0 .. N /\ at[0] = first
      /\ \A n \in 0 .. N - 1 : at[n + 1] = Hop(f, at[n])
  BY <1>0, HopsAre
<1>2. N = Cardinality(DOMAIN f) /\ Ends(f, first) = (at[N] = Null)
      /\ OnList(f, first) = {at[n] : n \in 0 .. N} \cap DOMAIN f
  BY <1>1 DEF Ends, OnList
<1> HIDE DEF N, at
<1>3. \A n \in 0 .. N : at[n] \in S \cup {Null}
  <2> DEFINE Bad == {n \in 0 .. N : at[n] \notin S \cup {Null}}
  <2> SUFFICES ASSUME Bad # {} PROVE FALSE
    OBVIOUS
  <2>1. PICK k \in Bad : \A j \in Bad : k <= j
    <3>1. Bad \subseteq Nat
      OBVIOUS
    <3> QED
      BY <3>1, HasLeast
  <2>2. k \in 0 .. N /\ at[k] \notin S \cup {Null}
    OBVIOUS
  <2>3. k # 0
    BY <1>0, <1>1, <2>2
  <2>4. k - 1 \in 0 .. N - 1 /\ (k - 1) + 1 = k /\ at[k - 1] \in S \cup {Null}
    <3>1. k - 1 \in 0 .. N - 1 /\ k - 1 \in 0 .. N /\ ~(k <= k - 1) /\ (k - 1) + 1 = k
      BY <1>1, <2>2, <2>3
    <3> QED
      BY <2>1, <3>1
  <2>5. at[k] = Hop(f, at[k - 1])
    BY <1>1, <2>4
  <2> QED
    BY <1>0, <2>2, <2>4, <2>5 DEF Hop
<1>4. ASSUME NEW j \in 0 .. N, at[j] \in S, NEW i \in 0 .. j - 1
      PROVE  at[i] \in S /\ rank[at[i]] < rank[at[j]]
  <2> DEFINE Down(m, n) == at[m] \in S /\ rank[at[m]] < rank[at[n]]
             Bad == {n \in 0 .. N : at[n] \in S /\ \E m \in 0 .. n - 1 : ~Down(m, n)}
  <2> SUFFICES ASSUME Bad # {} PROVE FALSE
    BY <1>4
  <2>1. PICK k \in Bad : \A l \in Bad : k <= l
    <3>1. Bad \subseteq Nat
      OBVIOUS
    <3> QED
      BY <3>1, HasLeast
  <2>2. PICK m \in 0 .. k - 1 : ~Down(m, k)
    OBVIOUS
  <2>3. k \in 0 .. N /\ at[k] \in S /\ k # 0 /\ k - 1 \in 0 .. N - 1 /\ (k - 1) + 1 = k
    BY <1>1, <2>2
  <2>4. at[k - 1] \in S \cup {Null} /\ at[k] = Hop(f, at[k - 1])
    <3>1. k - 1 \in 0 .. N
      BY <1>1, <2>3
    <3> QED
      BY <1>1, <1>3, <2>3, <3>1
  <2>5. at[k - 1] \in S /\ rank[at[k - 1]] < rank[at[k]]
    BY <1>0, <2>3, <2>4 DEF Hop
  <2>6. CASE m = k - 1
    BY <2>2, <2>5, <2>6
  <2>7. CASE m # k - 1
    <3>1. m \in 0 .. (k - 1) - 1 /\ k - 1 \in 0 .. N /\ ~(k <= k - 1)
      BY <1>1, <2>3, <2>7
    <3>2. k - 1 \notin Bad
      BY <2>1, <3>1
    <3>3. Down(m, k - 1)
      BY <2>5, <3>1, <3>2
    <3>4. rank[at[m]] \in Nat /\ rank[at[k - 1]] \in Nat /\ rank[at[k]] \in Nat
      BY <1>0, <2>3, <2>5, <3>3
    <3> QED
      BY <2>2, <2>5, <3>3, <3>4
  <2> QED
    BY <2>6, <2>7
<1>5. at[N] = Null
  <2> SUFFICES ASSUME at[N] # Null PROVE FALSE
    OBVIOUS
  <2>1. N \in 0 .. N /\ at[N] \in S
    BY <1>1, <1>3
  <2> DEFINE g == [n \in 0 .. N |-> at[n]]
  <2>2. \A i \in 0 .. N : at[i] \in S
    <3> TAKE i \in 0 .. N
    <3>1. i = N \/ i \in 0 .. N - 1
      BY <1>1
    <3> QED
      BY <1>4, <2>1, <3>1
  <2>3. g \in [0 .. N -> DOMAIN f]
    BY <1>0, <2>2
  <2>4. IsFiniteSet(0 .. N) /\ Cardinality(DOMAIN f) < Cardinality(0 .. N)
    <3>1. IsFiniteSet(0 .. N) /\ Cardinality(0 .. N) = IF 0 > N THEN 0 ELSE N - 0 + 1
      BY <1>1, FS_Interval
    <3> QED
      BY <1>1, <1>2, <3>1
  <2>5. PICK x \in 0 .. N, y \in 0 .. N : x # y /\ g[x] = g[y]
    <3>1. IsFiniteSet(DOMAIN f)
      BY <1>0
    <3> HIDE DEF g
    <3>2. \E x, y \in 0 .. N : x # y /\ g[x] = g[y]
      BY <2>3, <2>4, <3>1, FS_PigeonHole
    <3> QED
      BY <3>2
  <2>6. at[x] = at[y] /\ rank[at[x]] \in Nat
    BY <1>0, <2>2, <2>5
  <2>7. x \in 0 .. y - 1 \/ y \in 0 .. x - 1
    BY <2>5
  <2> QED
    BY <1>4, <2>2, <2>6, <2>7
<1>6. \A p \in S : \E n \in 0 .. N : at[n] = p
  <2> DEFINE Miss == {p \in S : \A n \in 0 .. N : at[n] # p}
             Ranks == {rank[p] : p \in Miss}
  <2> SUFFICES ASSUME Miss # {} PROVE FALSE
    OBVIOUS
  <2>1. PICK r \in Ranks : \A s \in Ranks : r <= s
    <3>1. Ranks \subseteq Nat /\ Ranks # {}
      BY <1>0
    <3> QED
      BY <3>1, HasLeast
  <2>2. PICK p \in Miss : r = rank[p]
    OBVIOUS
  <2>3. p \in S /\ p # first
    BY <1>1
  <2>4. PICK q \in S : f[q].next = p
    BY <1>0, <2>3
  <2>5. rank[q] < rank[p] /\ rank[q] \in Nat /\ rank[p] \in Nat
    BY <1>0, <2>3, <2>4
  <2>6. q \notin Miss
    BY <2>1, <2>2, <2>5
  <2>7. PICK n \in 0 .. N : at[n] = q
    BY <2>6
  <2>8. n # N
    BY <1>0, <1>5, <2>7
  <2>9. n \in 0 .. N - 1 /\ n + 1 \in 0 .. N
    BY <1>1, <2>8
  <2>10. at[n + 1] = p
    BY <1>0, <1>1, <2>4, <2>7, <2>9 DEF Hop
  <2> QED
    BY <2>9, <2>10
<1>7. OnList(f, first) = S
  BY <1>0, <1>2, <1>3, <1>6
<1> QED
  BY <1>1, <1>2, <1>3, <1>5, <1>7 DEF at

-----------------------------------------------------------------------------
(* The heap.                                                                *)

USE DEF Null, PAGESIZE, BUCKET, PEBBLE, FREE, IN_USE, PEBBLE_MIN_ALIGN, PEBBLE_MIN_SIZE

\* Headers that have not been overwritten.
Pebbles == [magic : {TRUE}, lflags : {FREE, IN_USE}, size : Nat, parent : Nat,
            prev : Nat, next : Nat]
Buckets == [lflags : {0}, largest_free : Nat, size : Nat, first : Nat, prev : Nat, next : Nat]

PEnd(ps, p) == p + PEBBLE + ps[p].size
BEnd(bs, b) == b + bs[b].size * PAGESIZE

\* A pebble lies in its bucket and is linked to the ones that touch it.
PebbleOK(ps, bs, p) ==
  LET k == ps[p] IN
  /\ k.parent \in DOMAIN bs /\ k.parent + BUCKET <= p
  /\ PEnd(ps, p) <= BEnd(bs, k.parent)
  /\ k.prev = Null => p = k.parent + BUCKET
  /\ k.prev # Null => /\ k.prev \in DOMAIN ps /\ ps[k.prev].parent = k.parent
                      /\ ps[k.prev].next = p
  /\ k.next = Null => PEnd(ps, p) = BEnd(bs, k.parent)
  /\ k.next # Null => /\ k.next \in DOMAIN ps /\ ps[k.next].parent = k.parent
                      /\ ps[k.next].prev = p /\ k.next = PEnd(ps, p)

Apart(ps) == \A p, q \in DOMAIN ps : p < q => PEnd(ps, p) <= q

\* A bucket starts with a pebble and overlaps no other bucket.
BucketOK(ps, bs, end, b) ==
  /\ KHEAPSTART <= b /\ bs[b].first = b + BUCKET
  /\ b + BUCKET \in DOMAIN ps /\ ps[b + BUCKET].parent = b
  /\ BEnd(bs, b) <= end
  /\ \A c \in DOMAIN bs : b < c => BEnd(bs, b) <= c

Typed(ps, bs, end) ==
  /\ IsFiniteSet(DOMAIN ps) /\ DOMAIN ps \subseteq Nat /\ ps \in [DOMAIN ps -> Pebbles]
  /\ IsFiniteSet(DOMAIN bs) /\ DOMAIN bs \subseteq Nat /\ bs \in [DOMAIN bs -> Buckets]
  /\ end \in Nat /\ end <= MAXHEAP

Layout(ps, bs, end) ==
  /\ Typed(ps, bs, end)
  /\ \A p \in DOMAIN ps : PebbleOK(ps, bs, p)
  /\ Apart(ps)
  /\ \A b \in DOMAIN bs : BucketOK(ps, bs, end, b)

\* The chain of buckets: the first one, and then the others from the newest to the
\* oldest.
Chain(bs) ==
  /\ KHEAPSTART \in DOMAIN bs /\ bs[KHEAPSTART].prev = Null
  /\ \A b \in DOMAIN bs : bs[b].next # Null =>
       /\ bs[b].next \in DOMAIN bs /\ bs[bs[b].next].prev = b
       /\ bs[b].next # KHEAPSTART /\ (b # KHEAPSTART => bs[b].next < b)
  /\ \A b \in DOMAIN bs \ {KHEAPSTART} : bs[b].prev \in DOMAIN bs /\ bs[bs[b].prev].next = b

\* largest_free never hides room.
Cached(ps, bs, B) ==
  \A p \in DOMAIN ps : ps[p].parent \in B => ps[p].size <= bs[ps[p].parent].largest_free

Merged(ps) ==
  \A p \in DOMAIN ps : ps[p].next # Null /\ ps[p].lflags = FREE => ps[ps[p].next].lflags = IN_USE

IsHeap(h) ==
  h = [ps |-> h.ps, bs |-> h.bs, end |-> h.end, ret |-> h.ret, status |-> h.status]

\* The allocator's own state; the caches of the buckets in B are right.
Core(h, B) ==
  /\ IsHeap(h) /\ h.status = "ok"
  /\ Layout(h.ps, h.bs, h.end) /\ Chain(h.bs) /\ Cached(h.ps, h.bs, B)

Kids(ps, b) == {p \in DOMAIN ps : ps[p].parent = b}

\* The heap begins at an address that is not NULL, and words are wide enough.
LEMMA HeapFacts ==
  /\ KHEAPSTART \in Nat /\ KHEAPSTART > 0 /\ MAXHEAP \in Nat /\ WORDMOD \in Nat
  /\ WORDMOD > 2 * MAXHEAP /\ MAXHEAP >= KHEAPSTART + 69632
BY HeapAssumption DEF RoundUp, MIN_INITIAL_ALLOC

\* What the layout says of one header.
LEMMA HeaderFacts ==
  ASSUME NEW ps, NEW bs, NEW end, Layout(ps, bs, end), NEW p \in DOMAIN ps
  PROVE  /\ p \in Nat /\ p > 0 /\ ps[p] \in Pebbles /\ PebbleOK(ps, bs, p)
         /\ ps[p].size \in Nat /\ ps[p].parent \in DOMAIN bs /\ ps[p].parent \in Nat
         /\ ps[p].prev \in Nat /\ ps[p].next \in Nat /\ ps[p].lflags \in {FREE, IN_USE}
         /\ PEnd(ps, p) <= end /\ end <= MAXHEAP
<1>1. p \in Nat /\ ps[p] \in Pebbles /\ PebbleOK(ps, bs, p) /\ end <= MAXHEAP /\ end \in Nat
  BY DEF Layout, Typed
<1>2. /\ ps[p].size \in Nat /\ ps[p].parent \in Nat /\ ps[p].prev \in Nat /\ ps[p].next \in Nat
      /\ ps[p].lflags \in {FREE, IN_USE}
  BY <1>1 DEF Pebbles
<1>3. ps[p].parent \in DOMAIN bs /\ ps[p].parent + 64 <= p /\ PEnd(ps, p) <= BEnd(bs, ps[p].parent)
  BY <1>1 DEF PebbleOK
<1>4. bs[ps[p].parent] \in Buckets /\ BucketOK(ps, bs, end, ps[p].parent)
  BY <1>3 DEF Layout, Typed
<1>5. bs[ps[p].parent].size \in Nat /\ BEnd(bs, ps[p].parent) <= end
  BY <1>4 DEF Buckets, BucketOK
<1>6. PEnd(ps, p) \in Nat /\ BEnd(bs, ps[p].parent) \in Nat
  BY <1>1, <1>2, <1>5 DEF PEnd, BEnd
<1> QED
  BY <1>1, <1>2, <1>3, <1>5, <1>6

\* The pebbles of a bucket are a list.
LEMMA PebbleList ==
  ASSUME NEW ps, NEW bs, NEW end, Layout(ps, bs, end), NEW b \in DOMAIN bs
  PROVE  /\ Ends(ps, bs[b].first) /\ OnList(ps, bs[b].first) = Kids(ps, b)
         /\ \A n \in DOMAIN Hops(ps, bs[b].first) :
              Hops(ps, bs[b].first)[n] \in Kids(ps, b) \cup {Null}
<1> DEFINE S == Kids(ps, b)
           rank == [p \in S |-> p]
<1>1. /\ bs[b].first = b + 64 /\ b + 64 \in S
  BY DEF Layout, BucketOK, Kids
<1>2. /\ IsFiniteSet(DOMAIN ps) /\ S \subseteq DOMAIN ps /\ S \subseteq Nat
      /\ 0 \notin DOMAIN ps
  BY HeaderFacts DEF Layout, Typed, Kids
<1>3. rank \in [S -> Nat] /\ \A p \in S : rank[p] = p
  BY <1>2
<1> HIDE DEF rank
<1>4. ASSUME NEW p \in S
      PROVE  /\ ps[p].next = 0 \/ (ps[p].next \in S /\ p < ps[p].next)
             /\ p # b + 64 => \E q \in S : ps[q].next = p
  <2>1. p \in DOMAIN ps /\ ps[p].parent = b /\ p \in Nat /\ ps[p].size \in Nat /\ PebbleOK(ps, bs, p)
    BY HeaderFacts DEF Kids
  <2>2. ps[p].next # 0 => ps[p].next \in S /\ p < ps[p].next
    BY <2>1 DEF PebbleOK, PEnd, Kids
  <2>3. p # b + 64 => ps[p].prev \in S /\ ps[ps[p].prev].next = p
    BY <2>1 DEF PebbleOK, Kids
  <2> QED
    BY <2>2, <2>3
<1> HIDE DEF S
<1>5. IsList(ps, bs[b].first, S, rank)
  BY <1>1, <1>2, <1>3, <1>4 DEF IsList
<1> QED
  BY <1>5, WalkList DEF S

\* The buckets are a list.
LEMMA BucketList ==
  ASSUME NEW ps, NEW bs, NEW end, Layout(ps, bs, end), Chain(bs)
  PROVE  /\ Ends(bs, KHEAPSTART) /\ OnList(bs, KHEAPSTART) = DOMAIN bs
         /\ \A n \in DOMAIN Hops(bs, KHEAPSTART) :
              Hops(bs, KHEAPSTART)[n] \in DOMAIN bs \cup {Null}
<1> DEFINE S == DOMAIN bs
           rank == [b \in S |-> IF b = KHEAPSTART THEN 0 ELSE MAXHEAP + 1 - b]
<1>1. \A b \in S : b \in Nat /\ b >= KHEAPSTART /\ b <= MAXHEAP
  <2> TAKE b \in S
  <2>1. b \in Nat /\ bs[b] \in Buckets /\ BucketOK(ps, bs, end, b) /\ end \in Nat /\ end <= MAXHEAP
    BY DEF Layout, Typed
  <2>2. bs[b].size \in Nat
    BY <2>1 DEF Buckets
  <2> QED
    BY <2>1, <2>2, HeapFacts DEF BucketOK, BEnd
<1>2. /\ IsFiniteSet(S) /\ 0 \notin S /\ KHEAPSTART \in S
  BY <1>1, HeapFacts DEF Layout, Typed, Chain
<1>3. rank \in [S -> Nat] /\ \A b \in S : rank[b] = IF b = KHEAPSTART THEN 0 ELSE MAXHEAP + 1 - b
  BY <1>1, HeapFacts
<1> HIDE DEF rank
<1>4. \A b \in S : bs[b].next = 0 \/ (bs[b].next \in S /\ rank[b] < rank[bs[b].next])
  <2> TAKE b \in S
  <2>1. bs[b].next # 0 => /\ bs[b].next \in S /\ bs[b].next # KHEAPSTART
                          /\ b # KHEAPSTART => bs[b].next < b
    BY DEF Chain
  <2>2. bs[b].next \in S => bs[b].next \in Nat /\ bs[b].next <= MAXHEAP
    BY <1>1
  <2> QED
    BY <1>1, <1>3, <2>1, <2>2, HeapFacts
<1>5. \A b \in S \ {KHEAPSTART} : \E c \in S : bs[c].next = b
  BY DEF Chain
<1>6. IsList(bs, KHEAPSTART, S, rank)
  BY <1>2, <1>3, <1>4, <1>5 DEF IsList
<1> QED
  BY <1>6, WalkList

-----------------------------------------------------------------------------
(* Splits and merges.                                                       *)

\* In r pebble t of ps has been cut down to s bytes, and the header of the rest is at q.
Splits(ps, r, t, q, s) ==
  /\ DOMAIN r = DOMAIN ps \cup {q} /\ r \in [DOMAIN r -> Pebbles]
  /\ \A a \in DOMAIN ps :
       /\ r[a].parent = ps[a].parent /\ r[a].lflags = ps[a].lflags
       /\ r[a].size = IF a = t THEN s ELSE ps[a].size
       /\ r[a].next = IF a = t THEN q ELSE ps[a].next
       /\ r[a].prev = IF a = ps[t].next THEN q ELSE ps[a].prev
  /\ r[q].parent = ps[t].parent /\ r[q].lflags = ps[t].lflags
  /\ r[q].size = ps[t].size - s - PEBBLE
  /\ r[q].prev = t /\ r[q].next = ps[t].next

\* In r pebble p of ps has swallowed q, the next one.
Merges(ps, r, p, q) ==
  /\ DOMAIN r = DOMAIN ps \ {q} /\ r \in [DOMAIN r -> Pebbles]
  /\ \A a \in DOMAIN r :
       /\ r[a].parent = ps[a].parent /\ r[a].lflags = ps[a].lflags
       /\ r[a].size = IF a = p THEN ps[p].size + ps[q].size + PEBBLE ELSE ps[a].size
       /\ r[a].next = IF a = p THEN ps[q].next ELSE ps[a].next
       /\ r[a].prev = IF a = ps[q].next THEN p ELSE ps[a].prev

\* In r pebble p of ps has another flag.
Marks(ps, r, p, v) ==
  /\ DOMAIN r = DOMAIN ps /\ r \in [DOMAIN r -> Pebbles]
  /\ \A a \in DOMAIN ps :
       /\ r[a].parent = ps[a].parent /\ r[a].size = ps[a].size
       /\ r[a].next = ps[a].next /\ r[a].prev = ps[a].prev
       /\ r[a].lflags = IF a = p THEN v ELSE ps[a].lflags

\* A split keeps the layout.
LEMMA SplitLayout ==
  ASSUME NEW ps, NEW bs, NEW end, Layout(ps, bs, end), NEW t \in DOMAIN ps, NEW s \in Nat,
         s + PEBBLE <= ps[t].size, NEW q, q = t + PEBBLE + s, NEW r, Splits(ps, r, t, q, s)
  PROVE  Layout(r, bs, end) /\ q \notin DOMAIN ps
<1> DEFINE D == DOMAIN ps
<1>1. \A a \in D : /\ a \in Nat /\ a > 0 /\ PebbleOK(ps, bs, a)
                   /\ ps[a].size \in Nat /\ ps[a].prev \in Nat /\ ps[a].next \in Nat
                   /\ ps[a].parent \in Nat /\ ps[a].parent \in DOMAIN bs
  BY HeaderFacts
<1>2. \A a, c \in D : a < c => a + 60 + ps[a].size <= c
  BY DEF Layout, Apart, PEnd
<1>3. q \in Nat /\ q \notin D
  BY <1>1, <1>2
<1>4. /\ DOMAIN r = D \cup {q} /\ r \in [DOMAIN r -> Pebbles]
      /\ \A a \in D : /\ r[a].parent = ps[a].parent
                      /\ r[a].size = IF a = t THEN s ELSE ps[a].size
                      /\ r[a].next = IF a = t THEN q ELSE ps[a].next
                      /\ r[a].prev = IF a = ps[t].next THEN q ELSE ps[a].prev
      /\ r[q].parent = ps[t].parent /\ r[q].size = ps[t].size - s - 60
      /\ r[q].prev = t /\ r[q].next = ps[t].next
  BY DEF Splits
<1>5. Typed(r, bs, end)
  <2>1. IsFiniteSet(D) /\ D \subseteq Nat
    BY DEF Layout, Typed
  <2>2. IsFiniteSet(D \cup {q})
    BY <2>1, FS_AddElement
  <2> QED
    BY <1>3, <1>4, <2>1, <2>2 DEF Layout, Typed
<1>6. Apart(r)
  <2> SUFFICES ASSUME NEW a \in DOMAIN r, NEW c \in DOMAIN r, a < c
               PROVE  a + 60 + r[a].size <= c
    BY DEF Apart, PEnd
  <2>1. CASE a \in D /\ c \in D
    BY <1>1, <1>2, <1>4, <2>1
  <2>2. CASE a = q /\ c \in D
    <3>1. t < c
      BY <1>1, <2>2
    <3>2. t + 60 + ps[t].size <= c
      BY <1>2, <2>2, <3>1
    <3>3. a = t + 60 + s /\ r[a].size = ps[t].size - s - 60 /\ ps[t].size \in Nat /\ t \in Nat
      BY <1>1, <1>4, <2>2
    <3> QED
      BY <1>1, <2>2, <3>2, <3>3
  <2>3. CASE a \in D /\ c = q
    <3>1. ~(t < a)
      BY <1>1, <1>2, <2>3
    <3>2. CASE a = t
      <4>1. r[a].size = s /\ t \in Nat
        BY <1>1, <1>4, <3>2
      <4> QED
        BY <2>3, <3>2, <4>1
    <3>3. CASE a # t
      <4>1. a < t
        BY <1>1, <2>3, <3>1, <3>3
      <4>2. a + 60 + ps[a].size <= t
        BY <1>2, <2>3, <4>1
      <4> QED
        BY <1>1, <1>4, <2>3, <3>3, <4>2
    <3> QED
      BY <3>2, <3>3
  <2> QED
    BY <1>1, <1>3, <1>4, <2>1, <2>2, <2>3
<1>7. ASSUME NEW a \in D
      PROVE  /\ ps[a].parent \in DOMAIN bs /\ ps[a].parent + 64 <= a
             /\ a + 60 + ps[a].size <= BEnd(bs, ps[a].parent)
             /\ ps[a].prev = 0 => a = ps[a].parent + 64
             /\ ps[a].prev # 0 => /\ ps[a].prev \in D /\ ps[ps[a].prev].parent = ps[a].parent
                                  /\ ps[ps[a].prev].next = a
             /\ ps[a].next = 0 => a + 60 + ps[a].size = BEnd(bs, ps[a].parent)
             /\ ps[a].next # 0 => /\ ps[a].next \in D /\ ps[ps[a].next].parent = ps[a].parent
                                  /\ ps[ps[a].next].prev = a
                                  /\ ps[a].next = a + 60 + ps[a].size
  BY <1>1 DEF PebbleOK, PEnd
<1>8. \A b \in DOMAIN bs : BEnd(bs, b) \in Nat
  BY DEF Layout, Typed, Buckets, BEnd
<1>9. ASSUME NEW a \in DOMAIN r
      PROVE  PebbleOK(r, bs, a)
  <2>1. CASE a = q
    <3>1. ps[t].next # 0 => r[ps[t].next].prev = q /\ r[ps[t].next].parent = ps[t].parent
      BY <1>4, <1>7
    <3> QED
      BY <1>1, <1>3, <1>4, <1>7, <2>1, <3>1 DEF PebbleOK, PEnd
  <2>2. CASE a = t
    <3>1. t # ps[t].next
      BY <1>1, <1>7
    <3>2. ps[t].prev # 0 => ps[t].prev # t
      BY <1>1, <1>7
    <3>3. ps[t].prev # 0 => r[ps[t].prev].next = t /\ r[ps[t].prev].parent = ps[t].parent
      BY <1>4, <1>7, <3>2
    <3> QED
      BY <1>1, <1>3, <1>4, <1>7, <1>8, <2>2, <3>1, <3>3 DEF PebbleOK, PEnd
  <2>3. CASE a \in D /\ a # t /\ a = ps[t].next
    <3>1. ps[a].prev = t
      BY <1>1, <1>7, <2>3
    <3>2. ps[a].next # 0 => ps[a].next # a /\ ps[a].next # ps[t].next
      BY <1>1, <1>7, <2>3
    <3>3. ps[a].next # 0 => r[ps[a].next].prev = a /\ r[ps[a].next].parent = ps[a].parent
      BY <1>4, <1>7, <2>3, <3>2
    <3> QED
      BY <1>1, <1>3, <1>4, <1>7, <2>3, <3>1, <3>3 DEF PebbleOK, PEnd
  <2>4. CASE a \in D /\ a # t /\ a # ps[t].next
    <3>1. ps[a].prev # 0 => ps[a].prev # t
      BY <1>7, <2>4
    <3>2. ps[a].prev # 0 => r[ps[a].prev].next = a /\ r[ps[a].prev].parent = ps[a].parent
      BY <1>4, <1>7, <2>4, <3>1
    <3>3. ps[a].next # 0 => ps[a].next # ps[t].next
      BY <1>1, <1>7, <2>4
    <3>4. ps[a].next # 0 => r[ps[a].next].prev = a /\ r[ps[a].next].parent = ps[a].parent
      BY <1>4, <1>7, <2>4, <3>3
    <3> QED
      BY <1>1, <1>4, <1>7, <2>4, <3>2, <3>4 DEF PebbleOK, PEnd
  <2> QED
    BY <1>4, <2>1, <2>2, <2>3, <2>4
<1>10. ASSUME NEW b \in DOMAIN bs
       PROVE  BucketOK(r, bs, end, b)
  <2>1. BucketOK(ps, bs, end, b)
    BY DEF Layout
  <2> QED
    BY <1>4, <2>1 DEF BucketOK
<1> QED
  BY <1>3, <1>5, <1>6, <1>9, <1>10 DEF Layout

\* A merge keeps the layout.
LEMMA MergeLayout ==
  ASSUME NEW ps, NEW bs, NEW end, Layout(ps, bs, end), NEW p \in DOMAIN ps, NEW q,
         q = ps[p].next, q # Null, NEW r, Merges(ps, r, p, q)
  PROVE  Layout(r, bs, end)
<1> DEFINE D == DOMAIN ps
<1>1. \A a \in D : /\ a \in Nat /\ a > 0 /\ PebbleOK(ps, bs, a)
                   /\ ps[a].size \in Nat /\ ps[a].prev \in Nat /\ ps[a].next \in Nat
                   /\ ps[a].parent \in Nat /\ ps[a].parent \in DOMAIN bs
  BY HeaderFacts
<1>2. \A a, c \in D : a < c => a + 60 + ps[a].size <= c
  BY DEF Layout, Apart, PEnd
<1>3. ASSUME NEW a \in D
      PROVE  /\ ps[a].parent \in DOMAIN bs /\ ps[a].parent + 64 <= a
             /\ a + 60 + ps[a].size <= BEnd(bs, ps[a].parent)
             /\ ps[a].prev = 0 => a = ps[a].parent + 64
             /\ ps[a].prev # 0 => /\ ps[a].prev \in D /\ ps[ps[a].prev].parent = ps[a].parent
                                  /\ ps[ps[a].prev].next = a
             /\ ps[a].next = 0 => a + 60 + ps[a].size = BEnd(bs, ps[a].parent)
             /\ ps[a].next # 0 => /\ ps[a].next \in D /\ ps[ps[a].next].parent = ps[a].parent
                                  /\ ps[ps[a].next].prev = a
                                  /\ ps[a].next = a + 60 + ps[a].size
  BY <1>1 DEF PebbleOK, PEnd
<1>4. /\ q \in D /\ q = p + 60 + ps[p].size /\ ps[q].prev = p /\ ps[q].parent = ps[p].parent
      /\ q \in Nat /\ p \in Nat /\ ps[p].size \in Nat /\ ps[q].size \in Nat /\ q # p
  BY <1>1, <1>3
<1>5. /\ DOMAIN r = D \ {q} /\ r \in [DOMAIN r -> Pebbles]
      /\ \A a \in D \ {q} : /\ r[a].parent = ps[a].parent
                            /\ r[a].size = IF a = p THEN ps[p].size + ps[q].size + 60 ELSE ps[a].size
                            /\ r[a].next = IF a = p THEN ps[q].next ELSE ps[a].next
                            /\ r[a].prev = IF a = ps[q].next THEN p ELSE ps[a].prev
  BY DEF Merges
<1>6. Typed(r, bs, end)
  <2>1. IsFiniteSet(D) /\ D \subseteq Nat
    BY DEF Layout, Typed
  <2>2. IsFiniteSet(D \ {q})
    BY <2>1, FS_RemoveElement
  <2> QED
    BY <1>5, <2>1, <2>2 DEF Layout, Typed
<1>7. Apart(r)
  <2> SUFFICES ASSUME NEW a \in D \ {q}, NEW c \in D \ {q}, a < c
               PROVE  a + 60 + r[a].size <= c
    BY <1>5 DEF Apart, PEnd
  <2>1. CASE a # p
    <3>1. r[a].size = ps[a].size
      BY <1>5, <2>1
    <3> QED
      BY <1>2, <3>1
  <2>2. CASE a = p
    <3>1. p + 60 + ps[p].size <= c
      BY <1>2, <2>2
    <3>2. q < c
      BY <1>1, <1>4, <3>1
    <3>3. q + 60 + ps[q].size <= c
      BY <1>2, <1>4, <3>2
    <3>4. r[a].size = ps[p].size + ps[q].size + 60
      BY <1>5, <2>2
    <3> QED
      BY <1>1, <1>4, <2>2, <3>3, <3>4
  <2> QED
    BY <2>1, <2>2
<1>8. \A b \in DOMAIN bs : BEnd(bs, b) \in Nat
  BY DEF Layout, Typed, Buckets, BEnd
<1>9. ASSUME NEW a \in DOMAIN r
      PROVE  PebbleOK(r, bs, a)
  <2>0. a \in D /\ a # q
    BY <1>5
  <2>1. CASE a = p
    <3>1. /\ r[p].size = ps[p].size + ps[q].size + 60 /\ r[p].next = ps[q].next
          /\ r[p].parent = ps[p].parent
      BY <1>4, <1>5
    <3>2. p # ps[q].next
      BY <1>1, <1>3, <1>4
    <3>3. r[p].prev = ps[p].prev
      BY <1>4, <1>5, <3>2
    <3>4. ps[p].prev # 0 => /\ ps[p].prev \in D \ {q} /\ ps[p].prev # p
                            /\ r[ps[p].prev].next = p /\ r[ps[p].prev].parent = ps[p].parent
      <4>1. ps[p].prev # 0 => /\ ps[p].prev \in D /\ ps[p].prev # q /\ ps[p].prev # p
                              /\ ps[ps[p].prev].next = p /\ ps[ps[p].prev].parent = ps[p].parent
        BY <1>1, <1>3, <1>4
      <4> QED
        BY <1>5, <4>1
    <3>5. ps[q].next # 0 => /\ ps[q].next \in D \ {q} /\ ps[q].next = q + 60 + ps[q].size
                            /\ r[ps[q].next].prev = p /\ r[ps[q].next].parent = ps[p].parent
      <4>1. ps[q].next # 0 => /\ ps[q].next \in D /\ ps[q].next # q /\ ps[q].next # p
                              /\ ps[ps[q].next].parent = ps[p].parent
                              /\ ps[q].next = q + 60 + ps[q].size
        BY <1>1, <1>3, <1>4
      <4> QED
        BY <1>5, <4>1
    <3>6. /\ p + 60 + r[p].size = q + 60 + ps[q].size
          /\ q + 60 + ps[q].size <= BEnd(bs, ps[p].parent)
          /\ ps[q].next = 0 => q + 60 + ps[q].size = BEnd(bs, ps[p].parent)
      BY <1>3, <1>4, <3>1
    <3>7. /\ ps[p].parent \in DOMAIN bs /\ ps[p].parent + 64 <= p
          /\ ps[p].prev = 0 => p = ps[p].parent + 64
      BY <1>3
    <3> QED
      BY <1>5, <2>1, <3>1, <3>3, <3>4, <3>5, <3>6, <3>7 DEF PebbleOK, PEnd
  <2>2. CASE a # p /\ a = ps[q].next
    <3>1. /\ r[a].size = ps[a].size /\ r[a].next = ps[a].next /\ r[a].parent = ps[a].parent
          /\ r[a].prev = p
      BY <1>5, <2>0, <2>2
    <3>2. ps[a].parent = ps[p].parent /\ r[p].next = a /\ r[p].parent = ps[p].parent
      BY <1>3, <1>4, <1>5, <2>0, <2>2, HeaderFacts
    <3>3. ps[a].next # 0 => /\ ps[a].next \in D \ {q} /\ ps[a].next = a + 60 + ps[a].size
                            /\ r[ps[a].next].prev = a /\ r[ps[a].next].parent = ps[a].parent
      <4>1. ps[a].next # 0 => /\ ps[a].next \in D /\ ps[a].next # q /\ ps[a].next # a
                              /\ ps[ps[a].next].prev = a /\ ps[ps[a].next].parent = ps[a].parent
                              /\ ps[a].next = a + 60 + ps[a].size
        BY <1>1, <1>3, <1>4, <2>0, <2>2
      <4> QED
        BY <1>5, <2>2, <4>1
    <3>4. /\ ps[a].parent \in DOMAIN bs /\ ps[a].parent + 64 <= a
          /\ a + 60 + ps[a].size <= BEnd(bs, ps[a].parent)
          /\ ps[a].next = 0 => a + 60 + ps[a].size = BEnd(bs, ps[a].parent)
      BY <1>3, <2>0
    <3> QED
      BY <1>1, <1>4, <1>5, <3>1, <3>2, <3>3, <3>4 DEF PebbleOK, PEnd
  <2>3. CASE a # p /\ a # ps[q].next
    <3>1. /\ r[a].size = ps[a].size /\ r[a].next = ps[a].next /\ r[a].parent = ps[a].parent
          /\ r[a].prev = ps[a].prev
      BY <1>5, <2>0, <2>3
    <3>2. ps[a].prev # 0 => /\ ps[a].prev \in D \ {q}
                            /\ r[ps[a].prev].next = a /\ r[ps[a].prev].parent = ps[a].parent
      <4>1. ps[a].prev # 0 => /\ ps[a].prev \in D /\ ps[a].prev # q /\ ps[a].prev # p
                              /\ ps[ps[a].prev].next = a /\ ps[ps[a].prev].parent = ps[a].parent
        BY <1>3, <1>4, <2>0, <2>3
      <4> QED
        BY <1>5, <4>1
    <3>3. ps[a].next # 0 => /\ ps[a].next \in D \ {q} /\ ps[a].next = a + 60 + ps[a].size
                            /\ r[ps[a].next].prev = a /\ r[ps[a].next].parent = ps[a].parent
      <4>1. ps[a].next # 0 => /\ ps[a].next \in D /\ ps[a].next # q /\ ps[a].next # ps[q].next
                              /\ ps[ps[a].next].prev = a /\ ps[ps[a].next].parent = ps[a].parent
                              /\ ps[a].next = a + 60 + ps[a].size
        BY <1>3, <1>4, <2>0, <2>3
      <4> QED
        BY <1>5, <4>1
    <3>4. /\ ps[a].parent \in DOMAIN bs /\ ps[a].parent + 64 <= a
          /\ a + 60 + ps[a].size <= BEnd(bs, ps[a].parent)
          /\ ps[a].prev = 0 => a = ps[a].parent + 64
          /\ ps[a].next = 0 => a + 60 + ps[a].size = BEnd(bs, ps[a].parent)
      BY <1>3, <2>0
    <3> QED
      BY <1>5, <3>1, <3>2, <3>3, <3>4 DEF PebbleOK, PEnd
  <2> QED
    BY <2>1, <2>2, <2>3
<1>10. ASSUME NEW b \in DOMAIN bs
       PROVE  BucketOK(r, bs, end, b)
  <2>1. BucketOK(ps, bs, end, b)
    BY DEF Layout
  <2>2. q # b + 64
    <3>1. ps[p].parent + 64 <= p /\ ps[p].parent = ps[q].parent
      BY <1>3, <1>4
    <3>2. q = b + 64 => ps[q].parent = b
      BY <2>1 DEF BucketOK
    <3>3. b \in Nat
      BY DEF Layout, Typed
    <3> QED
      BY <1>4, <3>1, <3>2, <3>3
  <2> QED
    BY <1>5, <2>1, <2>2 DEF BucketOK
<1> QED
  BY <1>6, <1>7, <1>9, <1>10 DEF Layout

\* A flag has no part in the layout.
LEMMA MarkLayout ==
  ASSUME NEW ps, NEW bs, NEW end, Layout(ps, bs, end), NEW p, NEW v, NEW r, Marks(ps, r, p, v)
  PROVE  Layout(r, bs, end)
<1>1. /\ DOMAIN r = DOMAIN ps /\ r \in [DOMAIN r -> Pebbles]
      /\ \A a \in DOMAIN ps : /\ r[a].parent = ps[a].parent /\ r[a].size = ps[a].size
                              /\ r[a].next = ps[a].next /\ r[a].prev = ps[a].prev
  BY DEF Marks
<1>2. Typed(r, bs, end)
  BY <1>1 DEF Layout, Typed
<1>3. Apart(r)
  BY <1>1 DEF Layout, Apart, PEnd
<1>4. ASSUME NEW a \in DOMAIN r
      PROVE  PebbleOK(r, bs, a)
  <2>1. PebbleOK(ps, bs, a)
    BY <1>1 DEF Layout
  <2> QED
    BY <1>1, <2>1 DEF PebbleOK, PEnd
<1>5. \A b \in DOMAIN bs : BucketOK(r, bs, end, b)
  BY <1>1 DEF Layout, BucketOK
<1> QED
  BY <1>2, <1>3, <1>4, <1>5 DEF Layout

\* A field of a header updated.
LEMMA PebbleFields ==
  ASSUME NEW k \in Pebbles
  PROVE  /\ \A v \in Nat : /\ [k EXCEPT !.size = v] \in Pebbles
                           /\ [k EXCEPT !.prev = v] \in Pebbles
                           /\ [k EXCEPT !.next = v] \in Pebbles
         /\ \A v \in {FREE, IN_USE} : [k EXCEPT !.lflags = v] \in Pebbles
BY DEF Pebbles

\* split_pebble splits.
LEMMA SplitIs ==
  ASSUME NEW ps, NEW bs, NEW end, Layout(ps, bs, end), NEW t \in DOMAIN ps, NEW want, NEW s \in Nat,
         s = RoundUp(want, PEBBLE_MIN_ALIGN), s + PEBBLE <= ps[t].size, SPLIT_PEBBLE(ps[t].size, want),
         NEW q, q = SplitAt(t, want), NEW r, r = split_pebble(ps, t, want)
  PROVE  q = t + PEBBLE + s /\ Splits(ps, r, t, q, s)
<1> DEFINE k == ps[t]
           n == k.next
           c == [k EXCEPT !.size = (k.size - s - 60) % WORDMOD, !.prev = t]
           copied == Put(ps, q, c)
           relinked == IF copied[t].next = 0 THEN copied ELSE [copied EXCEPT ![copied[t].next].prev = q]
<1>1. /\ t \in Nat /\ k \in Pebbles /\ k.size \in Nat /\ n \in Nat /\ k.size <= MAXHEAP /\ n # t
      /\ n # 0 => n \in DOMAIN ps
  <2>1. /\ t \in Nat /\ k \in Pebbles /\ PebbleOK(ps, bs, t) /\ k.size \in Nat /\ n \in Nat
        /\ PEnd(ps, t) <= end /\ end <= MAXHEAP /\ t > 0
    BY HeaderFacts
  <2>2. end \in Nat
    BY DEF Layout, Typed
  <2>3. n # 0 => n \in DOMAIN ps /\ n = t + 60 + k.size
    BY <2>1 DEF PebbleOK, PEnd
  <2> QED
    BY <2>1, <2>2, <2>3, HeapFacts DEF PEnd
<1>2. q = t + 60 + s /\ q \in Nat
  BY <1>1 DEF SplitAt
<1>3. q \notin DOMAIN ps
  <2>1. \A a \in DOMAIN ps : t < a => t + 60 + k.size <= a
    BY DEF Layout, Apart, PEnd
  <2> QED
    BY <1>1, <1>2, <2>1
<1>4. (k.size - s - 60) % WORDMOD = k.size - s - 60 /\ k.size - s - 60 \in Nat
  <2>1. k.size - s - 60 \in 0 .. WORDMOD - 1
    BY <1>1, HeapFacts
  <2> QED
    BY <2>1, HeapFacts
<1>5. c = [k EXCEPT !.size = k.size - s - 60, !.prev = t] /\ c \in Pebbles
  BY <1>1, <1>4 DEF Pebbles
<1>6. /\ DOMAIN copied = DOMAIN ps \cup {q} /\ copied[q] = c
      /\ \A a \in DOMAIN ps : copied[a] = ps[a]
      /\ copied \in [DOMAIN ps \cup {q} -> Pebbles]
  <2>1. copied = [b \in DOMAIN ps \cup {q} |-> IF b = q THEN c ELSE ps[b]]
    BY DEF Put
  <2>2. \A a \in DOMAIN ps : ps[a] \in Pebbles
    BY HeaderFacts
  <2> QED
    BY <1>3, <1>5, <2>1, <2>2
<1>7. r = [relinked EXCEPT ![t].size = s, ![t].next = q]
  BY DEF split_pebble
<1> HIDE DEF copied, c
<1>8. /\ DOMAIN relinked = DOMAIN ps \cup {q} /\ relinked \in [DOMAIN ps \cup {q} -> Pebbles]
      /\ relinked[q] = c
      /\ \A a \in DOMAIN ps : relinked[a] = IF a = n THEN [ps[a] EXCEPT !.prev = q] ELSE ps[a]
  <2>1. copied[t].next = n
    BY <1>6
  <2>2. 0 \notin DOMAIN ps
    BY HeaderFacts
  <2>3. CASE n = 0
    BY <1>6, <2>1, <2>2, <2>3
  <2>4. CASE n # 0
    <3>1. relinked = [copied EXCEPT ![n].prev = q]
      BY <2>1, <2>4
    <3>2. n \in DOMAIN ps /\ n # q
      BY <1>1, <1>3, <2>4
    <3>3. [copied[n] EXCEPT !.prev = q] \in Pebbles
      BY <1>2, <1>6, <3>2, PebbleFields
    <3> QED
      BY <1>6, <3>1, <3>2, <3>3
  <2> QED
    BY <2>3, <2>4
<1> HIDE DEF relinked
<1>9. /\ DOMAIN r = DOMAIN ps \cup {q} /\ r[q] = c
      /\ r[t] = [[k EXCEPT !.size = s] EXCEPT !.next = q]
      /\ \A a \in DOMAIN ps \ {t} : r[a] = relinked[a]
      /\ r \in [DOMAIN ps \cup {q} -> Pebbles]
  <2>1. relinked[t] = k /\ q # t
    BY <1>1, <1>3, <1>8
  <2>2. [[k EXCEPT !.size = s] EXCEPT !.next = q] \in Pebbles
    BY <1>1, <1>2 DEF Pebbles
  <2>3. r = [relinked EXCEPT ![t] = [[k EXCEPT !.size = s] EXCEPT !.next = q]]
    BY <1>7, <1>8, <2>1
  <2> QED
    BY <1>8, <2>1, <2>2, <2>3
<1>10. /\ r[q].parent = k.parent /\ r[q].lflags = k.lflags /\ r[q].size = k.size - s - 60
       /\ r[q].prev = t /\ r[q].next = n
  BY <1>1, <1>5, <1>9 DEF Pebbles
<1>11. /\ r[t].parent = k.parent /\ r[t].lflags = k.lflags /\ r[t].size = s
       /\ r[t].prev = k.prev /\ r[t].next = q
  BY <1>1, <1>9 DEF Pebbles
<1>12. ASSUME NEW a \in DOMAIN ps, a # t
       PROVE  /\ r[a].parent = ps[a].parent /\ r[a].lflags = ps[a].lflags /\ r[a].size = ps[a].size
              /\ r[a].next = ps[a].next /\ r[a].prev = IF a = n THEN q ELSE ps[a].prev
  <2>1. r[a] = IF a = n THEN [ps[a] EXCEPT !.prev = q] ELSE ps[a]
    BY <1>8, <1>9, <1>12
  <2>2. ps[a] \in Pebbles
    BY HeaderFacts
  <2> QED
    BY <2>1, <2>2 DEF Pebbles
<1> HIDE DEF n
<1> QED
  BY <1>1, <1>2, <1>9, <1>10, <1>11, <1>12 DEF Splits, n

\* Swallow merges.
LEMMA SwallowIs ==
  ASSUME NEW h, IsHeap(h), Layout(h.ps, h.bs, h.end), NEW p \in DOMAIN h.ps, NEW q,
         q = h.ps[p].next, q # Null, NEW g, g = Swallow(h, p, q)
  PROVE  /\ IsHeap(g) /\ g.bs = h.bs /\ g.end = h.end /\ g.ret = h.ret /\ g.status = h.status
         /\ Merges(h.ps, g.ps, p, q)
<1> DEFINE ps == h.ps
           n == ps[q].next
           z == (ps[p].size + ps[q].size + 60) % WORDMOD
           ps1 == [ps EXCEPT ![p].size = z, ![p].next = n]
           ps2 == IF n = 0 THEN ps1 ELSE [ps1 EXCEPT ![n].prev = p]
           r == Drop(ps2, {q})
<1>1. g = [h EXCEPT !.ps = r]
  BY DEF Swallow
<1>2. g = [ps |-> r, bs |-> h.bs, end |-> h.end, ret |-> h.ret, status |-> h.status]
  <2> HIDE DEF r
  <2> QED
    BY <1>1 DEF IsHeap
<1>3. /\ p \in Nat /\ ps[p] \in Pebbles /\ ps[p].size \in Nat /\ PebbleOK(ps, h.bs, p) /\ q \in Nat
  BY HeaderFacts
<1>4. q \in DOMAIN ps /\ q = p + 60 + ps[p].size /\ q # p
  BY <1>3 DEF PebbleOK, PEnd
<1>5. /\ ps[q] \in Pebbles /\ ps[q].size \in Nat /\ PebbleOK(ps, h.bs, q) /\ n \in Nat
      /\ PEnd(ps, q) <= h.end /\ h.end <= MAXHEAP
  BY <1>4, HeaderFacts
<1>6. /\ n # 0 => n \in DOMAIN ps
      /\ n # p /\ n # q
  <2>1. n # 0 => n \in DOMAIN ps /\ n = q + 60 + ps[q].size
    BY <1>5 DEF PebbleOK, PEnd
  <2>2. 0 \notin DOMAIN ps
    BY HeaderFacts
  <2> QED
    BY <1>3, <1>4, <1>5, <2>1, <2>2
<1>7. z = ps[p].size + ps[q].size + 60 /\ z \in Nat
  <2>1. h.end \in Nat
    BY DEF Layout, Typed
  <2>2. ps[p].size + ps[q].size + 60 \in 0 .. WORDMOD - 1
    BY <1>3, <1>4, <1>5, <2>1, HeapFacts DEF PEnd
  <2> QED
    BY <2>2, HeapFacts
<1> HIDE DEF z
<1>8. /\ DOMAIN ps1 = DOMAIN ps /\ ps1 \in [DOMAIN ps -> Pebbles]
      /\ ps1[p] = [[ps[p] EXCEPT !.size = z] EXCEPT !.next = n]
      /\ \A a \in DOMAIN ps \ {p} : ps1[a] = ps[a]
  <2>1. [[ps[p] EXCEPT !.size = z] EXCEPT !.next = n] \in Pebbles
    BY <1>3, <1>5, <1>7 DEF Pebbles
  <2>2. ps \in [DOMAIN ps -> Pebbles]
    BY DEF Layout, Typed
  <2>3. ps1 = [ps EXCEPT ![p] = [[ps[p] EXCEPT !.size = z] EXCEPT !.next = n]]
    BY <2>2
  <2> HIDE DEF ps1
  <2> QED
    BY <2>1, <2>2, <2>3
<1> HIDE DEF ps1
<1>9. /\ DOMAIN ps2 = DOMAIN ps /\ ps2 \in [DOMAIN ps -> Pebbles]
      /\ \A a \in DOMAIN ps : ps2[a] = IF a = n THEN [ps1[a] EXCEPT !.prev = p] ELSE ps1[a]
  <2>1. 0 \notin DOMAIN ps
    BY HeaderFacts
  <2>2. CASE n = 0
    BY <1>8, <2>1, <2>2
  <2>3. CASE n # 0
    <3>1. [ps1[n] EXCEPT !.prev = p] \in Pebbles
      BY <1>3, <1>6, <1>8, <2>3, PebbleFields
    <3> QED
      BY <1>6, <1>8, <2>3, <3>1
  <2> QED
    BY <2>2, <2>3
<1> HIDE DEF ps2
<1>10. /\ DOMAIN r = DOMAIN ps \ {q} /\ r \in [DOMAIN r -> Pebbles]
       /\ \A a \in DOMAIN ps \ {q} : r[a] = ps2[a]
  BY <1>9 DEF Drop
<1>11. ASSUME NEW a \in DOMAIN ps, a # q
       PROVE  /\ r[a].parent = ps[a].parent /\ r[a].lflags = ps[a].lflags
              /\ r[a].size = IF a = p THEN ps[p].size + ps[q].size + 60 ELSE ps[a].size
              /\ r[a].next = IF a = p THEN n ELSE ps[a].next
              /\ r[a].prev = IF a = n THEN p ELSE ps[a].prev
  <2>1. r[a] = IF a = n THEN [ps1[a] EXCEPT !.prev = p] ELSE ps1[a]
    BY <1>9, <1>10, <1>11
  <2>2. ps[a] \in Pebbles
    BY HeaderFacts
  <2>3. CASE a = p
    <3>1. r[a] = [[ps[p] EXCEPT !.size = z] EXCEPT !.next = n]
      BY <1>6, <1>8, <2>1, <2>3
    <3> QED
      BY <1>6, <1>7, <2>2, <2>3, <3>1 DEF Pebbles
  <2>4. CASE a # p
    <3>1. r[a] = IF a = n THEN [ps[a] EXCEPT !.prev = p] ELSE ps[a]
      BY <1>8, <2>1, <2>4
    <3> QED
      BY <2>2, <2>4, <3>1 DEF Pebbles
  <2> QED
    BY <2>3, <2>4
<1> HIDE DEF r
<1>12. /\ g.bs = h.bs /\ g.end = h.end /\ g.ret = h.ret /\ g.status = h.status /\ g.ps = r
       /\ IsHeap(g)
  BY <1>2 DEF IsHeap
<1>13. Merges(ps, r, p, q)
  BY <1>10, <1>11 DEF Merges
<1> QED
  BY <1>12, <1>13

-----------------------------------------------------------------------------
(* The cached size.                                                         *)

\* MaxOf finds the greatest member of a bounded set.
LEMMA MaxIs ==
  ASSUME NEW M \in Nat, NEW S, S \subseteq 0 .. M, S # {}
  PROVE  MaxOf(S) \in S /\ \A y \in S : y <= MaxOf(S)
<1> DEFINE T == {M - x : x \in S}
<1>1. T \subseteq Nat /\ T # {}
  <2>1. \A x \in S : M - x \in Nat /\ M - x \in T
    OBVIOUS
  <2>2. PICK x \in S : TRUE
    OBVIOUS
  <2> QED
    BY <2>1, <2>2
<1>2. PICK d \in T : \A e \in T : d <= e
  <2> HIDE DEF T
  <2> QED
    BY <1>1, HasLeast
<1>3. PICK x \in S : d = M - x
  OBVIOUS
<1>4. \A y \in S : y <= x
  <2> TAKE y \in S
  <2>1. M - y \in T /\ y \in Nat /\ x \in Nat
    OBVIOUS
  <2>2. M - x <= M - y
    BY <1>2, <1>3, <2>1
  <2> QED
    BY <2>1, <2>2
<1> QED
  BY <1>4 DEF MaxOf

\* In c only the cached size of bucket b differs from bs.
Refreshes(bs, c, b) ==
  /\ DOMAIN c = DOMAIN bs /\ c \in [DOMAIN c -> Buckets]
  /\ \A a \in DOMAIN bs :
       /\ c[a].lflags = bs[a].lflags /\ c[a].size = bs[a].size /\ c[a].first = bs[a].first
       /\ c[a].prev = bs[a].prev /\ c[a].next = bs[a].next
       /\ a # b => c[a].largest_free = bs[a].largest_free

\* The cache has no part in layout and chain.
LEMMA RefreshKeeps ==
  ASSUME NEW ps, NEW bs, NEW end, Layout(ps, bs, end), Chain(bs), NEW b, NEW c, Refreshes(bs, c, b)
  PROVE  Layout(ps, c, end) /\ Chain(c)
<1>1. /\ DOMAIN c = DOMAIN bs /\ c \in [DOMAIN c -> Buckets]
      /\ \A a \in DOMAIN bs : /\ c[a].size = bs[a].size /\ c[a].first = bs[a].first
                              /\ c[a].prev = bs[a].prev /\ c[a].next = bs[a].next
  BY DEF Refreshes
<1>2. Typed(ps, c, end) /\ Apart(ps)
  BY <1>1 DEF Layout, Typed
<1>3. \A a \in DOMAIN bs : BEnd(c, a) = BEnd(bs, a)
  BY <1>1 DEF BEnd
<1>4. ASSUME NEW p \in DOMAIN ps
      PROVE  PebbleOK(ps, c, p)
  <2>1. PebbleOK(ps, bs, p)
    BY DEF Layout
  <2> QED
    BY <1>1, <1>3, <2>1 DEF PebbleOK
<1>5. ASSUME NEW a \in DOMAIN c
      PROVE  BucketOK(ps, c, end, a)
  <2>1. BucketOK(ps, bs, end, a)
    BY <1>1 DEF Layout
  <2> QED
    BY <1>1, <1>3, <2>1 DEF BucketOK
<1>6. Chain(c)
  <2>1. /\ KHEAPSTART \in DOMAIN bs /\ bs[KHEAPSTART].prev = 0
        /\ \A a \in DOMAIN bs : bs[a].next # 0 =>
             /\ bs[a].next \in DOMAIN bs /\ bs[bs[a].next].prev = a
             /\ bs[a].next # KHEAPSTART /\ (a # KHEAPSTART => bs[a].next < a)
        /\ \A a \in DOMAIN bs \ {KHEAPSTART} : bs[a].prev \in DOMAIN bs /\ bs[bs[a].prev].next = a
    BY DEF Chain
  <2> QED
    BY <1>1, <2>1 DEF Chain
<1> QED
  BY <1>2, <1>4, <1>5, <1>6 DEF Layout

\* bucket_update_largest.
LEMMA UpdateLargest ==
  ASSUME NEW h, NEW B, Core(h, B), NEW b \in DOMAIN h.bs, NEW g, g = bucket_update_largest(h, b)
  PROVE  /\ Core(g, B \cup {b}) /\ Refreshes(h.bs, g.bs, b)
         /\ g.ps = h.ps /\ g.end = h.end /\ g.ret = h.ret
<1> DEFINE S == {0} \cup {h.ps[p].size : p \in OnList(h.ps, h.bs[b].first)}
           m == MaxOf(S)
           c == [h.bs EXCEPT ![b].largest_free = m]
<1>1. IsHeap(h) /\ h.status = "ok" /\ Layout(h.ps, h.bs, h.end) /\ Chain(h.bs) /\ Cached(h.ps, h.bs, B)
  BY DEF Core
<1>2. S = {0} \cup {h.ps[p].size : p \in Kids(h.ps, b)}
  BY <1>1, PebbleList
<1>3. S \subseteq 0 .. MAXHEAP /\ S # {}
  <2>1. \A p \in DOMAIN h.ps : h.ps[p].size \in 0 .. MAXHEAP
    <3> TAKE p \in DOMAIN h.ps
    <3>1. p \in Nat /\ h.ps[p].size \in Nat /\ PEnd(h.ps, p) <= h.end /\ h.end <= MAXHEAP
      BY <1>1, HeaderFacts
    <3>2. h.end \in Nat
      BY <1>1 DEF Layout, Typed
    <3> QED
      BY <3>1, <3>2, HeapFacts DEF PEnd
  <2>2. Kids(h.ps, b) \subseteq DOMAIN h.ps /\ 0 \in 0 .. MAXHEAP
    BY HeapFacts DEF Kids
  <2>3. 0 \in S /\ \A x \in S : x = 0 \/ \E p \in Kids(h.ps, b) : x = h.ps[p].size
    BY <1>2
  <2> HIDE DEF S
  <2> QED
    BY <2>1, <2>2, <2>3
<1>4. m \in Nat /\ \A p \in Kids(h.ps, b) : h.ps[p].size <= m
  <2>0. MAXHEAP \in Nat
    BY HeapFacts
  <2>1. m \in S /\ \A y \in S : y <= m
    <3> HIDE DEF S
    <3> QED
      BY <1>3, <2>0, MaxIs
  <2> HIDE DEF m
  <2>2. \A p \in Kids(h.ps, b) : h.ps[p].size \in S
    BY <1>2
  <2> HIDE DEF S
  <2>3. m \in Nat
    BY <1>3, <2>0, <2>1
  <2> QED
    BY <2>1, <2>2, <2>3
<1>5. g = [ps |-> h.ps, bs |-> c, end |-> h.end, ret |-> h.ret, status |-> h.status]
  <2>1. g = [h EXCEPT !.bs = c]
    BY <1>1 DEF bucket_update_largest, IsHeap
  <2> HIDE DEF c
  <2> QED
    BY <1>1, <2>1 DEF IsHeap
<1> HIDE DEF m
<1>6. /\ DOMAIN c = DOMAIN h.bs /\ c[b] = [h.bs[b] EXCEPT !.largest_free = m]
      /\ \A a \in DOMAIN h.bs \ {b} : c[a] = h.bs[a]
  BY <1>1 DEF Layout, Typed
<1>7. \A a \in DOMAIN h.bs : h.bs[a] \in Buckets
  BY <1>1 DEF Layout, Typed
<1>8. /\ c[b] \in Buckets /\ c[b].lflags = h.bs[b].lflags /\ c[b].size = h.bs[b].size
      /\ c[b].first = h.bs[b].first /\ c[b].prev = h.bs[b].prev /\ c[b].next = h.bs[b].next
      /\ c[b].largest_free = m
  <2>1. h.bs[b] \in Buckets
    BY <1>7
  <2> QED
    BY <1>4, <1>6, <2>1 DEF Buckets
<1>9. c \in [DOMAIN c -> Buckets]
  <2>1. c = [a \in DOMAIN c |-> c[a]]
    OBVIOUS
  <2>2. \A a \in DOMAIN c : c[a] \in Buckets
    BY <1>6, <1>7, <1>8
  <2> HIDE DEF c
  <2> QED
    BY <2>1, <2>2
<1> HIDE DEF c
<1>10. Refreshes(h.bs, c, b)
  BY <1>6, <1>8, <1>9 DEF Refreshes
<1>11. Layout(h.ps, c, h.end) /\ Chain(c)
  BY <1>1, <1>10, RefreshKeeps
<1>12. Cached(h.ps, c, B \cup {b})
  BY <1>1, <1>4, <1>6, <1>8, HeaderFacts DEF Cached, Kids
<1>13. g.ps = h.ps /\ g.bs = c /\ g.end = h.end /\ g.ret = h.ret /\ g.status = "ok" /\ IsHeap(g)
  BY <1>1, <1>5 DEF IsHeap
<1> QED
  BY <1>10, <1>11, <1>12, <1>13 DEF Core

=============================================================================
