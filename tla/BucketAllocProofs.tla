-------------------------- MODULE BucketAllocProofs --------------------------
(***************************************************************************)
(* Proofs about the kernel heap for every sequence of calls, every set of   *)
(* sizes that the arithmetic of the code gets right, and every bound: no    *)
(* traversal hangs, the lists survive all splits and merges, blocks stay    *)
(* apart, and room is never overlooked.                                     *)
(***************************************************************************)
EXTENDS HeapLayoutProofs

USE DEF Null, PAGESIZE, BUCKET, PEBBLE, FREE, IN_USE, PEBBLE_MIN_ALIGN, PEBBLE_MIN_SIZE

-----------------------------------------------------------------------------
(* Sizes.                                                                   *)

\* RoundUp to the 64 bytes of a pebble.
LEMMA RoundsUp ==
  ASSUME NEW n \in Nat
  PROVE  RoundUp(n, 64) \in Nat /\ n <= RoundUp(n, 64)
BY DEF RoundUp

\* The size of a pebble is a number of pages, which RoundUp leaves alone.
LEMMA NeedIs ==
  ASSUME NEW n \in Nat
  PROVE  PebbleSize(n) \in Nat /\ RoundUp(PebbleSize(n), 64) = PebbleSize(n)
<1>1. PICK k \in Nat : PebbleSize(n) = k * 4096
  BY DEF PebbleSize
<1>2. (k * 4096 + 64 - 1) \div 64 = k * 64
  OBVIOUS
<1> QED
  BY <1>1, <1>2 DEF RoundUp

\* A pebble that SPLIT_PEBBLE allows to split holds the request and a header.
LEMMA SplitRoom ==
  ASSUME NEW s0 \in Nat, s0 <= MAXHEAP, NEW s1 \in Nat, SPLIT_PEBBLE(s0, s1)
  PROVE  s1 + PEBBLE <= s0
<1> DEFINE v == (s0 + 63) % WORDMOD
           x == (v \div 64) % 2
<1>1. v = s0 + 63
  <2>1. s0 + 63 \in 0 .. WORDMOD - 1
    BY HeapFacts
  <2> QED
    BY <2>1, HeapFacts
<1>2. v - 64 * x > s1 + 60 + 64
  BY <1>1 DEF SPLIT_PEBBLE
<1>3. x \in Nat
  BY <1>1
<1> HIDE DEF x
<1> QED
  BY <1>1, <1>2, <1>3

-----------------------------------------------------------------------------
(* Taking a pebble.                                                         *)

\* Headers in use of ps, those in X apart, are in r as they were.
Kept(ps, r, X) ==
  \A p \in DOMAIN ps \ X : ps[p].lflags = IN_USE =>
    /\ p \in DOMAIN r /\ r[p].lflags = IN_USE
    /\ r[p].size = ps[p].size /\ r[p].parent = ps[p].parent

\* Once t is in use, no two free pebbles are neighbours.
MergedBut(r, t) ==
  \A p \in DOMAIN r \ {t} :
    r[p].next \notin {Null, t} /\ r[p].lflags = FREE => r[r[p].next].lflags = IN_USE

\* r is ps with pebble t split for want bytes, or as it was.
SplitFor(ps, r, bs, end, t, want) ==
  /\ Layout(r, bs, end) /\ DOMAIN ps \subseteq DOMAIN r
  /\ r[t].size = IF SPLIT_PEBBLE(ps[t].size, want) THEN RoundUp(want, 64) ELSE ps[t].size
  /\ r[t].lflags = ps[t].lflags /\ r[t].parent = ps[t].parent
  /\ Kept(ps, r, {t}) /\ MergedBut(r, t)
  /\ \A B : Cached(ps, bs, B) => Cached(r, bs, B)

\* split_pebble.
LEMMA SplitPebble ==
  ASSUME NEW ps, NEW bs, NEW end, Layout(ps, bs, end), Merged(ps), NEW t \in DOMAIN ps,
         NEW want \in Nat, SPLIT_PEBBLE(ps[t].size, want) => RoundUp(want, 64) + PEBBLE <= ps[t].size,
         NEW r, r = split_pebble(ps, t, want)
  PROVE  SplitFor(ps, r, bs, end, t, want)
<1>1. CASE ~SPLIT_PEBBLE(ps[t].size, want)
  <2>1. r = ps
    BY <1>1 DEF split_pebble
  <2> QED
    BY <1>1, <2>1 DEF SplitFor, Kept, MergedBut, Merged
<1>2. CASE SPLIT_PEBBLE(ps[t].size, want)
  <2>1. PICK s \in Nat : s = RoundUp(want, 64)
    BY RoundsUp
  <2>2. PICK q : q = SplitAt(t, want)
    OBVIOUS
  <2>3. s + 60 <= ps[t].size
    BY <1>2, <2>1
  <2>4. q = t + 60 + s /\ Splits(ps, r, t, q, s)
    BY <1>2, <2>1, <2>2, <2>3, SplitIs
  <2>5. Layout(r, bs, end) /\ q \notin DOMAIN ps
    BY <2>3, <2>4, SplitLayout
  <2>6. /\ DOMAIN r = DOMAIN ps \cup {q}
        /\ \A a \in DOMAIN ps :
             /\ r[a].parent = ps[a].parent /\ r[a].lflags = ps[a].lflags
             /\ r[a].size = IF a = t THEN s ELSE ps[a].size
             /\ r[a].next = IF a = t THEN q ELSE ps[a].next
        /\ r[q].parent = ps[t].parent /\ r[q].lflags = ps[t].lflags
        /\ r[q].size = ps[t].size - s - 60 /\ r[q].next = ps[t].next
    BY <2>4 DEF Splits
  <2>7. \A a \in DOMAIN ps : ps[a].next # 0 => ps[a].next \in DOMAIN ps
    BY HeaderFacts DEF PebbleOK
  <2>8. Kept(ps, r, {t})
    BY <2>6 DEF Kept
  <2>9. MergedBut(r, t)
    <3> SUFFICES ASSUME NEW p \in DOMAIN r, p # t, r[p].next # 0, r[p].next # t, r[p].lflags = 0
                 PROVE  r[r[p].next].lflags = 1
      BY DEF MergedBut
    <3>1. CASE p = q
      BY <2>6, <2>7, <3>1 DEF Merged
    <3>2. CASE p \in DOMAIN ps
      BY <2>6, <2>7, <3>2 DEF Merged
    <3> QED
      BY <2>6, <3>1, <3>2
  <2>10. ASSUME NEW B, Cached(ps, bs, B)
         PROVE  Cached(r, bs, B)
    <3>1. ps[t].size \in Nat
      BY HeaderFacts
    <3>2. \A a \in DOMAIN r : \E c \in DOMAIN ps : r[a].parent = ps[c].parent /\ r[a].size <= ps[c].size
      <4> TAKE a \in DOMAIN r
      <4>1. CASE a = q
        BY <2>1, <2>3, <2>6, <3>1, <4>1
      <4>2. CASE a \in DOMAIN ps
        BY <2>1, <2>3, <2>6, <3>1, <4>2, HeaderFacts
      <4> QED
        BY <2>6, <4>1, <4>2
    <3> SUFFICES ASSUME NEW a \in DOMAIN r, r[a].parent \in B
                 PROVE  r[a].size <= bs[r[a].parent].largest_free
      BY DEF Cached
    <3>3. PICK c \in DOMAIN ps : r[a].parent = ps[c].parent /\ r[a].size <= ps[c].size
      BY <3>2
    <3>4. ps[c].size <= bs[r[a].parent].largest_free
      BY <2>10, <3>3 DEF Cached
    <3>5. r[a].size \in Nat /\ ps[c].size \in Nat /\ ps[c].parent \in DOMAIN bs
      BY <2>5, HeaderFacts
    <3>6. bs[r[a].parent].largest_free \in Nat
      BY <3>3, <3>5 DEF Layout, Typed, Buckets
    <3> QED
      BY <3>3, <3>4, <3>5, <3>6
  <2> QED
    BY <1>2, <2>1, <2>5, <2>6, <2>8, <2>9, <2>10 DEF SplitFor
<1> QED
  BY <1>1, <1>2

\* The header of the rest lands on no other header and inside the bucket.
LEMMA NoTear ==
  ASSUME NEW h, Layout(h.ps, h.bs, h.end), NEW t \in DOMAIN h.ps, NEW want \in Nat,
         SPLIT_PEBBLE(h.ps[t].size, want) => RoundUp(want, 64) + PEBBLE <= h.ps[t].size
  PROVE  ~SplitTears(h, t, want)
<1> SUFFICES ASSUME SPLIT_PEBBLE(h.ps[t].size, want), SplitTears(h, t, want)
             PROVE  FALSE
  BY DEF SplitTears
<1>1. PICK s \in Nat : s = RoundUp(want, 64)
  BY RoundsUp
<1>2. PICK q \in Nat : q = SplitAt(t, want) /\ q = t + 60 + s
  BY <1>1, HeaderFacts DEF SplitAt
<1>3. /\ t \in Nat /\ PebbleOK(h.ps, h.bs, t) /\ h.ps[t].size \in Nat
      /\ h.ps[t].parent \in DOMAIN h.bs
  BY HeaderFacts
<1>4. t + 60 + h.ps[t].size <= BEnd(h.bs, h.ps[t].parent) /\ BEnd(h.bs, h.ps[t].parent) \in Nat
  BY <1>3 DEF PebbleOK, PEnd, BEnd, Layout, Typed, Buckets
<1>5. ASSUME NEW a \in DOMAIN h.ps, a - 60 < q, q < a + 60
      PROVE  FALSE
  <2>1. a \in Nat /\ h.ps[a].size \in Nat
    BY HeaderFacts
  <2>2. (a < t => a + 60 + h.ps[a].size <= t) /\ (t < a => t + 60 + h.ps[t].size <= a)
    BY DEF Layout, Apart, PEnd
  <2> QED
    BY <1>1, <1>2, <1>3, <1>5, <2>1, <2>2
<1>6. q + 60 <= BEnd(h.bs, h.ps[t].parent)
  BY <1>1, <1>2, <1>3, <1>4
<1> QED
  BY <1>2, <1>3, <1>4, <1>5, <1>6 DEF SplitTears, BEnd

\* A heap with one other field.
LEMMA HeapField ==
  ASSUME NEW p0, NEW b0, NEW e0, NEW r0, NEW s0, NEW v, NEW h,
         h = [ps |-> p0, bs |-> b0, end |-> e0, ret |-> r0, status |-> s0]
  PROVE  /\ [h EXCEPT !.ps = v] = [ps |-> v, bs |-> b0, end |-> e0, ret |-> r0, status |-> s0]
         /\ [h EXCEPT !.bs = v] = [ps |-> p0, bs |-> v, end |-> e0, ret |-> r0, status |-> s0]
         /\ [h EXCEPT !.end = v] = [ps |-> p0, bs |-> b0, end |-> v, ret |-> r0, status |-> s0]
         /\ [h EXCEPT !.ret = v] = [ps |-> p0, bs |-> b0, end |-> e0, ret |-> v, status |-> s0]
         /\ [h EXCEPT !.status = v] = [ps |-> p0, bs |-> b0, end |-> e0, ret |-> r0, status |-> v]
<1>1. [h EXCEPT !.ps = v] = [ps |-> v, bs |-> b0, end |-> e0, ret |-> r0, status |-> s0]
  OBVIOUS
<1>2. [h EXCEPT !.bs = v] = [ps |-> p0, bs |-> v, end |-> e0, ret |-> r0, status |-> s0]
  OBVIOUS
<1>3. [h EXCEPT !.end = v] = [ps |-> p0, bs |-> b0, end |-> v, ret |-> r0, status |-> s0]
  OBVIOUS
<1>4. [h EXCEPT !.ret = v] = [ps |-> p0, bs |-> b0, end |-> e0, ret |-> v, status |-> s0]
  OBVIOUS
<1>5. [h EXCEPT !.status = v] = [ps |-> p0, bs |-> b0, end |-> e0, ret |-> r0, status |-> v]
  OBVIOUS
<1> QED
  BY <1>1, <1>2, <1>3, <1>4, <1>5

\* The updates of place_pebble, create_bucket, krealloc, remove_bucket and memset.
Taking(h, p, r, s) == [h EXCEPT !.ps = p, !.ret = r, !.status = s]
Growing(h, r, e, b, p) == [h EXCEPT !.ret = r, !.end = e, !.bs = b, !.ps = p]
Shrinking(h, r, p, s) == [h EXCEPT !.ret = r, !.ps = p, !.status = s]
Removing(h, b, p) == [h EXCEPT !.bs = b, !.ps = p]
Zeroing(h, p, b) == [h EXCEPT !.ps = p, !.bs = b]

\* They give a heap with other fields.
LEMMA HeapExcept ==
  ASSUME NEW h, IsHeap(h), NEW p, NEW b, NEW e, NEW r, NEW s
  PROVE  /\ Taking(h, p, r, s) = [ps |-> p, bs |-> h.bs, end |-> h.end, ret |-> r, status |-> s]
         /\ Growing(h, r, e, b, p) = [ps |-> p, bs |-> b, end |-> e, ret |-> r, status |-> h.status]
         /\ Shrinking(h, r, p, s) = [ps |-> p, bs |-> h.bs, end |-> h.end, ret |-> r, status |-> s]
         /\ Removing(h, b, p) = [ps |-> p, bs |-> b, end |-> h.end, ret |-> h.ret, status |-> h.status]
         /\ Zeroing(h, p, b) = [ps |-> p, bs |-> b, end |-> h.end, ret |-> h.ret, status |-> h.status]
<1>0. h = [ps |-> h.ps, bs |-> h.bs, end |-> h.end, ret |-> h.ret, status |-> h.status]
  BY DEF IsHeap
<1>1. Taking(h, p, r, s) = [ps |-> p, bs |-> h.bs, end |-> h.end, ret |-> r, status |-> s]
  <2> DEFINE x1 == [h EXCEPT !.ps = p]
             x2 == [x1 EXCEPT !.ret = r]
  <2>0. Taking(h, p, r, s) = [x2 EXCEPT !.status = s]
    BY DEF Taking
  <2>1. x1 = [ps |-> p, bs |-> h.bs, end |-> h.end, ret |-> h.ret, status |-> h.status]
    BY <1>0, HeapField
  <2> HIDE DEF x1
  <2>2. x2 = [ps |-> p, bs |-> h.bs, end |-> h.end, ret |-> r, status |-> h.status]
    BY <2>1, HeapField
  <2> HIDE DEF x2
  <2> QED
    BY <2>0, <2>2, HeapField
<1>2. Growing(h, r, e, b, p) = [ps |-> p, bs |-> b, end |-> e, ret |-> r, status |-> h.status]
  <2> DEFINE x1 == [h EXCEPT !.ret = r]
             x2 == [x1 EXCEPT !.end = e]
             x3 == [x2 EXCEPT !.bs = b]
  <2>0. Growing(h, r, e, b, p) = [x3 EXCEPT !.ps = p]
    BY DEF Growing
  <2>1. x1 = [ps |-> h.ps, bs |-> h.bs, end |-> h.end, ret |-> r, status |-> h.status]
    BY <1>0, HeapField
  <2> HIDE DEF x1
  <2>2. x2 = [ps |-> h.ps, bs |-> h.bs, end |-> e, ret |-> r, status |-> h.status]
    BY <2>1, HeapField
  <2> HIDE DEF x2
  <2>3. x3 = [ps |-> h.ps, bs |-> b, end |-> e, ret |-> r, status |-> h.status]
    BY <2>2, HeapField
  <2> HIDE DEF x3
  <2> QED
    BY <2>0, <2>3, HeapField
<1>3. Shrinking(h, r, p, s) = [ps |-> p, bs |-> h.bs, end |-> h.end, ret |-> r, status |-> s]
  <2> DEFINE x1 == [h EXCEPT !.ret = r]
             x2 == [x1 EXCEPT !.ps = p]
  <2>0. Shrinking(h, r, p, s) = [x2 EXCEPT !.status = s]
    BY DEF Shrinking
  <2>1. x1 = [ps |-> h.ps, bs |-> h.bs, end |-> h.end, ret |-> r, status |-> h.status]
    BY <1>0, HeapField
  <2> HIDE DEF x1
  <2>2. x2 = [ps |-> p, bs |-> h.bs, end |-> h.end, ret |-> r, status |-> h.status]
    BY <2>1, HeapField
  <2> HIDE DEF x2
  <2> QED
    BY <2>0, <2>2, HeapField
<1>4. Removing(h, b, p) = [ps |-> p, bs |-> b, end |-> h.end, ret |-> h.ret, status |-> h.status]
  <2> DEFINE x1 == [h EXCEPT !.bs = b]
  <2>0. Removing(h, b, p) = [x1 EXCEPT !.ps = p]
    BY DEF Removing
  <2>1. x1 = [ps |-> h.ps, bs |-> b, end |-> h.end, ret |-> h.ret, status |-> h.status]
    BY <1>0, HeapField
  <2> HIDE DEF x1
  <2> QED
    BY <2>0, <2>1, HeapField
<1>5. Zeroing(h, p, b) = [ps |-> p, bs |-> b, end |-> h.end, ret |-> h.ret, status |-> h.status]
  <2> DEFINE x1 == [h EXCEPT !.ps = p]
  <2>0. Zeroing(h, p, b) = [x1 EXCEPT !.bs = b]
    BY DEF Zeroing
  <2>1. x1 = [ps |-> p, bs |-> h.bs, end |-> h.end, ret |-> h.ret, status |-> h.status]
    BY <1>0, HeapField
  <2> HIDE DEF x1
  <2> QED
    BY <2>0, <2>1, HeapField
<1> QED
  BY <1>1, <1>2, <1>3, <1>4, <1>5

\* A flag set.
LEMMA MarkIs ==
  ASSUME NEW ps, NEW bs, NEW end, Layout(ps, bs, end), NEW t \in DOMAIN ps,
         NEW v \in {FREE, IN_USE}, NEW r, r = [ps EXCEPT ![t].lflags = v]
  PROVE  Marks(ps, r, t, v)
<1>1. ps \in [DOMAIN ps -> Pebbles] /\ ps[t] \in Pebbles
  BY DEF Layout, Typed
<1>2. [ps[t] EXCEPT !.lflags = v] \in Pebbles
  BY <1>1, PebbleFields
<1>3. r \in [DOMAIN ps -> Pebbles] /\ DOMAIN r = DOMAIN ps
  BY <1>1, <1>2
<1>4. r[t] = [ps[t] EXCEPT !.lflags = v] /\ \A a \in DOMAIN ps \ {t} : r[a] = ps[a]
  BY <1>1
<1>5. /\ r[t].parent = ps[t].parent /\ r[t].size = ps[t].size /\ r[t].next = ps[t].next
      /\ r[t].prev = ps[t].prev /\ r[t].lflags = v
  BY <1>1, <1>4 DEF Pebbles
<1> QED
  BY <1>3, <1>4, <1>5 DEF Marks

\* The pebble that place_pebble takes is free and large enough; it takes none only
\* when the bucket has none.
LEMMA FittingIs ==
  ASSUME NEW h, Layout(h.ps, h.bs, h.end), NEW b \in DOMAIN h.bs, NEW need \in Nat,
         NEW t, t = Fitting(h, b, need)
  PROVE  /\ t # Null => /\ t \in DOMAIN h.ps /\ h.ps[t].parent = b
                        /\ h.ps[t].lflags = FREE /\ h.ps[t].size >= need
         /\ t = Null => \A p \in Kids(h.ps, b) : h.ps[p].lflags = FREE => h.ps[p].size < need
<1> DEFINE at == Hops(h.ps, h.bs[b].first)
           K  == {n \in DOMAIN at : /\ at[n] \in DOMAIN h.ps
                                    /\ IS_PEBBLE_FREE(h.ps[at[n]])
                                    /\ h.ps[at[n]].size >= need}
           best == {n \in K : \A m \in K : h.ps[at[n]].size <= h.ps[at[m]].size}
<1>1. ~(h.bs[b].lflags % 2 = 1)
  BY DEF Layout, Typed, Buckets
<1>2. t = IF K = {} THEN 0 ELSE at[MinOf(K)]
  <2>1. t = IF K = {} THEN 0 ELSE at[MinOf(IF h.bs[b].lflags % 2 = 1 THEN best ELSE K)]
    BY Zenon DEF Fitting
  <2> HIDE DEF K, best, at
  <2> QED
    BY <1>1, <2>1
<1>3. /\ {at[n] : n \in DOMAIN at} \cap DOMAIN h.ps = Kids(h.ps, b)
      /\ \A n \in DOMAIN at : at[n] \in Kids(h.ps, b) \cup {0}
  BY PebbleList DEF OnList
<1>4. \A p \in DOMAIN h.ps : p > 0 /\ (IS_PEBBLE_FREE(h.ps[p]) <=> h.ps[p].lflags = 0)
                             /\ h.ps[p].size \in Nat
  BY HeaderFacts DEF IS_PEBBLE_FREE
<1>5. DOMAIN at \subseteq Nat
  BY HopsAre DEF Layout, Typed
<1> HIDE DEF at
<1>6. ASSUME K # {}
      PROVE  /\ t \in DOMAIN h.ps /\ h.ps[t].parent = b /\ t # 0
             /\ h.ps[t].lflags = 0 /\ h.ps[t].size >= need
  <2>1. K \subseteq Nat
    BY <1>5
  <2>2. MinOf(K) \in K
    <3> HIDE DEF K
    <3> QED
      BY <1>6, <2>1, MinIs
  <2>3. PICK n \in K : t = at[n]
    BY <1>2, <1>6, <2>2
  <2>4. n \in DOMAIN at /\ t \in DOMAIN h.ps /\ IS_PEBBLE_FREE(h.ps[t]) /\ h.ps[t].size >= need
    BY <2>3
  <2>5. t # 0
    BY <1>4, <2>4
  <2>6. t \in Kids(h.ps, b)
    BY <1>3, <2>3, <2>4, <2>5
  <2> QED
    BY <1>4, <2>4, <2>5, <2>6 DEF Kids
<1>7. ASSUME K = {}, NEW p \in Kids(h.ps, b), h.ps[p].lflags = 0
      PROVE  h.ps[p].size < need
  <2>1. p \in DOMAIN h.ps
    BY DEF Kids
  <2>2. PICK n \in DOMAIN at : at[n] = p
    BY <1>3
  <2>3. ~(h.ps[p].size >= need)
    BY <1>4, <1>7, <2>1, <2>2
  <2> QED
    BY <1>4, <2>1, <2>3
<1> QED
  BY <1>2, <1>6, <1>7

InUse(ps, p) == p \in DOMAIN ps /\ ps[p].lflags = IN_USE

\* ptr points behind the header of a pebble in use of at least n bytes.
Block(ps, ptr, n) ==
  ptr \in Nat /\ ptr > PEBBLE /\ InUse(ps, ptr - PEBBLE) /\ ps[ptr - PEBBLE].size >= n

\* g is h with a block of need bytes taken in bucket b, or none.
Placed(h, g, b, need) ==
  /\ g.end = h.end /\ DOMAIN g.bs = DOMAIN h.bs /\ Merged(g.ps) /\ Kept(h.ps, g.ps, {})
  /\ g.ret # Null => /\ Block(g.ps, g.ret, need) /\ g.ps[g.ret - PEBBLE].parent = b
                     /\ ~InUse(h.ps, g.ret - PEBBLE)

\* place_pebble.
LEMMA PlacePebble ==
  ASSUME NEW h, NEW B, Core(h, B), Merged(h.ps), NEW b \in DOMAIN h.bs, NEW need \in Nat,
         RoundUp(need, 64) = need, NEW g, g = place_pebble(h, b, need)
  PROVE  Core(g, B \cup {b}) /\ Placed(h, g, b, need)
<1>1. IsHeap(h) /\ h.status = "ok" /\ Layout(h.ps, h.bs, h.end) /\ Chain(h.bs) /\ Cached(h.ps, h.bs, B)
  BY DEF Core
<1>2. PICK t : t = Fitting(h, b, need)
  OBVIOUS
<1>3. CASE t = 0
  <2> DEFINE k == [ps |-> h.ps, bs |-> h.bs, end |-> h.end, ret |-> 0, status |-> h.status]
  <2>1. k = [h EXCEPT !.ret = 0]
    BY <1>1 DEF IsHeap
  <2>2. g = bucket_update_largest(k, b)
    BY <1>2, <1>3, <2>1 DEF place_pebble
  <2>3. Core(k, B)
    BY <1>1 DEF Core, IsHeap
  <2>4. k.ps = h.ps /\ k.bs = h.bs /\ k.end = h.end /\ k.ret = 0
    OBVIOUS
  <2> HIDE DEF k
  <2>5. Core(g, B \cup {b}) /\ Refreshes(k.bs, g.bs, b) /\ g.ps = k.ps /\ g.end = k.end /\ g.ret = k.ret
    BY <2>2, <2>3, <2>4, UpdateLargest
  <2>6. Kept(h.ps, g.ps, {}) /\ DOMAIN g.bs = DOMAIN h.bs
    BY <2>4, <2>5 DEF Kept, Refreshes
  <2> QED
    BY <2>4, <2>5, <2>6 DEF Placed
<1>4. CASE t # 0
  <2>1. t \in DOMAIN h.ps /\ h.ps[t].parent = b /\ h.ps[t].lflags = 0 /\ h.ps[t].size >= need
    BY <1>1, <1>2, <1>4, FittingIs
  <2>2. t \in Nat /\ t > 0 /\ h.ps[t].size \in Nat /\ h.ps[t].size <= MAXHEAP
    <3>1. t \in Nat /\ t > 0 /\ h.ps[t].size \in Nat /\ PEnd(h.ps, t) <= h.end /\ h.end <= MAXHEAP
      BY <1>1, <2>1, HeaderFacts
    <3>2. h.end \in Nat
      BY <1>1 DEF Layout, Typed
    <3> QED
      BY <3>1, <3>2, HeapFacts DEF PEnd
  <2>3. SPLIT_PEBBLE(h.ps[t].size, need) => RoundUp(need, 64) + 60 <= h.ps[t].size
    BY <2>2, SplitRoom
  <2> DEFINE r == split_pebble(h.ps, t, need)
             u == [r EXCEPT ![t].lflags = 1]
             k == [ps |-> u, bs |-> h.bs, end |-> h.end, ret |-> t + 60, status |-> h.status]
  <2>4. ~SplitTears(h, t, need)
    BY <1>1, <2>1, <2>3, NoTear
  <2>5. SplitFor(h.ps, r, h.bs, h.end, t, need)
    BY <1>1, <2>1, <2>3, SplitPebble
  <2>6. k = Taking(h, u, t + 60, h.status)
    <3> HIDE DEF u
    <3> QED
      BY <1>1, HeapExcept
  <2>7. g = bucket_update_largest(k, b)
    <3>1. g = bucket_update_largest(Taking(h, u, t + 60, IF SplitTears(h, t, need) THEN "wild" ELSE h.status), b)
      BY <1>2, <1>4 DEF place_pebble, Taking
    <3> HIDE DEF k, u
    <3> QED
      BY <2>4, <2>6, <3>1
  <2> HIDE DEF r
  <2>8. /\ Layout(r, h.bs, h.end) /\ t \in DOMAIN r /\ Kept(h.ps, r, {t}) /\ MergedBut(r, t)
        /\ r[t].parent = b /\ r[t].size >= need /\ Cached(r, h.bs, B)
    BY <1>1, <2>1, <2>5 DEF SplitFor
  <2>9. Marks(r, u, t, 1)
    BY <2>8, MarkIs
  <2>10. Layout(u, h.bs, h.end)
    BY <2>8, <2>9, MarkLayout
  <2> HIDE DEF u
  <2>11. /\ DOMAIN u = DOMAIN r
         /\ \A a \in DOMAIN r :
              /\ u[a].parent = r[a].parent /\ u[a].size = r[a].size /\ u[a].next = r[a].next
              /\ u[a].lflags = IF a = t THEN 1 ELSE r[a].lflags
    BY <2>9 DEF Marks
  <2>12. Merged(u)
    <3> SUFFICES ASSUME NEW p \in DOMAIN u, u[p].next # 0, u[p].lflags = 0
                 PROVE  u[u[p].next].lflags = 1
      BY DEF Merged
    <3>1. p \in DOMAIN r /\ p # t /\ r[p].lflags = 0 /\ r[p].next = u[p].next
      BY <2>11
    <3>2. u[p].next \in DOMAIN r
      BY <2>10, <2>11, HeaderFacts DEF PebbleOK
    <3> QED
      BY <2>8, <2>11, <3>1, <3>2 DEF MergedBut
  <2>13. Kept(h.ps, u, {}) /\ InUse(u, t) /\ u[t].size >= need /\ u[t].parent = b
    BY <2>1, <2>8, <2>11 DEF Kept, InUse
  <2>14. Cached(u, h.bs, B)
    BY <2>8, <2>11 DEF Cached
  <2>15. Core(k, B) /\ k.ps = u /\ k.bs = h.bs /\ k.end = h.end /\ k.ret = t + 60
    BY <1>1, <2>10, <2>14 DEF Core, IsHeap
  <2> HIDE DEF k
  <2>16. Core(g, B \cup {b}) /\ Refreshes(k.bs, g.bs, b) /\ g.ps = k.ps /\ g.end = k.end /\ g.ret = k.ret
    BY <2>7, <2>15, UpdateLargest
  <2>17. DOMAIN g.bs = DOMAIN h.bs
    BY <2>15, <2>16 DEF Refreshes
  <2>18. g.ret \in Nat /\ g.ret > 60 /\ g.ret - 60 = t
    BY <2>2, <2>15, <2>16
  <2>19. ~InUse(h.ps, t)
    BY <2>1 DEF InUse
  <2> QED
    BY <2>12, <2>13, <2>15, <2>16, <2>17, <2>18, <2>19 DEF Placed, Block
<1> QED
  BY <1>3, <1>4

-----------------------------------------------------------------------------
(* Clearing and copying.                                                    *)

\* The bytes of a block hold no header.
LEMMA NothingCovered ==
  ASSUME NEW h, Layout(h.ps, h.bs, h.end), NEW ptr, NEW n \in Nat, Block(h.ps, ptr, n),
         NEW m \in Nat, m <= n
  PROVE  /\ Covered(h.ps, ptr, ptr + m) = {} /\ Covered(h.bs, ptr, ptr + m) = {}
         /\ \A q \in DOMAIN h.ps : q >= ptr + m \/ q + PEBBLE <= ptr
         /\ \A b \in DOMAIN h.bs : b >= ptr + m \/ b + BUCKET <= ptr
<1>1. PICK p \in DOMAIN h.ps : p = ptr - 60
  BY DEF Block, InUse
<1>2. ptr \in Nat /\ p \in Nat /\ ptr = p + 60 /\ h.ps[p].size \in Nat /\ h.ps[p].size >= n
  BY <1>1, HeaderFacts DEF Block
<1>3. ASSUME NEW q \in DOMAIN h.ps
      PROVE  q \in Nat /\ (q >= ptr + m \/ q + 60 <= ptr)
  <2>1. q \in Nat /\ h.ps[q].size \in Nat
    BY HeaderFacts
  <2>2. (p < q => p + 60 + h.ps[p].size <= q) /\ (q < p => q + 60 + h.ps[q].size <= p)
    BY <1>1 DEF Layout, Apart, PEnd
  <2> QED
    BY <1>2, <2>1, <2>2
<1>4. ASSUME NEW b \in DOMAIN h.bs
      PROVE  b \in Nat /\ (b >= ptr + m \/ b + 64 <= ptr)
  <2>1. PICK c \in DOMAIN h.bs : c = h.ps[p].parent
    BY <1>1, HeaderFacts
  <2>2. c + 64 <= p /\ p + 60 + h.ps[p].size <= BEnd(h.bs, c)
    BY <1>1, <2>1, HeaderFacts DEF PebbleOK, PEnd
  <2>3. b \in Nat /\ c \in Nat /\ BEnd(h.bs, b) \in Nat /\ BEnd(h.bs, c) \in Nat
    BY DEF Layout, Typed, Buckets, BEnd
  <2>4. c < b => BEnd(h.bs, c) <= b
    BY DEF Layout, BucketOK
  <2>5. b + 64 < ptr \/ c < b \/ b = c
    <3>1. b < c => BEnd(h.bs, b) <= c
      BY DEF Layout, BucketOK
    <3>2. b + 64 \in DOMAIN h.ps /\ h.ps[b + 64].parent = b
      BY DEF Layout, BucketOK
    <3>3. (b + 64) + 60 + h.ps[b + 64].size <= BEnd(h.bs, b) /\ h.ps[b + 64].size \in Nat
      BY <3>2, HeaderFacts DEF PebbleOK, PEnd
    <3> QED
      BY <1>2, <2>2, <2>3, <3>1, <3>3
  <2> QED
    BY <1>2, <2>2, <2>3, <2>4, <2>5
<1>5. Covered(h.ps, ptr, ptr + m) = {}
  BY <1>2, <1>3 DEF Covered
<1>6. Covered(h.bs, ptr, ptr + m) = {}
  BY <1>2, <1>4 DEF Covered
<1> QED
  BY <1>3, <1>4, <1>5, <1>6

\* memset over a block leaves the allocator's state alone.
LEMMA ZeroKeeps ==
  ASSUME NEW h, IsHeap(h), Layout(h.ps, h.bs, h.end), NEW from, NEW to,
         Covered(h.ps, from, to) = {}, Covered(h.bs, from, to) = {}
  PROVE  memset_zero(h, from, to) = h
<1> DEFINE P == [a \in DOMAIN h.ps |-> IF a \in Covered(h.ps, from, to)
                                       THEN ZeroPebble(h.ps[a], to - a) ELSE h.ps[a]]
           K == [a \in DOMAIN h.bs |-> IF a \in Covered(h.bs, from, to)
                                       THEN ZeroBucket(h.bs[a], to - a) ELSE h.bs[a]]
<1>1. P = h.ps
  BY DEF Layout, Typed
<1>2. K = h.bs
  BY DEF Layout, Typed
<1>3. memset_zero(h, from, to) = Zeroing(h, P, K)
  BY Zenon DEF memset_zero, Zeroing
<1> HIDE DEF P, K
<1>4. Zeroing(h, P, K) = [ps |-> P, bs |-> K, end |-> h.end, ret |-> h.ret, status |-> h.status]
  BY HeapExcept
<1> QED
  BY <1>1, <1>2, <1>3, <1>4, Zenon DEF IsHeap

\* memset of what kmalloc returned.
LEMMA ClearKeeps ==
  ASSUME NEW h, IsHeap(h), Layout(h.ps, h.bs, h.end), NEW n \in Nat, NEW m \in Nat, m <= n,
         h.ret # Null => Block(h.ps, h.ret, n)
  PROVE  ClearBlock(h, m) = h
<1>1. CASE h.ret = 0
  BY <1>1 DEF ClearBlock
<1>2. CASE h.ret # 0
  <2>1. PICK ptr : ptr = h.ret
    OBVIOUS
  <2>2. Covered(h.ps, ptr, ptr + m) = {} /\ Covered(h.bs, ptr, ptr + m) = {}
    BY <1>2, <2>1, NothingCovered
  <2>3. PICK to : to = ptr + m
    OBVIOUS
  <2>4. memset_zero(h, ptr, to) = h
    BY <2>2, <2>3, ZeroKeeps
  <2> QED
    BY <1>2, <2>1, <2>3, <2>4, Zenon DEF ClearBlock
<1> QED
  BY <1>1, <1>2

\* memcpy to what kmalloc returned, from bytes that are there.
LEMMA CopyKeeps ==
  ASSUME NEW h, Layout(h.ps, h.bs, h.end), NEW n \in Nat, NEW ptr, GoodCopy(h, ptr, n),
         h.ret # Null => Block(h.ps, h.ret, n)
  PROVE  CopyBlock(h, ptr, n) = h
<1>1. CASE h.ret = 0
  BY <1>1 DEF CopyBlock
<1>2. CASE h.ret # 0
  <2>1. PICK to : to = h.ret
    OBVIOUS
  <2>2. Covered(h.ps, to, to + n) = {} /\ Covered(h.bs, to, to + n) = {}
    <3>1. n <= n /\ Block(h.ps, to, n)
      BY <1>2, <2>1
    <3> QED
      BY <3>1, NothingCovered
  <2>3. Covered(h.ps, h.ret, h.ret + n) \cup Covered(h.bs, h.ret, h.ret + n) = {}
    BY <2>1, <2>2
  <2>4. Readable(h, ptr, ptr + n)
    BY <1>2 DEF GoodCopy
  <2> QED
    BY <2>3, <2>4, Zenon DEF CopyBlock
<1> QED
  BY <1>1, <1>2

-----------------------------------------------------------------------------
(* A new bucket.                                                            *)

\* The links of the buckets have no part in the layout.
LEMMA RelinkLayout ==
  ASSUME NEW ps, NEW bs, NEW end, Layout(ps, bs, end), NEW c, DOMAIN c = DOMAIN bs,
         c \in [DOMAIN c -> Buckets],
         \A a \in DOMAIN bs : c[a].size = bs[a].size /\ c[a].first = bs[a].first
  PROVE  Layout(ps, c, end)
<1>1. Typed(ps, c, end) /\ Apart(ps)
  BY DEF Layout, Typed
<1>2. \A a \in DOMAIN bs : BEnd(c, a) = BEnd(bs, a)
  BY DEF BEnd
<1>3. ASSUME NEW p \in DOMAIN ps
      PROVE  PebbleOK(ps, c, p)
  <2>1. PebbleOK(ps, bs, p)
    BY DEF Layout
  <2> QED
    BY <1>2, <2>1 DEF PebbleOK
<1>4. ASSUME NEW a \in DOMAIN c
      PROVE  BucketOK(ps, c, end, a)
  <2>1. BucketOK(ps, bs, end, a)
    BY DEF Layout
  <2> QED
    BY <1>2, <2>1 DEF BucketOK
<1> QED
  BY <1>1, <1>3, <1>4 DEF Layout

\* A bucket of k pages at b and its one pebble, as create_bucket writes them.
NewBucket(b, k) ==
  [lflags |-> 0, largest_free |-> k * 4096 - 124, size |-> k, first |-> b + 64,
   prev |-> 0, next |-> 0]
NewPebble(b, k) ==
  [magic |-> TRUE, lflags |-> 0, size |-> k * 4096 - 124, parent |-> b, prev |-> 0, next |-> 0]

\* The pages of a bucket for want bytes.
Pages(want, k) == k >= 1 /\ (want <= MIN_INITIAL_ALLOC => k = 17)

\* f is h with a bucket of k pages at its end.
Created(h, f, k) ==
  f = [ps |-> Put(h.ps, h.end + 64, NewPebble(h.end, k)),
       bs |-> Put(h.bs, h.end, NewBucket(h.end, k)),
       end |-> h.end + k * 4096, ret |-> h.end, status |-> h.status]

\* create_bucket.
LEMMA CreateIs ==
  ASSUME NEW h, IsHeap(h), h.end \in Nat, NEW want \in Nat, NEW f, f = create_bucket(h, want, 0)
  PROVE  \E k \in Nat : Pages(want, k) /\ Created(h, f, k)
<1> DEFINE size == RoundUp(AtLeast(want, MIN_INITIAL_ALLOC), 4096)
           v == size - 64 - 60
           z == 0 * 256
           d == size \div 4096
           P == [magic |-> TRUE, lflags |-> 0, size |-> v, parent |-> h.end,
                 prev |-> 0, next |-> 0]
           K == [lflags |-> z, largest_free |-> v, size |-> d,
                 first |-> h.end + 64, prev |-> 0, next |-> 0]
<1>1. PICK n \in Nat : n = AtLeast(want, MIN_INITIAL_ALLOC) /\ n >= 65660 /\ (want <= 65660 => n = 65660)
  BY DEF AtLeast, MIN_INITIAL_ALLOC
<1>2. PICK k \in Nat : k = size \div 4096 /\ size = k * 4096 /\ k >= 1 /\ (want <= 65660 => k = 17)
  BY <1>1 DEF RoundUp
<1>3. f = Growing(h, h.end, h.end + size, Put(h.bs, h.end, K), Put(h.ps, h.end + 64, P))
  BY Zenon DEF create_bucket, Growing
<1>4. P = NewPebble(h.end, k) /\ K = NewBucket(h.end, k)
  <2>1. v = k * 4096 - 124 /\ z = 0 /\ d = k
    BY <1>2
  <2> HIDE DEF size, v, z, d
  <2>2. P = NewPebble(h.end, k)
    BY <2>1, Zenon DEF NewPebble
  <2>3. K = NewBucket(h.end, k)
    BY <2>1, Zenon DEF NewBucket
  <2> QED
    BY <2>2, <2>3
<1>5. size = k * 4096 /\ Pages(want, k)
  BY <1>2 DEF Pages, MIN_INITIAL_ALLOC
<1> HIDE DEF P, K, size
<1>6. f = Growing(h, h.end, h.end + k * 4096, Put(h.bs, h.end, NewBucket(h.end, k)),
                  Put(h.ps, h.end + 64, NewPebble(h.end, k)))
  BY <1>3, <1>4, <1>5
<1>7. Created(h, f, k)
  BY <1>6, HeapExcept DEF Created
<1> QED
  BY <1>5, <1>7

\* A bucket appended to a heap that ends at b.
Appended(ps, bs, b, k, r, c) ==
  /\ DOMAIN r = DOMAIN ps \cup {b + BUCKET} /\ b + BUCKET \notin DOMAIN ps
  /\ \A p \in DOMAIN ps : r[p] = ps[p]
  /\ r[b + BUCKET] = NewPebble(b, k)
  /\ DOMAIN c = DOMAIN bs \cup {b} /\ b \notin DOMAIN bs
  /\ \A a \in DOMAIN bs : c[a] = bs[a] /\ a < b
  /\ c[b] = NewBucket(b, k)

\* The new bucket extends the layout.
LEMMA AppendLayout ==
  ASSUME NEW ps, NEW bs, NEW b, Layout(ps, bs, b), b >= KHEAPSTART, NEW k \in Nat, k >= 1,
         b + k * 4096 <= MAXHEAP, NEW r, r = Put(ps, b + 64, NewPebble(b, k)),
         NEW c, c = Put(bs, b, NewBucket(b, k))
  PROVE  Layout(r, c, b + k * 4096) /\ Appended(ps, bs, b, k, r, c)
<1> DEFINE f == b + 64
           end == b + k * 4096
<1>1. b \in Nat
  BY DEF Layout, Typed
<1>2. ASSUME NEW a \in DOMAIN bs
      PROVE  /\ a \in Nat /\ a < b /\ BEnd(bs, a) <= b /\ bs[a] \in Buckets /\ BucketOK(ps, bs, b, a)
             /\ BEnd(bs, a) \in Nat
  <2>1. a \in Nat /\ bs[a] \in Buckets /\ BucketOK(ps, bs, b, a)
    BY DEF Layout, Typed
  <2>2. BEnd(bs, a) <= b /\ bs[a].size \in Nat /\ a + 64 \in DOMAIN ps /\ ps[a + 64].parent = a
    BY <2>1 DEF BucketOK, Buckets
  <2>3. (a + 64) + 60 + ps[a + 64].size <= BEnd(bs, a) /\ ps[a + 64].size \in Nat
    BY <2>2, HeaderFacts DEF PebbleOK, PEnd
  <2>4. BEnd(bs, a) \in Nat
    BY <2>1, <2>2 DEF BEnd
  <2> QED
    BY <1>1, <2>1, <2>2, <2>3, <2>4
<1>3. \A p \in DOMAIN ps : /\ p \in Nat /\ p > 0 /\ ps[p] \in Pebbles /\ PebbleOK(ps, bs, p) /\ ps[p].size \in Nat
                           /\ p + 60 + ps[p].size <= b /\ ps[p].next \in Nat /\ ps[p].prev \in Nat
                           /\ ps[p].parent \in DOMAIN bs
  BY HeaderFacts DEF PEnd
<1>4. f \notin DOMAIN ps /\ b \notin DOMAIN bs
  BY <1>1, <1>2, <1>3
<1>5. /\ DOMAIN r = DOMAIN ps \cup {f} /\ r[f] = NewPebble(b, k)
      /\ \A p \in DOMAIN ps : r[p] = ps[p]
  BY <1>4 DEF Put
<1>6. /\ DOMAIN c = DOMAIN bs \cup {b} /\ c[b] = NewBucket(b, k)
      /\ \A a \in DOMAIN bs : c[a] = bs[a]
  BY <1>4 DEF Put
<1>7. Appended(ps, bs, b, k, r, c)
  BY <1>2, <1>4, <1>5, <1>6 DEF Appended
<1>8. NewPebble(b, k) \in Pebbles /\ NewBucket(b, k) \in Buckets
  BY <1>1 DEF NewPebble, NewBucket, Pebbles, Buckets
<1>9. /\ r[f].parent = b /\ r[f].size = k * 4096 - 124 /\ r[f].prev = 0 /\ r[f].next = 0
      /\ c[b].first = f /\ c[b].size = k
  BY <1>5, <1>6 DEF NewPebble, NewBucket
<1>10. Typed(r, c, end)
  <2>1. IsFiniteSet(DOMAIN r) /\ IsFiniteSet(DOMAIN c)
    BY <1>5, <1>6, FS_AddElement DEF Layout, Typed
  <2>2. DOMAIN r \subseteq Nat /\ DOMAIN c \subseteq Nat /\ end \in Nat
    BY <1>1, <1>2, <1>3, <1>5, <1>6
  <2>3. r \in [DOMAIN r -> Pebbles]
    <3>1. \A a \in DOMAIN r : r[a] \in Pebbles
      BY <1>3, <1>5, <1>8
    <3>2. r = [a \in DOMAIN r |-> r[a]]
      BY DEF Put
    <3> QED
      BY <3>1, <3>2
  <2>4. c \in [DOMAIN c -> Buckets]
    <3>1. \A a \in DOMAIN c : c[a] \in Buckets
      BY <1>2, <1>6, <1>8
    <3>2. c = [a \in DOMAIN c |-> c[a]]
      BY DEF Put
    <3> QED
      BY <3>1, <3>2
  <2> HIDE DEF end
  <2> QED
    BY <2>1, <2>2, <2>3, <2>4 DEF Typed, end
<1>11. BEnd(c, b) = end /\ \A a \in DOMAIN bs : BEnd(c, a) = BEnd(bs, a)
  BY <1>6, <1>9 DEF BEnd
<1>12. PEnd(r, f) = end /\ \A p \in DOMAIN ps : PEnd(r, p) = PEnd(ps, p)
  BY <1>1, <1>5, <1>9 DEF PEnd
<1>13. Apart(r)
  <2>1. \A p, q \in DOMAIN ps : p < q => PEnd(ps, p) <= q
    BY DEF Layout, Apart
  <2>2. \A p \in DOMAIN ps : p < f /\ PEnd(ps, p) <= f
    BY <1>1, <1>3 DEF PEnd
  <2>3. f \in Nat /\ DOMAIN ps \subseteq Nat
    BY <1>1, <1>3
  <2> HIDE DEF f
  <2> QED
    BY <1>5, <1>12, <2>1, <2>2, <2>3 DEF Apart
<1>14. ASSUME NEW p \in DOMAIN r
       PROVE  PebbleOK(r, c, p)
  <2>1. CASE p = f
    BY <1>1, <1>6, <1>9, <1>11, <1>12, <2>1 DEF PebbleOK
  <2>2. CASE p \in DOMAIN ps
    <3>1. PebbleOK(ps, bs, p) /\ ps[p].parent \in DOMAIN bs
      BY <1>3, <2>2
    <3> HIDE DEF f, end
    <3> QED
      BY <1>5, <1>6, <1>11, <1>12, <2>2, <3>1 DEF PebbleOK
  <2> QED
    BY <1>5, <2>1, <2>2
<1>15. ASSUME NEW a \in DOMAIN c
       PROVE  BucketOK(r, c, end, a)
  <2>1. CASE a = b
    BY <1>1, <1>2, <1>5, <1>6, <1>9, <1>11, <2>1 DEF BucketOK
  <2>2. CASE a \in DOMAIN bs
    <3>1. BucketOK(ps, bs, b, a) /\ BEnd(bs, a) <= b /\ BEnd(bs, a) \in Nat
      BY <1>2, <2>2
    <3>2. b <= end /\ end \in Nat
      BY <1>1
    <3> HIDE DEF f, end
    <3> QED
      BY <1>1, <1>5, <1>6, <1>11, <2>2, <3>1, <3>2 DEF BucketOK
  <2> QED
    BY <1>6, <2>1, <2>2
<1> QED
  BY <1>7, <1>10, <1>13, <1>14, <1>15 DEF Layout

\* In c bucket b has other links than in bs.
BucketLink(bs, c, b, prev, next) ==
  /\ DOMAIN c = DOMAIN bs /\ c \in [DOMAIN c -> Buckets]
  /\ \A a \in DOMAIN bs :
       /\ c[a].lflags = bs[a].lflags /\ c[a].largest_free = bs[a].largest_free
       /\ c[a].size = bs[a].size /\ c[a].first = bs[a].first
       /\ c[a].prev = IF a = b THEN prev ELSE bs[a].prev
       /\ c[a].next = IF a = b THEN next ELSE bs[a].next

\* One link of one bucket changed.
LEMMA LinkIs ==
  ASSUME NEW bs, bs \in [DOMAIN bs -> Buckets], NEW b \in DOMAIN bs, NEW v \in Nat
  PROVE  /\ BucketLink(bs, [bs EXCEPT ![b].next = v], b, bs[b].prev, v)
         /\ BucketLink(bs, [bs EXCEPT ![b].prev = v], b, v, bs[b].next)
<1>1. bs[b] \in Buckets
  OBVIOUS
<1>2. ASSUME NEW x \in Buckets, x.lflags = bs[b].lflags, x.largest_free = bs[b].largest_free,
             x.size = bs[b].size, x.first = bs[b].first
      PROVE  BucketLink(bs, [bs EXCEPT ![b] = x], b, x.prev, x.next)
  BY <1>2 DEF BucketLink
<1>3. BucketLink(bs, [bs EXCEPT ![b].next = v], b, bs[b].prev, v)
  <2>1. PICK x : x = [bs[b] EXCEPT !.next = v]
    OBVIOUS
  <2>2. /\ x \in Buckets /\ x.lflags = bs[b].lflags /\ x.largest_free = bs[b].largest_free
        /\ x.size = bs[b].size /\ x.first = bs[b].first /\ x.prev = bs[b].prev /\ x.next = v
    BY <1>1, <2>1 DEF Buckets
  <2>3. [bs EXCEPT ![b].next = v] = [bs EXCEPT ![b] = x]
    BY <2>1
  <2>4. BucketLink(bs, [bs EXCEPT ![b] = x], b, x.prev, x.next)
    BY <1>2, <2>2
  <2> QED
    BY <2>2, <2>3, <2>4
<1>4. BucketLink(bs, [bs EXCEPT ![b].prev = v], b, v, bs[b].next)
  <2>1. PICK x : x = [bs[b] EXCEPT !.prev = v]
    OBVIOUS
  <2>2. /\ x \in Buckets /\ x.lflags = bs[b].lflags /\ x.largest_free = bs[b].largest_free
        /\ x.size = bs[b].size /\ x.first = bs[b].first /\ x.prev = v /\ x.next = bs[b].next
    BY <1>1, <2>1 DEF Buckets
  <2>3. [bs EXCEPT ![b].prev = v] = [bs EXCEPT ![b] = x]
    BY <2>1
  <2>4. BucketLink(bs, [bs EXCEPT ![b] = x], b, x.prev, x.next)
    BY <1>2, <2>2
  <2> QED
    BY <2>2, <2>3, <2>4
<1> QED
  BY <1>3, <1>4

\* What it leaves alone.
LEMMA LinkFields ==
  ASSUME NEW bs, NEW c, NEW b, NEW prev, NEW next, BucketLink(bs, c, b, prev, next),
         NEW a \in DOMAIN bs
  PROVE  /\ c[a].size = bs[a].size /\ c[a].first = bs[a].first
         /\ c[a].largest_free = bs[a].largest_free
         /\ a = b => c[a].prev = prev /\ c[a].next = next
         /\ a # b => c[a].prev = bs[a].prev /\ c[a].next = bs[a].next
BY DEF BucketLink

\* In d the buckets of c have other links.
Relinked(c, d) ==
  /\ DOMAIN d = DOMAIN c /\ d \in [DOMAIN d -> Buckets]
  /\ \A a \in DOMAIN c : /\ d[a].size = c[a].size /\ d[a].first = c[a].first
                         /\ d[a].largest_free = c[a].largest_free

\* In d bucket b of c comes second on the chain.
Inserted(c, d, b) ==
  /\ Relinked(c, d)
  /\ \A a \in DOMAIN c :
       /\ d[a].next = IF a = KHEAPSTART THEN b ELSE IF a = b THEN c[KHEAPSTART].next ELSE c[a].next
       /\ d[a].prev = IF a = b THEN KHEAPSTART ELSE IF a = c[KHEAPSTART].next THEN b ELSE c[a].prev

\* The links that insert_bucket sets.
Second(c, b) ==
  LET after == c[KHEAPSTART].next
      linked == [c EXCEPT ![b].next = after, ![b].prev = KHEAPSTART, ![KHEAPSTART].next = b]
  IN  IF after = Null THEN linked ELSE [linked EXCEPT ![after].prev = b]

\* insert_bucket.
LEMMA InsertIs ==
  ASSUME NEW c, c \in [DOMAIN c -> Buckets], KHEAPSTART \in DOMAIN c, 0 \notin DOMAIN c,
         NEW b \in DOMAIN c, b # KHEAPSTART, b \in Nat, c[KHEAPSTART].next # b,
         c[KHEAPSTART].next \in DOMAIN c \cup {0}, c[KHEAPSTART].next # KHEAPSTART,
         NEW d, d = Second(c, b)
  PROVE  Inserted(c, d, b)
<1> DEFINE h == KHEAPSTART
           n == c[h].next
           e1 == [c EXCEPT ![b].next = n]
           e2 == [e1 EXCEPT ![b].prev = h]
           e3 == [e2 EXCEPT ![h].next = b]
<1>1. h \in Nat /\ n \in Nat
  BY HeapFacts DEF Buckets
<1>2. d = IF n = 0 THEN e3 ELSE [e3 EXCEPT ![n].prev = b]
  BY Zenon DEF Second
<1>3. BucketLink(c, e1, b, c[b].prev, n)
  BY <1>1, LinkIs
<1> HIDE DEF e1
<1>4. BucketLink(e1, e2, b, h, e1[b].next)
  <2>1. e1 \in [DOMAIN e1 -> Buckets] /\ b \in DOMAIN e1
    BY <1>3 DEF BucketLink
  <2> QED
    BY <1>1, <2>1, LinkIs
<1> HIDE DEF e2
<1>5. BucketLink(e2, e3, h, e2[h].prev, b)
  <2>1. e2 \in [DOMAIN e2 -> Buckets] /\ h \in DOMAIN e2
    BY <1>3, <1>4 DEF BucketLink
  <2> QED
    BY <1>1, <2>1, LinkIs
<1> HIDE DEF e3
<1>6. /\ DOMAIN e3 = DOMAIN c /\ e3 \in [DOMAIN e3 -> Buckets]
      /\ \A a \in DOMAIN c :
           /\ e3[a].size = c[a].size /\ e3[a].first = c[a].first
           /\ e3[a].largest_free = c[a].largest_free
           /\ e3[a].next = IF a = h THEN b ELSE IF a = b THEN n ELSE c[a].next
           /\ e3[a].prev = IF a = b THEN h ELSE c[a].prev
  <2>1. DOMAIN e3 = DOMAIN c /\ DOMAIN e2 = DOMAIN c /\ DOMAIN e1 = DOMAIN c /\ e3 \in [DOMAIN e3 -> Buckets]
    BY <1>3, <1>4, <1>5 DEF BucketLink
  <2> SUFFICES ASSUME NEW a \in DOMAIN c
               PROVE  /\ e3[a].size = c[a].size /\ e3[a].first = c[a].first
                      /\ e3[a].largest_free = c[a].largest_free
                      /\ e3[a].next = IF a = h THEN b ELSE IF a = b THEN n ELSE c[a].next
                      /\ e3[a].prev = IF a = b THEN h ELSE c[a].prev
    BY <2>1
  <2>2. /\ e1[a].size = c[a].size /\ e1[a].first = c[a].first
        /\ e1[a].largest_free = c[a].largest_free
        /\ e1[a].next = IF a = b THEN n ELSE c[a].next
        /\ e1[a].prev = c[a].prev
    BY <1>3 DEF BucketLink
  <2>3. /\ e2[a].size = e1[a].size /\ e2[a].first = e1[a].first
        /\ e2[a].largest_free = e1[a].largest_free
        /\ e2[a].next = e1[a].next
        /\ e2[a].prev = IF a = b THEN h ELSE e1[a].prev
    BY <1>4, <2>1 DEF BucketLink
  <2>4. /\ e3[a].size = e2[a].size /\ e3[a].first = e2[a].first
        /\ e3[a].largest_free = e2[a].largest_free
        /\ e3[a].next = IF a = h THEN b ELSE e2[a].next
        /\ e3[a].prev = e2[a].prev
    BY <1>5, <2>1 DEF BucketLink
  <2> QED
    BY <2>2, <2>3, <2>4
<1>7. CASE n = 0
  <2>1. d = e3
    BY <1>2, <1>7
  <2> HIDE DEF h, n
  <2> QED
    BY <1>6, <1>7, <2>1 DEF Inserted, Relinked, h, n
<1>8. CASE n # 0
  <2>1. d = [e3 EXCEPT ![n].prev = b]
    BY <1>2, <1>8
  <2>3. n # b /\ n # h /\ n \in DOMAIN c
    BY <1>8
  <2> HIDE DEF h, n
  <2>2. BucketLink(e3, d, n, b, e3[n].next)
    <3>1. e3 \in [DOMAIN e3 -> Buckets] /\ n \in DOMAIN e3
      BY <1>6, <2>3
    <3>2. BucketLink(e3, [e3 EXCEPT ![n].prev = b], n, b, e3[n].next)
      BY <3>1, LinkIs
    <3> QED
      BY <2>1, <3>2
  <2>4. DOMAIN d = DOMAIN c /\ d \in [DOMAIN d -> Buckets]
    BY <1>6, <2>2 DEF BucketLink
  <2>5. \A a \in DOMAIN c :
           /\ d[a].size = c[a].size /\ d[a].first = c[a].first
           /\ d[a].largest_free = c[a].largest_free
           /\ d[a].next = IF a = h THEN b ELSE IF a = b THEN n ELSE c[a].next
           /\ d[a].prev = IF a = b THEN h ELSE IF a = n THEN b ELSE c[a].prev
    <3> TAKE a \in DOMAIN c
    <3>1. /\ d[a].size = e3[a].size /\ d[a].first = e3[a].first
          /\ d[a].largest_free = e3[a].largest_free
          /\ d[a].next = e3[a].next
          /\ d[a].prev = IF a = n THEN b ELSE e3[a].prev
      <4>1. a \in DOMAIN e3
        BY <1>6
      <4>2. /\ d[a].size = e3[a].size /\ d[a].first = e3[a].first
            /\ d[a].largest_free = e3[a].largest_free
            /\ a = n => d[a].prev = b /\ d[a].next = e3[n].next
            /\ a # n => d[a].prev = e3[a].prev /\ d[a].next = e3[a].next
        BY <2>2, <4>1, LinkFields
      <4>3. a = n => e3[a].next = e3[n].next
        BY Zenon
      <4> QED
        BY <4>2, <4>3
    <3> QED
      BY <1>6, <2>3, <3>1
  <2> QED
    BY <2>4, <2>5 DEF Inserted, Relinked, h, n
<1> QED
  BY <1>7, <1>8

\* The new bucket extends the chain.
LEMMA InsertChain ==
  ASSUME NEW ps, NEW bs, NEW b, Layout(ps, bs, b), Chain(bs), NEW k, NEW r, NEW c,
         Appended(ps, bs, b, k, r, c), NEW d, Inserted(c, d, b)
  PROVE  Chain(d)
<1> DEFINE h == KHEAPSTART
           n == bs[h].next
<1>1. /\ h \in DOMAIN bs /\ bs[h].prev = 0
      /\ \A a \in DOMAIN bs : bs[a].next # 0 =>
           /\ bs[a].next \in DOMAIN bs /\ bs[bs[a].next].prev = a
           /\ bs[a].next # h /\ (a # h => bs[a].next < a)
      /\ \A a \in DOMAIN bs \ {h} : bs[a].prev \in DOMAIN bs /\ bs[bs[a].prev].next = a
  BY DEF Chain
<1>2. /\ DOMAIN c = DOMAIN bs \cup {b} /\ b \notin DOMAIN bs
      /\ \A a \in DOMAIN bs : c[a] = bs[a] /\ a < b
  BY DEF Appended
<1>5. b # 0 /\ 0 \notin DOMAIN bs
  <2>1. \A a \in DOMAIN bs : a \in Nat /\ a >= h
    BY DEF Layout, Typed, BucketOK
  <2>2. h < b /\ b \in Nat /\ h \in Nat /\ h > 0
    BY <1>1, <1>2, HeapFacts DEF Layout, Typed
  <2> QED
    BY <2>1, <2>2
<1>3. c[h].next = n /\ b # h /\ b # n
  BY <1>1, <1>2, <1>5
<1>4. /\ DOMAIN d = DOMAIN bs \cup {b}
      /\ d[b].next = n /\ d[b].prev = h
      /\ \A a \in DOMAIN bs :
          /\ d[a].next = IF a = h THEN b ELSE bs[a].next
          /\ d[a].prev = IF a = n THEN b ELSE bs[a].prev
  BY <1>2, <1>3 DEF Inserted, Relinked
<1> HIDE DEF n
<1>6. n # 0 => n \in DOMAIN bs /\ bs[n].prev = h /\ n # h /\ n < b
  BY <1>1, <1>2 DEF n
<1>7. ASSUME NEW a \in DOMAIN d, d[a].next # 0
      PROVE  /\ d[a].next \in DOMAIN d /\ d[d[a].next].prev = a
             /\ d[a].next # h /\ (a # h => d[a].next < a)
  <2>1. CASE a = b
    BY <1>4, <1>6, <1>7, <2>1
  <2>2. CASE a = h
    BY <1>1, <1>3, <1>4, <2>2
  <2>3. CASE a \in DOMAIN bs /\ a # h
    <3>1. d[a].next = bs[a].next
      BY <1>4, <2>3
    <3>2. /\ bs[a].next \in DOMAIN bs /\ bs[bs[a].next].prev = a
          /\ bs[a].next # h /\ bs[a].next < a
      BY <1>1, <1>7, <2>3, <3>1
    <3>3. bs[a].next # n
      BY <1>5, <1>6, <2>3, <3>2
    <3> QED
      BY <1>4, <2>3, <3>1, <3>2, <3>3
  <2> QED
    BY <1>4, <2>1, <2>2, <2>3
<1>8. ASSUME NEW a \in DOMAIN d \ {h}
      PROVE  d[a].prev \in DOMAIN d /\ d[d[a].prev].next = a
  <2>1. CASE a = b
    BY <1>1, <1>4, <2>1
  <2>2. CASE a \in DOMAIN bs /\ a = n
    BY <1>4, <2>2
  <2>3. CASE a \in DOMAIN bs /\ a # n
    <3>1. d[a].prev = bs[a].prev /\ bs[a].prev \in DOMAIN bs /\ bs[bs[a].prev].next = a
      BY <1>1, <1>4, <2>3
    <3>2. bs[a].prev # h
      BY <2>3, <3>1 DEF n
    <3> QED
      BY <1>4, <3>1, <3>2
  <2> QED
    BY <1>4, <2>1, <2>2, <2>3
<1>9. h \in DOMAIN d /\ d[h].prev = 0
  BY <1>1, <1>4, <1>5, <1>6
<1> QED
  BY <1>7, <1>8, <1>9 DEF Chain

\* g is h with one more bucket b.
Grown(h, g, b) ==
  /\ Merged(g.ps) /\ Kept(h.ps, g.ps, {})
  /\ DOMAIN g.bs = DOMAIN h.bs \cup {b} /\ b \notin DOMAIN h.bs

\* create_bucket and insert_bucket.
LEMMA GrowHeap ==
  ASSUME NEW h, Core(h, DOMAIN h.bs), Merged(h.ps), NEW want \in Nat,
         NEW f, f = create_bucket(h, want, 0), f.end <= MAXHEAP, NEW g, g = insert_bucket(f, f.ret)
  PROVE  Core(g, DOMAIN g.bs) /\ Grown(h, g, f.ret) /\ g.end = f.end
<1>1. /\ IsHeap(h) /\ h.status = "ok" /\ Layout(h.ps, h.bs, h.end) /\ Chain(h.bs)
      /\ Cached(h.ps, h.bs, DOMAIN h.bs)
  BY DEF Core
<1>2. PICK b \in Nat : b = h.end
  BY <1>1 DEF Layout, Typed
<1>3. PICK k \in Nat : Pages(want, k) /\ Created(h, f, k)
  BY <1>1, <1>2, CreateIs
<1>4. PICK r, c : r = Put(h.ps, b + 64, NewPebble(b, k)) /\ c = Put(h.bs, b, NewBucket(b, k))
  OBVIOUS
<1>5. f = [ps |-> r, bs |-> c, end |-> b + k * 4096, ret |-> b, status |-> h.status] /\ k >= 1
  BY <1>2, <1>3, <1>4 DEF Created, Pages
<1>6. f.ps = r /\ f.bs = c /\ f.end = b + k * 4096 /\ f.ret = b /\ f.status = "ok"
  BY <1>1, <1>5
<1>7. KHEAPSTART \in DOMAIN h.bs /\ b > KHEAPSTART
  <2>1. KHEAPSTART \in DOMAIN h.bs
    BY <1>1 DEF Chain
  <2>2. BucketOK(h.ps, h.bs, b, KHEAPSTART) /\ h.bs[KHEAPSTART] \in Buckets
    BY <1>1, <1>2, <2>1 DEF Layout, Typed
  <2>3. KHEAPSTART + 64 \in DOMAIN h.ps
    BY <2>2 DEF BucketOK
  <2>4. PEnd(h.ps, KHEAPSTART + 64) <= h.end /\ h.ps[KHEAPSTART + 64].size \in Nat
    BY <1>1, <2>3, HeaderFacts
  <2> QED
    BY <1>2, <2>1, <2>4, HeapFacts DEF PEnd
<1>8. Layout(r, c, b + k * 4096) /\ Appended(h.ps, h.bs, b, k, r, c)
  <2>1. Layout(h.ps, h.bs, b) /\ b >= KHEAPSTART /\ b + k * 4096 <= MAXHEAP
    BY <1>1, <1>2, <1>6, <1>7, HeapFacts
  <2>2. k >= 1
    BY <1>5
  <2> QED
    BY <1>4, <2>1, <2>2, AppendLayout
<1>9. /\ DOMAIN r = DOMAIN h.ps \cup {b + 64} /\ b + 64 \notin DOMAIN h.ps
      /\ \A p \in DOMAIN h.ps : r[p] = h.ps[p]
      /\ r[b + 64] = NewPebble(b, k)
      /\ DOMAIN c = DOMAIN h.bs \cup {b} /\ b \notin DOMAIN h.bs
      /\ \A a \in DOMAIN h.bs : c[a] = h.bs[a] /\ a < b
      /\ c[b] = NewBucket(b, k)
  BY <1>8 DEF Appended
<1>10. PICK d : d = Second(c, b)
  OBVIOUS
<1>11. g = [ps |-> r, bs |-> d, end |-> b + k * 4096, ret |-> b, status |-> "ok"]
  <2>0. insert_bucket(f, f.ret) = [f EXCEPT !.bs = Second(f.bs, f.ret)]
    BY Zenon DEF insert_bucket, Second
  <2>1. g = [f EXCEPT !.bs = d]
    BY <1>6, <1>10, <2>0
  <2> QED
    BY <1>1, <1>5, <2>1
<1>12. Inserted(c, d, b)
  <2>1. c \in [DOMAIN c -> Buckets] /\ KHEAPSTART \in DOMAIN c /\ b \in DOMAIN c /\ b # KHEAPSTART
    BY <1>7, <1>8, <1>9, HeapFacts DEF Layout, Typed
  <2>2. 0 \notin DOMAIN c
    <3>1. \A a \in DOMAIN c : a \in Nat /\ a >= KHEAPSTART
      BY <1>8 DEF Layout, Typed, BucketOK
    <3> QED
      BY <3>1, HeapFacts
  <2>3. c[KHEAPSTART].next = h.bs[KHEAPSTART].next
    BY <1>7, <1>9
  <2>4. /\ c[KHEAPSTART].next \in DOMAIN c \cup {0} /\ c[KHEAPSTART].next # KHEAPSTART
        /\ c[KHEAPSTART].next # b
    BY <1>1, <1>7, <1>9, <2>2, <2>3, HeapFacts DEF Chain
  <2> QED
    BY <1>10, <2>1, <2>2, <2>4, InsertIs
<1>13. Chain(d)
  BY <1>1, <1>2, <1>8, <1>12, InsertChain
<1>14. /\ DOMAIN d = DOMAIN c /\ d \in [DOMAIN d -> Buckets]
       /\ \A a \in DOMAIN c : /\ d[a].size = c[a].size /\ d[a].first = c[a].first
                              /\ d[a].largest_free = c[a].largest_free
  BY <1>12 DEF Inserted, Relinked
<1>15. Layout(r, d, b + k * 4096)
  BY <1>8, <1>14, RelinkLayout
<1>16. NewPebble(b, k).parent = b /\ NewPebble(b, k).next = 0 /\ NewPebble(b, k).lflags = 0
       /\ NewPebble(b, k).size = NewBucket(b, k).largest_free
  BY DEF NewPebble, NewBucket
<1>17. Cached(r, d, DOMAIN d)
  <2> SUFFICES ASSUME NEW p \in DOMAIN r
               PROVE  r[p].size <= d[r[p].parent].largest_free
    BY DEF Cached
  <2>1. r[p].size \in Nat /\ r[p].parent \in DOMAIN d
    BY <1>15, HeaderFacts
  <2>2. CASE p = b + 64
    BY <1>9, <1>14, <1>16, <2>1, <2>2
  <2>3. CASE p \in DOMAIN h.ps
    <3>1. h.ps[p].parent \in DOMAIN h.bs
      BY <1>1, <2>3, HeaderFacts
    <3> QED
      BY <1>1, <1>9, <1>14, <2>3, <3>1 DEF Cached
  <2> QED
    BY <1>9, <2>2, <2>3
<1>18. Merged(r)
  <2> SUFFICES ASSUME NEW p \in DOMAIN r, r[p].next # 0, r[p].lflags = 0
               PROVE  r[r[p].next].lflags = 1
    BY DEF Merged
  <2>1. p \in DOMAIN h.ps
    BY <1>9, <1>16
  <2>2. h.ps[p].next # 0 => h.ps[p].next \in DOMAIN h.ps
    BY <1>1, <2>1, HeaderFacts DEF PebbleOK
  <2> QED
    BY <1>9, <2>1, <2>2 DEF Merged
<1>19. Kept(h.ps, r, {})
  BY <1>9 DEF Kept
<1>20. /\ g.ps = r /\ g.bs = d /\ g.end = b + k * 4096 /\ g.ret = b /\ g.status = "ok"
       /\ IsHeap(g)
  BY <1>11 DEF IsHeap
<1> QED
  BY <1>6, <1>9, <1>13, <1>14, <1>15, <1>17, <1>18, <1>19, <1>20 DEF Core, Grown

-----------------------------------------------------------------------------
(* What every operation leaves alone, whatever the heap.                    *)

\* g is a heap that ends where h ends.
SameEnd(h, g) == IsHeap(g) /\ g.end = h.end

\* Only create_bucket moves the end: the updates one by one.
LEMMA EndFields ==
  ASSUME NEW h, IsHeap(h), NEW v
  PROVE  /\ SameEnd(h, [h EXCEPT !.ps = v]) /\ SameEnd(h, [h EXCEPT !.bs = v])
         /\ SameEnd(h, [h EXCEPT !.ret = v]) /\ SameEnd(h, [h EXCEPT !.status = v])
<1>1. h = [ps |-> h.ps, bs |-> h.bs, end |-> h.end, ret |-> h.ret, status |-> h.status]
  BY DEF IsHeap
<1>2. ASSUME NEW p, NEW b, NEW e, NEW r, NEW s, NEW x,
             x = [ps |-> p, bs |-> b, end |-> e, ret |-> r, status |-> s], e = h.end
      PROVE  SameEnd(h, x)
  BY <1>2 DEF SameEnd, IsHeap
<1>3. SameEnd(h, [h EXCEPT !.ps = v])
  <2>1. [h EXCEPT !.ps = v] = [ps |-> v, bs |-> h.bs, end |-> h.end, ret |-> h.ret, status |-> h.status]
    BY <1>1, HeapField
  <2> QED
    BY <1>2, <2>1
<1>4. SameEnd(h, [h EXCEPT !.bs = v])
  <2>1. [h EXCEPT !.bs = v] = [ps |-> h.ps, bs |-> v, end |-> h.end, ret |-> h.ret, status |-> h.status]
    BY <1>1, HeapField
  <2> QED
    BY <1>2, <2>1
<1>5. SameEnd(h, [h EXCEPT !.ret = v])
  <2>1. [h EXCEPT !.ret = v] = [ps |-> h.ps, bs |-> h.bs, end |-> h.end, ret |-> v, status |-> h.status]
    BY <1>1, HeapField
  <2> QED
    BY <1>2, <2>1
<1>6. SameEnd(h, [h EXCEPT !.status = v])
  <2>1. [h EXCEPT !.status = v] = [ps |-> h.ps, bs |-> h.bs, end |-> h.end, ret |-> h.ret, status |-> v]
    BY <1>1, HeapField
  <2> QED
    BY <1>2, <2>1
<1> QED
  BY <1>3, <1>4, <1>5, <1>6

\* bucket_update_largest.
LEMMA EndUpdate ==
  ASSUME NEW h, IsHeap(h), NEW b
  PROVE  SameEnd(h, bucket_update_largest(h, b))
<1>1. PICK m : m = MaxOf({0} \cup {h.ps[p].size : p \in OnList(h.ps, h.bs[b].first)})
  OBVIOUS
<1>2. bucket_update_largest(h, b) = [h EXCEPT !.bs[b].largest_free = m]
  BY <1>1, Zenon DEF bucket_update_largest
<1>3. PICK v : v = [h.bs EXCEPT ![b].largest_free = m]
  OBVIOUS
<1>4. [h EXCEPT !.bs[b].largest_free = m] = [h EXCEPT !.bs = v]
  BY <1>3 DEF IsHeap
<1>5. SameEnd(h, [h EXCEPT !.bs = v])
  BY EndFields
<1> QED
  BY <1>2, <1>4, <1>5

\* insert_bucket, place_pebble, memset and memcpy.
LEMMA EndTake ==
  ASSUME NEW h, IsHeap(h), NEW b, NEW n
  PROVE  /\ SameEnd(h, insert_bucket(h, b)) /\ SameEnd(h, place_pebble(h, b, n))
         /\ SameEnd(h, ClearBlock(h, n)) /\ SameEnd(h, CopyBlock(h, b, n))
<1>1. SameEnd(h, insert_bucket(h, b))
  <2>1. insert_bucket(h, b) = [h EXCEPT !.bs = Second(h.bs, b)]
    BY Zenon DEF insert_bucket, Second
  <2>2. SameEnd(h, [h EXCEPT !.bs = Second(h.bs, b)])
    BY EndFields
  <2> QED
    BY <2>1, <2>2
<1>2. SameEnd(h, place_pebble(h, b, n))
  <2>1. PICK t : t = Fitting(h, b, n)
    OBVIOUS
  <2>2. CASE t = 0
    <3>1. PICK x : x = [h EXCEPT !.ret = 0]
      OBVIOUS
    <3>2. place_pebble(h, b, n) = bucket_update_largest(x, b)
      BY <2>1, <2>2, <3>1 DEF place_pebble
    <3>3. SameEnd(h, x)
      BY <3>1, EndFields
    <3> QED
      BY <3>2, <3>3, EndUpdate DEF SameEnd
  <2>3. CASE t # 0
    <3>1. PICK p, r, s : p = [split_pebble(h.ps, t, n) EXCEPT ![t].lflags = 1] /\ r = t + 60
                         /\ s = IF SplitTears(h, t, n) THEN "wild" ELSE h.status
      OBVIOUS
    <3>2. PICK x : x = Taking(h, p, r, s)
      OBVIOUS
    <3>3. place_pebble(h, b, n) = bucket_update_largest(x, b)
      <4>1. place_pebble(h, b, n)
              = bucket_update_largest(Taking(h, [split_pebble(h.ps, t, n) EXCEPT ![t].lflags = 1],
                  t + 60, IF SplitTears(h, t, n) THEN "wild" ELSE h.status), b)
        BY <2>1, <2>3 DEF place_pebble, Taking
      <4> QED
        BY <3>1, <3>2, <4>1
    <3>4. x = [ps |-> p, bs |-> h.bs, end |-> h.end, ret |-> r, status |-> s]
      BY <3>2, HeapExcept
    <3>5. SameEnd(h, x)
      BY <3>4 DEF SameEnd, IsHeap
    <3> QED
      BY <3>3, <3>5, EndUpdate DEF SameEnd
  <2> QED
    BY <2>2, <2>3
<1>3. SameEnd(h, ClearBlock(h, n))
  <2>1. CASE h.ret = 0
    BY <2>1 DEF ClearBlock, SameEnd
  <2>2. CASE h.ret # 0
    <3> DEFINE P == [a \in DOMAIN h.ps |-> IF a \in Covered(h.ps, h.ret, h.ret + n)
                                           THEN ZeroPebble(h.ps[a], (h.ret + n) - a) ELSE h.ps[a]]
               K == [a \in DOMAIN h.bs |-> IF a \in Covered(h.bs, h.ret, h.ret + n)
                                           THEN ZeroBucket(h.bs[a], (h.ret + n) - a) ELSE h.bs[a]]
    <3>1. ClearBlock(h, n) = Zeroing(h, P, K)
      BY <2>2, Zenon DEF ClearBlock, memset_zero, Zeroing
    <3> HIDE DEF P, K
    <3>2. Zeroing(h, P, K) = [ps |-> P, bs |-> K, end |-> h.end, ret |-> h.ret, status |-> h.status]
      BY HeapExcept
    <3>3. PICK x : x = Zeroing(h, P, K)
      OBVIOUS
    <3>4. SameEnd(h, x)
      BY <3>2, <3>3 DEF SameEnd, IsHeap
    <3> QED
      BY <3>1, <3>3, <3>4
  <2> QED
    BY <2>1, <2>2
<1>4. SameEnd(h, CopyBlock(h, b, n))
  <2>1. \/ CopyBlock(h, b, n) = h
        \/ CopyBlock(h, b, n) = [h EXCEPT !.status = "wild"]
        \/ CopyBlock(h, b, n) = [h EXCEPT !.status = "fault"]
    BY Zenon DEF CopyBlock
  <2>2. SameEnd(h, h)
    BY DEF SameEnd
  <2>3. SameEnd(h, [h EXCEPT !.status = "wild"]) /\ SameEnd(h, [h EXCEPT !.status = "fault"])
    BY EndFields
  <2> QED
    BY <2>1, <2>2, <2>3
<1> QED
  BY <1>1, <1>2, <1>3, <1>4

\* Swallow, melt_prev and absorb_next.
LEMMA EndMerge ==
  ASSUME NEW h, IsHeap(h), NEW p
  PROVE  SameEnd(h, melt_prev(h, p)) /\ SameEnd(h, absorb_next(h, p))
<1>0. SameEnd(h, h)
  BY DEF SameEnd
<1>1. ASSUME NEW x, NEW y
      PROVE  SameEnd(h, Swallow(h, x, y))
  <2> DEFINE n   == h.ps[y].next
             ps1 == [h.ps EXCEPT ![x].size = (@ + h.ps[y].size + 60) % WORDMOD, ![x].next = n]
             ps2 == IF n = 0 THEN ps1 ELSE [ps1 EXCEPT ![n].prev = x]
             v == Drop(ps2, {y})
  <2>1. Swallow(h, x, y) = [h EXCEPT !.ps = v]
    BY Zenon DEF Swallow
  <2> HIDE DEF v
  <2>2. SameEnd(h, [h EXCEPT !.ps = v])
    BY EndFields
  <2> QED
    BY <2>1, <2>2
<1>2. SameEnd(h, absorb_next(h, p))
  <2>1. PICK q, b : q = h.ps[p].next /\ b = h.ps[p].parent
    OBVIOUS
  <2>2. PICK x : x = Swallow(h, p, q)
    OBVIOUS
  <2>3. PICK y : y = [x EXCEPT !.bs[b].first = IF @ = q THEN p ELSE @]
    OBVIOUS
  <2>4. absorb_next(h, p) = h \/ absorb_next(h, p) = bucket_update_largest(y, b)
    BY <2>1, <2>2, <2>3, Zenon DEF absorb_next
  <2>5. SameEnd(h, x)
    BY <1>1, <2>2
  <2>6. PICK v : v = [x.bs EXCEPT ![b].first = IF @ = q THEN p ELSE @]
    OBVIOUS
  <2>7. y = [x EXCEPT !.bs = v]
    BY <2>3, <2>5, <2>6 DEF SameEnd, IsHeap
  <2>8. SameEnd(x, y)
    BY <2>5, <2>7, EndFields DEF SameEnd
  <2> QED
    BY <1>0, <2>4, <2>5, <2>8, EndUpdate DEF SameEnd
<1>3. SameEnd(h, melt_prev(h, p))
  <2>1. PICK q, b, a : q = h.ps[p].prev /\ b = h.ps[p].parent /\ a = h.ps[q].parent
    OBVIOUS
  <2>2. PICK x : x = Swallow(h, q, p)
    OBVIOUS
  <2>3. PICK y : y = [x EXCEPT !.ret = q, !.bs[b].first = IF @ = p THEN q ELSE @]
    OBVIOUS
  <2>4. \/ melt_prev(h, p) = [h EXCEPT !.ret = p]
        \/ melt_prev(h, p) = bucket_update_largest(y, a)
        \/ melt_prev(h, p) = [y EXCEPT !.status = "fault"]
    BY <2>1, <2>2, <2>3, Zenon DEF melt_prev
  <2>5. SameEnd(h, x)
    BY <1>1, <2>2
  <2>6. PICK z : z = [x EXCEPT !.ret = q]
    OBVIOUS
  <2>7. SameEnd(x, z)
    BY <2>5, <2>6, EndFields DEF SameEnd
  <2>8. PICK v : v = [z.bs EXCEPT ![b].first = IF @ = p THEN q ELSE @]
    OBVIOUS
  <2>9. y = [z EXCEPT !.bs = v]
    BY <2>3, <2>6, <2>7, <2>8 DEF SameEnd, IsHeap
  <2>10. SameEnd(z, y)
    BY <2>7, <2>9, EndFields DEF SameEnd
  <2>11. SameEnd(h, y)
    BY <2>5, <2>7, <2>10 DEF SameEnd
  <2>12. SameEnd(y, bucket_update_largest(y, a)) /\ SameEnd(y, [y EXCEPT !.status = "fault"])
    BY <2>11, EndUpdate, EndFields DEF SameEnd
  <2>13. SameEnd(h, [h EXCEPT !.ret = p])
    BY EndFields
  <2> QED
    BY <2>4, <2>11, <2>12, <2>13 DEF SameEnd
<1> QED
  BY <1>2, <1>3

-----------------------------------------------------------------------------
(* kmalloc.                                                                 *)

\* What kmalloc asks of a bucket for n bytes.
Need(n) == PebbleSize(AtLeast(n, PEBBLE_MIN_SIZE))

\* kmalloc in an old bucket, and in a new one.
InOld(h, b, n) == ClearBlock(place_pebble(h, b, Need(n)), AtLeast(n, PEBBLE_MIN_SIZE))
InNew(h, f, n) == InOld(insert_bucket(f, f.ret), f.ret, n)

\* kmalloc never gets stuck, and makes a new bucket only when no pebble will do.
LEMMA KmallocCases ==
  ASSUME NEW h, Core(h, DOMAIN h.bs), NEW n \in Nat, NEW g, g = kmalloc(h, n)
  PROVE  \/ \E b \in DOMAIN h.bs : g = InOld(h, b, n)
         \/ /\ g = InNew(h, create_bucket(h, AtLeast(n, 64), 0), n)
            /\ \A p \in DOMAIN h.ps : h.ps[p].lflags = FREE => h.ps[p].size < Need(n)
<1> DEFINE size   == AtLeast(n, 64)
           need   == PebbleSize(size)
           bucket == Hops(h.bs, KHEAPSTART)
           tried  == {i \in DOMAIN bucket : /\ bucket[i] \in DOMAIN h.bs
                                            /\ h.bs[bucket[i]].largest_free >= need}
           found  == {i \in tried : Fitting(h, bucket[i], need) # 0}
           stuck  == {i \in tried : /\ \A m \in found : i <= m
                                    /\ Traversal(h.ps, h.bs[bucket[i]].first) # "ok"}
           fresh  == create_bucket(h, size, 0)
<1>1. /\ IsHeap(h) /\ h.status = "ok" /\ Layout(h.ps, h.bs, h.end) /\ Chain(h.bs)
      /\ Cached(h.ps, h.bs, DOMAIN h.bs)
  BY DEF Core
<1>2. g = IF stuck # {}
          THEN [h EXCEPT !.status = Traversal(h.ps, h.bs[bucket[MinOf(stuck)]].first)]
          ELSE IF found # {}
          THEN ClearBlock(place_pebble(h, bucket[MinOf(found)], need), size)
          ELSE IF Traversal(h.bs, KHEAPSTART) # "ok"
          THEN [h EXCEPT !.status = Traversal(h.bs, KHEAPSTART)]
          ELSE ClearBlock(place_pebble(insert_bucket(fresh, fresh.ret), fresh.ret, need), size)
  BY Zenon DEF kmalloc
<1>3. need \in Nat /\ size \in Nat
  BY NeedIs DEF AtLeast
<1>4. /\ Ends(h.bs, KHEAPSTART) /\ DOMAIN bucket \subseteq Nat
      /\ \A b \in DOMAIN h.bs : \E i \in DOMAIN bucket : bucket[i] = b
  <2>1. Ends(h.bs, KHEAPSTART) /\ OnList(h.bs, KHEAPSTART) = DOMAIN h.bs
    BY <1>1, BucketList
  <2>2. DOMAIN bucket \subseteq Nat
    BY <1>1, HopsAre DEF Layout, Typed
  <2> QED
    BY <2>1, <2>2 DEF OnList
<1> HIDE DEF bucket, need, size
<1>5. stuck = {}
  <2> SUFFICES ASSUME NEW i \in tried PROVE Traversal(h.ps, h.bs[bucket[i]].first) = "ok"
    OBVIOUS
  <2>1. Ends(h.ps, h.bs[bucket[i]].first)
    BY <1>1, PebbleList
  <2> QED
    BY <2>1 DEF Traversal
<1>6. Traversal(h.bs, KHEAPSTART) = "ok"
  BY <1>4 DEF Traversal
<1>7. CASE found # {}
  <2>1. MinOf(found) \in found
    <3>1. found \subseteq Nat
      BY <1>4
    <3> HIDE DEF found
    <3> QED
      BY <1>7, <3>1, MinIs
  <2>2. PICK b \in DOMAIN h.bs : b = bucket[MinOf(found)]
    BY <2>1
  <2> HIDE DEF found, stuck
  <2>3. g = ClearBlock(place_pebble(h, b, need), size)
    BY <1>2, <1>5, <1>7, <2>2
  <2> QED
    BY <2>3 DEF InOld, Need, need, size
<1>8. CASE found = {}
  <2>1. ASSUME NEW p \in DOMAIN h.ps, h.ps[p].lflags = 0
        PROVE  h.ps[p].size < need
    <3>1. PICK b \in DOMAIN h.bs : b = h.ps[p].parent
      BY <1>1, HeaderFacts
    <3>2. PICK i \in DOMAIN bucket : bucket[i] = b
      BY <1>4
    <3>3. h.ps[p].size \in Nat
      BY <1>1, HeaderFacts
    <3>4. h.ps[p].size <= h.bs[b].largest_free
      BY <1>1, <3>1 DEF Cached
    <3>5. h.bs[b].largest_free \in Nat
      BY <1>1 DEF Layout, Typed, Buckets
    <3> SUFFICES ASSUME h.ps[p].size >= need PROVE FALSE
      BY <1>3, <3>3
    <3>6. i \in tried
      BY <1>3, <3>2, <3>3, <3>4, <3>5
    <3>7. PICK t : t = Fitting(h, b, need)
      OBVIOUS
    <3>8. t = 0
      BY <1>8, <3>2, <3>6, <3>7
    <3>9. \A a \in Kids(h.ps, b) : h.ps[a].lflags = 0 => h.ps[a].size < need
      BY <1>1, <1>3, <3>7, <3>8, FittingIs
    <3>10. p \in Kids(h.ps, b)
      BY <3>1 DEF Kids
    <3> QED
      BY <1>3, <2>1, <3>3, <3>9, <3>10
  <2> HIDE DEF found, stuck, fresh
  <2>2. g = ClearBlock(place_pebble(insert_bucket(fresh, fresh.ret), fresh.ret, need), size)
    BY <1>2, <1>5, <1>6, <1>8
  <2> QED
    BY <2>1, <2>2, Zenon DEF InNew, InOld, Need, need, size, fresh
<1> QED
  BY <1>7, <1>8

Used(ps, b) == \E p \in Kids(ps, b) : ps[p].lflags = IN_USE

\* g is h with a block of n bytes more, or none.
Allotted(h, g, n) ==
  /\ Merged(g.ps) /\ Kept(h.ps, g.ps, {}) /\ DOMAIN h.bs \subseteq DOMAIN g.bs
  /\ g.ret # Null => /\ Block(g.ps, g.ret, n) /\ ~InUse(h.ps, g.ret - PEBBLE)
                     /\ \A b \in DOMAIN g.bs \ DOMAIN h.bs : Used(g.ps, b)

\* kmalloc takes a new bucket only when no pebble would do.
LEMMA KmallocEnd ==
  ASSUME NEW h, Core(h, DOMAIN h.bs), NEW n \in Nat, NEW g, g = kmalloc(h, n)
  PROVE  /\ IsHeap(g)
         /\ g.end # h.end =>
              \A p \in DOMAIN h.ps : h.ps[p].lflags = FREE => h.ps[p].size < Need(n)
<1>1. IsHeap(h) /\ h.end \in Nat
  BY DEF Core, Layout, Typed
<1>2. ASSUME NEW x, IsHeap(x), NEW b
      PROVE  SameEnd(x, InOld(x, b, n))
  <2>1. PICK y, m : y = place_pebble(x, b, Need(n)) /\ m = AtLeast(n, 64)
    OBVIOUS
  <2>2. SameEnd(x, y) /\ IsHeap(y)
    BY <1>2, <2>1, EndTake DEF SameEnd
  <2>3. SameEnd(y, ClearBlock(y, m))
    BY <2>2, EndTake
  <2> QED
    BY <2>1, <2>2, <2>3 DEF InOld, SameEnd
<1>3. ASSUME NEW f, f = create_bucket(h, AtLeast(n, 64), 0)
      PROVE  SameEnd(f, InNew(h, f, n))
  <2>1. AtLeast(n, 64) \in Nat
    BY DEF AtLeast
  <2>2. IsHeap(f)
    BY <1>1, <1>3, <2>1, CreateIs DEF IsHeap, Created
  <2>3. PICK x : x = insert_bucket(f, f.ret)
    OBVIOUS
  <2>4. SameEnd(f, x) /\ IsHeap(x)
    BY <2>2, <2>3, EndTake DEF SameEnd
  <2>5. SameEnd(x, InOld(x, f.ret, n))
    BY <1>2, <2>4
  <2> QED
    BY <2>3, <2>4, <2>5 DEF InNew, SameEnd
<1> QED
  BY <1>1, <1>2, <1>3, KmallocCases DEF SameEnd

\* Taking and clearing a pebble for a size that is rounded up.
LEMMA InOldIs ==
  ASSUME NEW h, NEW B, Core(h, B), Merged(h.ps), NEW b \in DOMAIN h.bs, NEW n \in Nat, GoodSize(n),
         NEW g, g = InOld(h, b, n)
  PROVE  Core(g, B \cup {b}) /\ Placed(h, g, b, Need(n))
<1>1. PICK m \in Nat : m = AtLeast(n, 64)
  BY DEF AtLeast
<1>2. PICK need \in Nat : need = Need(n) /\ RoundUp(need, 64) = need
  BY <1>1, NeedIs DEF Need
<1>3. m <= need
  BY <1>1, <1>2 DEF GoodSize, Need
<1>4. PICK y : y = place_pebble(h, b, need)
  OBVIOUS
<1>5. Core(y, B \cup {b}) /\ Placed(h, y, b, need)
  BY <1>2, <1>4, PlacePebble
<1>6. y.ret # 0 => Block(y.ps, y.ret, need)
  BY <1>5 DEF Placed
<1>7. ClearBlock(y, m) = y
  BY <1>3, <1>5, <1>6, ClearKeeps DEF Core
<1> QED
  BY <1>1, <1>2, <1>4, <1>5, <1>7 DEF InOld

\* kmalloc.
LEMMA KmallocIs ==
  ASSUME NEW h, Core(h, DOMAIN h.bs), Merged(h.ps), NEW n \in Nat, GoodSize(n),
         NEW g, g = kmalloc(h, n), g.end <= MAXHEAP
  PROVE  Core(g, DOMAIN g.bs) /\ Allotted(h, g, n)
<1>1. PICK need \in Nat : need = Need(n) /\ n <= need
  <2>1. PICK m \in Nat : m = AtLeast(n, 64) /\ n <= m
    BY DEF AtLeast
  <2>2. PICK need \in Nat : need = Need(n)
    BY <2>1, NeedIs DEF Need
  <2> QED
    BY <2>1, <2>2 DEF GoodSize, Need
<1>2. ASSUME NEW ps, NEW ptr, Block(ps, ptr, need), NEW bs, NEW end, Layout(ps, bs, end)
      PROVE  Block(ps, ptr, n)
  <2>1. ps[ptr - 60].size \in Nat
    BY <1>2, HeaderFacts DEF Block, InUse
  <2> QED
    BY <1>1, <1>2, <2>1 DEF Block
<1>3. ASSUME NEW b \in DOMAIN h.bs, g = InOld(h, b, n)
      PROVE  Core(g, DOMAIN g.bs) /\ Allotted(h, g, n)
  <2>1. Core(g, DOMAIN h.bs \cup {b}) /\ Placed(h, g, b, need)
    BY <1>1, <1>3, InOldIs
  <2>2. DOMAIN g.bs = DOMAIN h.bs /\ DOMAIN h.bs \cup {b} = DOMAIN h.bs
    BY <2>1 DEF Placed
  <2>3. g.ret # 0 => Block(g.ps, g.ret, n)
    BY <1>2, <2>1 DEF Placed, Core
  <2> QED
    BY <2>1, <2>2, <2>3 DEF Placed, Allotted
<1>4. ASSUME NEW f, f = create_bucket(h, AtLeast(n, 64), 0), g = InNew(h, f, n)
      PROVE  Core(g, DOMAIN g.bs) /\ Allotted(h, g, n)
  <2>1. PICK m \in Nat : m = AtLeast(n, 64)
    BY DEF AtLeast
  <2>2. PICK x : x = insert_bucket(f, f.ret)
    OBVIOUS
  <2>3. PICK b : b = f.ret
    OBVIOUS
  <2>4. g = InOld(x, b, n)
    BY <1>4, <2>2, <2>3 DEF InNew
  <2>5. f.end <= MAXHEAP
    <3>1. IsHeap(h) /\ h.end \in Nat
      BY DEF Core, Layout, Typed
    <3>2. IsHeap(f)
      BY <1>4, <2>1, <3>1, CreateIs DEF IsHeap, Created
    <3>3. IsHeap(x) /\ x.end = f.end
      BY <2>2, <3>2, EndTake DEF SameEnd
    <3>4. PICK y, k : y = place_pebble(x, b, k) /\ g = ClearBlock(y, m)
      BY <2>1, <2>4 DEF InOld
    <3>5. IsHeap(y) /\ y.end = x.end
      BY <3>3, <3>4, EndTake DEF SameEnd
    <3>6. g.end = y.end
      BY <3>4, <3>5, EndTake DEF SameEnd
    <3> QED
      BY <3>3, <3>5, <3>6
  <2>6. Core(x, DOMAIN x.bs) /\ Grown(h, x, b)
    BY <1>4, <2>1, <2>2, <2>3, <2>5, GrowHeap
  <2>7. b \in DOMAIN x.bs /\ Merged(x.ps)
    BY <2>6 DEF Grown
  <2>8. Core(g, DOMAIN x.bs \cup {b}) /\ Placed(x, g, b, need)
    BY <1>1, <2>4, <2>6, <2>7, InOldIs
  <2>9. DOMAIN g.bs = DOMAIN x.bs /\ DOMAIN x.bs \cup {b} = DOMAIN x.bs
    BY <2>7, <2>8 DEF Placed
  <2>10. Kept(h.ps, g.ps, {})
    BY <2>6, <2>8 DEF Grown, Placed, Kept
  <2>11. g.ret # 0 => Block(g.ps, g.ret, n)
    BY <1>2, <2>8 DEF Placed, Core
  <2>12. g.ret # 0 => ~InUse(h.ps, g.ret - 60)
    BY <2>6, <2>8 DEF Grown, Placed, Kept, InUse
  <2>13. ASSUME g.ret # 0, NEW a \in DOMAIN g.bs \ DOMAIN h.bs
         PROVE  Used(g.ps, a)
    <3>1. a = b
      BY <2>6, <2>9 DEF Grown
    <3>2. g.ps[g.ret - 60].parent = b /\ InUse(g.ps, g.ret - 60)
      BY <2>8, <2>13 DEF Placed, Block
    <3> QED
      BY <3>1, <3>2 DEF Used, Kids, InUse
  <2>14. DOMAIN h.bs \subseteq DOMAIN g.bs /\ Merged(g.ps)
    BY <2>6, <2>8, <2>9 DEF Grown, Placed
  <2> QED
    BY <2>8, <2>9, <2>10, <2>11, <2>12, <2>13, <2>14 DEF Allotted
<1> QED
  BY <1>3, <1>4, KmallocCases

-----------------------------------------------------------------------------
(* kfree.                                                                   *)

\* No free pebble comes just before p.
UsedBefore(ps, p) == \A a \in DOMAIN ps : ps[a].next = p => ps[a].lflags = IN_USE

\* The first pebble of a bucket is never the one that is swallowed.
LEMMA SameFirst ==
  ASSUME NEW bs, bs \in [DOMAIN bs -> Buckets], NEW b \in DOMAIN bs, NEW p, NEW q, bs[b].first # q
  PROVE  [bs EXCEPT ![b].first = IF @ = q THEN p ELSE @] = bs
<1>1. [bs EXCEPT ![b].first = IF @ = q THEN p ELSE @] = [bs EXCEPT ![b].first = bs[b].first]
  OBVIOUS
<1>2. bs[b] \in Buckets
  OBVIOUS
<1>3. [bs[b] EXCEPT !.first = bs[b].first] = bs[b]
  BY <1>2 DEF Buckets
<1>4. [bs EXCEPT ![b].first = bs[b].first] = [bs EXCEPT ![b] = bs[b]]
  BY <1>3
<1>5. [bs EXCEPT ![b] = bs[b]] = bs
  OBVIOUS
<1> QED
  BY <1>1, <1>4, <1>5

\* g is h after one merge.
Joined(h, g, p, q) ==
  /\ Merges(h.ps, g.ps, p, q) /\ Kept(h.ps, g.ps, {}) /\ g.end = h.end
  /\ DOMAIN g.bs = DOMAIN h.bs

\* Two free neighbours become one.
LEMMA JoinIs ==
  ASSUME NEW h, Core(h, DOMAIN h.bs), NEW p \in DOMAIN h.ps, NEW q, q = h.ps[p].next, q # Null,
         h.ps[p].lflags = FREE, h.ps[q].lflags = FREE,
         NEW s, s = Swallow(h, p, q), NEW b, b = h.ps[p].parent, NEW r, NEW x,
         x = [ps |-> s.ps, bs |-> h.bs, end |-> h.end, ret |-> r, status |-> "ok"],
         NEW g, g = bucket_update_largest(x, b)
  PROVE  /\ Core(g, DOMAIN g.bs) /\ Joined(h, g, p, q) /\ g.ret = r
<1>1. /\ IsHeap(h) /\ h.status = "ok" /\ Layout(h.ps, h.bs, h.end) /\ Chain(h.bs)
      /\ Cached(h.ps, h.bs, DOMAIN h.bs)
  BY DEF Core
<1>2. Merges(h.ps, s.ps, p, q)
  BY <1>1, SwallowIs
<1>3. Layout(s.ps, h.bs, h.end)
  BY <1>1, <1>2, MergeLayout
<1>4. b \in DOMAIN h.bs
  BY <1>1, HeaderFacts
<1>5. /\ DOMAIN s.ps = DOMAIN h.ps \ {q}
      /\ \A a \in DOMAIN s.ps : /\ s.ps[a].parent = h.ps[a].parent /\ s.ps[a].lflags = h.ps[a].lflags
                                /\ a # p => s.ps[a].size = h.ps[a].size
  BY <1>2 DEF Merges
<1>6. Cached(s.ps, h.bs, DOMAIN h.bs \ {b})
  <2>1. ASSUME NEW a \in DOMAIN s.ps, s.ps[a].parent \in DOMAIN h.bs \ {b}
        PROVE  s.ps[a].size <= h.bs[s.ps[a].parent].largest_free
    <3>1. /\ a \in DOMAIN h.ps /\ a # p
          /\ s.ps[a].parent = h.ps[a].parent /\ s.ps[a].size = h.ps[a].size
      BY <1>5, <2>1
    <3> QED
      BY <1>1, <2>1, <3>1 DEF Cached
  <2> QED
    BY <2>1 DEF Cached
<1>7. Kept(h.ps, s.ps, {})
  BY <1>5 DEF Kept
<1>8. /\ x.ps = s.ps /\ x.bs = h.bs /\ x.end = h.end /\ x.ret = r /\ x.status = "ok"
      /\ IsHeap(x)
  BY DEF IsHeap
<1>9. Core(x, DOMAIN h.bs \ {b})
  BY <1>1, <1>3, <1>6, <1>8 DEF Core
<1>10. /\ Core(g, (DOMAIN h.bs \ {b}) \cup {b}) /\ Refreshes(x.bs, g.bs, b)
       /\ g.ps = x.ps /\ g.end = x.end /\ g.ret = x.ret
  <2>1. b \in DOMAIN x.bs
    BY <1>4, <1>8
  <2>2. PICK D : D = DOMAIN h.bs \ {b}
    OBVIOUS
  <2>3. Core(x, D)
    BY <1>9, <2>2
  <2>4. /\ Core(g, D \cup {b}) /\ Refreshes(x.bs, g.bs, b)
        /\ g.ps = x.ps /\ g.end = x.end /\ g.ret = x.ret
    BY <2>1, <2>3, UpdateLargest
  <2> QED
    BY <2>2, <2>4
<1>11. DOMAIN g.bs = DOMAIN h.bs /\ (DOMAIN h.bs \ {b}) \cup {b} = DOMAIN h.bs
  BY <1>4, <1>8, <1>10 DEF Refreshes
<1> QED
  BY <1>2, <1>7, <1>8, <1>10, <1>11 DEF Joined

\* g is h after melt_prev: p is part of g.ret.
Melted(h, g, p) ==
  /\ g.end = h.end /\ DOMAIN g.bs = DOMAIN h.bs /\ Kept(h.ps, g.ps, {})
  /\ g.ret \in DOMAIN g.ps /\ g.ps[g.ret].lflags = FREE /\ g.ps[g.ret].parent = h.ps[p].parent
  /\ MergedBut(g.ps, g.ret) /\ UsedBefore(g.ps, g.ret)

\* melt_prev.
LEMMA MeltPrev ==
  ASSUME NEW h, Core(h, DOMAIN h.bs), NEW p \in DOMAIN h.ps, h.ps[p].lflags = FREE,
         MergedBut(h.ps, p), NEW g, g = melt_prev(h, p)
  PROVE  Core(g, DOMAIN g.bs) /\ Melted(h, g, p)
<1>1. /\ IsHeap(h) /\ h.status = "ok" /\ Layout(h.ps, h.bs, h.end) /\ Chain(h.bs)
      /\ Cached(h.ps, h.bs, DOMAIN h.bs)
  BY DEF Core
<1>2. PICK q, b : q = h.ps[p].prev /\ b = h.ps[p].parent
  OBVIOUS
<1>3. /\ p \in Nat /\ p > 0 /\ PebbleOK(h.ps, h.bs, p) /\ b \in DOMAIN h.bs /\ b \in Nat
  BY <1>1, <1>2, HeaderFacts
<1>4. \A a \in DOMAIN h.ps : h.ps[a].next # 0 => h.ps[a].next \in DOMAIN h.ps /\ h.ps[h.ps[a].next].prev = a
  BY <1>1, HeaderFacts DEF PebbleOK
<1>5. \A a \in DOMAIN h.ps : (IS_PEBBLE_FREE(h.ps[a]) <=> h.ps[a].lflags = 0) /\ h.ps[a].lflags \in {0, 1}
  BY <1>1, HeaderFacts DEF IS_PEBBLE_FREE
<1>6. q # 0 => /\ q \in DOMAIN h.ps /\ h.ps[q].parent = b /\ h.ps[q].next = p
  BY <1>2, <1>3 DEF PebbleOK
<1>7. CASE q = 0 \/ h.ps[q].lflags = 1
  <2>1. g = [h EXCEPT !.ret = p]
    <3>1. q = 0 \/ ~IS_PEBBLE_FREE(h.ps[q])
      BY <1>5, <1>6, <1>7
    <3> QED
      BY <1>2, <3>1 DEF melt_prev
  <2>2. g = [ps |-> h.ps, bs |-> h.bs, end |-> h.end, ret |-> p, status |-> h.status]
    BY <1>1, <2>1, HeapField DEF IsHeap
  <2>3. g.ps = h.ps /\ g.bs = h.bs /\ g.end = h.end /\ g.ret = p /\ g.status = h.status /\ IsHeap(g)
    BY <2>2 DEF IsHeap
  <2>4. UsedBefore(h.ps, p)
    <3> SUFFICES ASSUME NEW a \in DOMAIN h.ps, h.ps[a].next = p PROVE h.ps[a].lflags = 1
      BY DEF UsedBefore
    <3>1. a = q /\ a # 0
      BY <1>1, <1>2, <1>3, <1>4, HeaderFacts
    <3> QED
      BY <1>7, <3>1
  <2>5. Kept(h.ps, h.ps, {})
    BY DEF Kept
  <2>6. Core(g, DOMAIN g.bs)
    BY <1>1, <2>3 DEF Core
  <2> QED
    BY <2>3, <2>4, <2>5, <2>6 DEF Melted
<1>8. CASE ~(q = 0 \/ h.ps[q].lflags = 1)
  <2>1. q \in DOMAIN h.ps /\ q # 0 /\ h.ps[q].lflags = 0 /\ h.ps[q].parent = b /\ h.ps[q].next = p
    BY <1>5, <1>6, <1>8
  <2>2. /\ q \in Nat /\ PebbleOK(h.ps, h.bs, q) /\ h.ps[q].size \in Nat
    BY <1>1, <2>1, HeaderFacts
  <2>3. q < p /\ b + 64 <= q
    BY <1>3, <2>1, <2>2 DEF PebbleOK, PEnd
  <2>4. PICK s : s = Swallow(h, q, p)
    OBVIOUS
  <2>5. /\ IsHeap(s) /\ s.bs = h.bs /\ s.end = h.end /\ s.ret = h.ret /\ s.status = h.status
        /\ Merges(h.ps, s.ps, q, p)
    BY <1>1, <1>3, <2>1, <2>4, SwallowIs
  <2>6. PICK x : x = [s EXCEPT !.ret = q, !.bs[b].first = IF @ = p THEN q ELSE @]
    OBVIOUS
  <2>7. g = bucket_update_largest(x, b)
    <3>1. ~(q = 0 \/ ~IS_PEBBLE_FREE(h.ps[p]) \/ ~IS_PEBBLE_FREE(h.ps[q]))
      BY <1>5, <2>1
    <3>2. h.ps[q].parent \in DOMAIN h.bs
      BY <1>3, <2>1
    <3>3. g = LET q_1 == h.ps[p].prev IN bucket_update_largest(x, h.ps[q_1].parent)
      BY <1>2, <2>4, <2>6, <3>1, <3>2, Zenon DEF melt_prev
    <3> QED
      BY <1>2, <2>1, <3>3
  <2>8. x = [ps |-> s.ps, bs |-> h.bs, end |-> h.end, ret |-> q, status |-> "ok"]
    <3>1. PICK y : y = [s EXCEPT !.ret = q]
      OBVIOUS
    <3>2. s = [ps |-> s.ps, bs |-> h.bs, end |-> h.end, ret |-> h.ret, status |-> h.status]
      BY <2>5 DEF IsHeap
    <3>3. y = [ps |-> s.ps, bs |-> h.bs, end |-> h.end, ret |-> q, status |-> "ok"]
      <4>0. PICK p0, b0, e0, r0, s0 : /\ p0 = s.ps /\ b0 = h.bs /\ e0 = h.end /\ r0 = h.ret
                                      /\ s0 = h.status
        OBVIOUS
      <4>2. s = [ps |-> p0, bs |-> b0, end |-> e0, ret |-> r0, status |-> s0]
        BY <3>2, <4>0
      <4>3. [s EXCEPT !.ret = q] = [ps |-> p0, bs |-> b0, end |-> e0, ret |-> q, status |-> s0]
        BY <4>2, HeapField
      <4>1. y = [ps |-> s.ps, bs |-> h.bs, end |-> h.end, ret |-> q, status |-> h.status]
        BY <3>1, <4>0, <4>3
      <4> QED
        BY <1>1, <4>1
    <3>4. PICK v : v = [h.bs EXCEPT ![b].first = IF @ = p THEN q ELSE @]
      OBVIOUS
    <3>5. h.bs \in [DOMAIN h.bs -> Buckets] /\ h.bs[b].first = b + 64
      BY <1>1, <1>3 DEF Layout, Typed, BucketOK
    <3>6. h.bs[b].first # p
      BY <1>3, <2>2, <2>3, <3>5
    <3>7. v = h.bs
      BY <1>3, <3>4, <3>5, <3>6, SameFirst
    <3>8. y.bs = h.bs
      BY <3>3
    <3>9. x = [y EXCEPT !.bs = v]
      BY <2>6, <3>1, <3>3, <3>4, <3>8
    <3> QED
      BY <3>3, <3>7, <3>9
  <2>9. Core(g, DOMAIN g.bs) /\ Joined(h, g, q, p) /\ g.ret = q
    BY <1>2, <2>1, <2>4, <2>7, <2>8, <1>3, JoinIs
  <2>10. /\ DOMAIN g.ps = DOMAIN h.ps \ {p}
         /\ \A a \in DOMAIN g.ps :
              /\ g.ps[a].parent = h.ps[a].parent /\ g.ps[a].lflags = h.ps[a].lflags
              /\ g.ps[a].next = IF a = q THEN h.ps[p].next ELSE h.ps[a].next
    BY <2>9 DEF Joined, Merges
  <2>11. q \in DOMAIN g.ps
    BY <2>1, <2>2, <2>3, <2>10, <1>3
  <2>12. MergedBut(g.ps, q)
    <3> SUFFICES ASSUME NEW a \in DOMAIN g.ps, a # q, g.ps[a].next # 0, g.ps[a].next # q, g.ps[a].lflags = 0
                 PROVE  g.ps[g.ps[a].next].lflags = 1
      BY DEF MergedBut
    <3>1. a \in DOMAIN h.ps /\ a # p /\ g.ps[a].next = h.ps[a].next /\ h.ps[a].lflags = 0
      BY <2>10
    <3>2. h.ps[a].next # p
      BY <1>2, <1>3, <1>4, <3>1
    <3>3. h.ps[h.ps[a].next].lflags = 1 /\ h.ps[a].next \in DOMAIN h.ps
      BY <1>4, <3>1, <3>2 DEF MergedBut
    <3> QED
      BY <2>10, <3>1, <3>2, <3>3
  <2>13. UsedBefore(g.ps, q)
    <3> SUFFICES ASSUME NEW a \in DOMAIN g.ps, g.ps[a].next = q, g.ps[a].lflags # 1 PROVE FALSE
      BY DEF UsedBefore
    <3>1. a \in DOMAIN h.ps /\ a # p /\ h.ps[a].lflags = 0
      BY <1>5, <2>10
    <3>2. a # q
      <4>1. h.ps[p].next # 0 => h.ps[p].next = p + 60 + h.ps[p].size /\ h.ps[p].size \in Nat
        BY <1>1, <1>3, HeaderFacts DEF PebbleOK, PEnd
      <4>2. h.ps[p].next # q
        BY <1>3, <2>1, <2>2, <2>3, <4>1
      <4> QED
        BY <2>10, <4>2
    <3>3. h.ps[a].next = q
      BY <2>10, <3>2
    <3> QED
      BY <1>3, <2>1, <2>2, <2>3, <3>1, <3>3 DEF MergedBut
  <2>14. g.ps[q].lflags = 0 /\ g.ps[q].parent = b
    BY <2>1, <2>10, <2>11
  <2> QED
    BY <1>2, <2>9, <2>11, <2>12, <2>13, <2>14 DEF Melted, Joined
<1> QED
  BY <1>7, <1>8

\* g is h after absorb_next.
Absorbed(h, g) ==
  g.end = h.end /\ DOMAIN g.bs = DOMAIN h.bs /\ Kept(h.ps, g.ps, {}) /\ Merged(g.ps)

\* absorb_next.
LEMMA AbsorbNext ==
  ASSUME NEW h, Core(h, DOMAIN h.bs), NEW p \in DOMAIN h.ps, h.ps[p].lflags = FREE,
         MergedBut(h.ps, p), UsedBefore(h.ps, p), NEW g, g = absorb_next(h, p)
  PROVE  Core(g, DOMAIN g.bs) /\ Absorbed(h, g)
<1>1. /\ IsHeap(h) /\ h.status = "ok" /\ Layout(h.ps, h.bs, h.end) /\ Chain(h.bs)
      /\ Cached(h.ps, h.bs, DOMAIN h.bs)
  BY DEF Core
<1>2. PICK q, b : q = h.ps[p].next /\ b = h.ps[p].parent
  OBVIOUS
<1>3. /\ p \in Nat /\ p > 0 /\ PebbleOK(h.ps, h.bs, p) /\ b \in DOMAIN h.bs /\ b \in Nat
      /\ h.ps[p].size \in Nat
  BY <1>1, <1>2, HeaderFacts
<1>4. \A a \in DOMAIN h.ps : h.ps[a].next # 0 => h.ps[a].next \in DOMAIN h.ps /\ h.ps[h.ps[a].next].prev = a
  BY <1>1, HeaderFacts DEF PebbleOK
<1>5. \A a \in DOMAIN h.ps : (IS_PEBBLE_FREE(h.ps[a]) <=> h.ps[a].lflags = 0) /\ h.ps[a].lflags \in {0, 1}
  BY <1>1, HeaderFacts DEF IS_PEBBLE_FREE
<1>6. q # 0 => q \in DOMAIN h.ps /\ q = p + 60 + h.ps[p].size /\ b + 64 <= p /\ h.ps[q].prev = p
  BY <1>2, <1>3 DEF PebbleOK, PEnd
<1>7. CASE q = 0 \/ h.ps[q].lflags = 1
  <2>1. g = h
    <3>1. q = 0 \/ ~IS_PEBBLE_FREE(h.ps[q])
      BY <1>5, <1>6, <1>7
    <3> QED
      BY <1>2, <3>1 DEF absorb_next
  <2>2. Merged(h.ps)
    BY <1>2, <1>7 DEF MergedBut, UsedBefore, Merged
  <2>3. Kept(h.ps, h.ps, {})
    BY DEF Kept
  <2> QED
    BY <2>1, <2>2, <2>3 DEF Absorbed
<1>8. CASE ~(q = 0 \/ h.ps[q].lflags = 1)
  <2>1. q \in DOMAIN h.ps /\ q # 0 /\ h.ps[q].lflags = 0 /\ h.ps[q].prev = p
    BY <1>5, <1>6, <1>8
  <2>2. PICK s : s = Swallow(h, p, q)
    OBVIOUS
  <2>3. /\ IsHeap(s) /\ s.bs = h.bs /\ s.end = h.end /\ s.ret = h.ret /\ s.status = h.status
        /\ Merges(h.ps, s.ps, p, q)
    BY <1>1, <1>2, <2>1, <2>2, SwallowIs
  <2>4. PICK x : x = [s EXCEPT !.bs[b].first = IF @ = q THEN p ELSE @]
    OBVIOUS
  <2>5. g = bucket_update_largest(x, b)
    <3>1. ~(q = 0 \/ ~IS_PEBBLE_FREE(h.ps[p]) \/ ~IS_PEBBLE_FREE(h.ps[q]))
      BY <1>5, <2>1
    <3> QED
      BY <1>2, <2>2, <2>4, <3>1, Zenon DEF absorb_next
  <2>6. PICK r : r = h.ret
    OBVIOUS
  <2>7. x = [ps |-> s.ps, bs |-> h.bs, end |-> h.end, ret |-> r, status |-> "ok"]
    <3>1. s = [ps |-> s.ps, bs |-> h.bs, end |-> h.end, ret |-> r, status |-> "ok"]
      BY <1>1, <2>3, <2>6 DEF IsHeap
    <3>2. PICK v : v = [h.bs EXCEPT ![b].first = IF @ = q THEN p ELSE @]
      OBVIOUS
    <3>3. h.bs \in [DOMAIN h.bs -> Buckets] /\ h.bs[b].first = b + 64
      BY <1>1, <1>3 DEF Layout, Typed, BucketOK
    <3>4. h.bs[b].first # q
      BY <1>3, <1>6, <2>1, <3>3
    <3>5. v = h.bs
      <4>1. b \in DOMAIN h.bs /\ h.bs \in [DOMAIN h.bs -> Buckets]
        BY <1>3, <3>3
      <4>2. PICK c : c = h.bs
        OBVIOUS
      <4>3. [c EXCEPT ![b].first = IF @ = q THEN p ELSE @] = c
        BY <3>4, <4>1, <4>2, SameFirst
      <4> QED
        BY <3>2, <4>2, <4>3
    <3>6. s.bs = h.bs
      BY <2>3
    <3>7. x = [s EXCEPT !.bs = v]
      BY <2>4, <3>1, <3>2, <3>6
    <3> QED
      BY <3>1, <3>5, <3>7
  <2>8. Core(g, DOMAIN g.bs) /\ Joined(h, g, p, q)
    BY <1>2, <2>1, <2>2, <2>5, <2>7, JoinIs
  <2>9. /\ DOMAIN g.ps = DOMAIN h.ps \ {q}
        /\ \A a \in DOMAIN g.ps :
             /\ g.ps[a].lflags = h.ps[a].lflags
             /\ g.ps[a].next = IF a = p THEN h.ps[q].next ELSE h.ps[a].next
    BY <2>8 DEF Joined, Merges
  <2>10. Merged(g.ps)
    <3> SUFFICES ASSUME NEW a \in DOMAIN g.ps, g.ps[a].next # 0, g.ps[a].lflags = 0
                 PROVE  g.ps[g.ps[a].next].lflags = 1
      BY DEF Merged
    <3>1. CASE a = p
      <4>1. g.ps[a].next = h.ps[q].next /\ h.ps[q].next \in DOMAIN h.ps
        BY <1>4, <2>1, <2>9, <3>1
      <4>2. h.ps[q].next = q + 60 + h.ps[q].size /\ h.ps[q].size \in Nat
        BY <1>1, <2>1, <4>1, HeaderFacts DEF PebbleOK, PEnd
      <4>3. h.ps[q].next # p /\ h.ps[q].next # q /\ q # p
        BY <1>3, <1>6, <2>1, <4>2
      <4>4. h.ps[h.ps[q].next].lflags = 1
        BY <2>1, <3>1, <4>1, <4>3 DEF MergedBut
      <4> QED
        BY <2>9, <4>1, <4>3, <4>4
    <3>2. CASE a # p
      <4>1. a \in DOMAIN h.ps /\ g.ps[a].next = h.ps[a].next /\ h.ps[a].lflags = 0
        BY <2>9, <3>2
      <4>2. h.ps[a].next # q /\ h.ps[a].next # p /\ h.ps[a].next \in DOMAIN h.ps
        BY <1>4, <2>1, <3>2, <4>1 DEF UsedBefore
      <4>3. h.ps[h.ps[a].next].lflags = 1
        BY <3>2, <4>1, <4>2 DEF MergedBut
      <4> QED
        BY <2>9, <4>1, <4>2, <4>3
    <3> QED
      BY <3>1, <3>2
  <2> QED
    BY <2>8, <2>10 DEF Absorbed, Joined
<1> QED
  BY <1>7, <1>8

\* In d bucket b of bs is no longer on the chain.
Unlinked(bs, d, b) ==
  /\ DOMAIN d = DOMAIN bs \ {b} /\ d \in [DOMAIN d -> Buckets]
  /\ \A a \in DOMAIN d :
       /\ d[a].size = bs[a].size /\ d[a].first = bs[a].first
       /\ d[a].largest_free = bs[a].largest_free
       /\ d[a].next = IF a = bs[b].prev THEN bs[b].next ELSE bs[a].next
       /\ d[a].prev = IF a = bs[b].next THEN bs[b].prev ELSE bs[a].prev

\* The links that remove_bucket sets.
Skip(bs, b) ==
  LET k == bs[b]
      bs1 == IF k.prev # Null THEN [bs EXCEPT ![k.prev].next = k.next] ELSE bs
      bs2 == IF k.next # Null THEN [bs1 EXCEPT ![k.next].prev = k.prev] ELSE bs1
  IN  Drop(bs2, {b})

\* remove_bucket, the links.
LEMMA SkipIs ==
  ASSUME NEW bs, bs \in [DOMAIN bs -> Buckets], DOMAIN bs \subseteq Nat, 0 \notin DOMAIN bs, Chain(bs),
         NEW b \in DOMAIN bs, b # KHEAPSTART, NEW d, d = Skip(bs, b)
  PROVE  Unlinked(bs, d, b)
<1>1. PICK p, n : p = bs[b].prev /\ n = bs[b].next
  OBVIOUS
<1>2. /\ p \in DOMAIN bs /\ p # 0 /\ bs[p].next = b
      /\ n # 0 => n \in DOMAIN bs
  BY <1>1 DEF Chain
<1>3. p \in Nat /\ n \in Nat
  BY <1>1, <1>2 DEF Buckets
<1>4. PICK e1 : e1 = [bs EXCEPT ![p].next = n]
  OBVIOUS
<1>5. PICK e2 : e2 = IF n # 0 THEN [e1 EXCEPT ![n].prev = p] ELSE e1
  OBVIOUS
<1>6. d = Drop(e2, {b})
  <2>1. Skip(bs, b) = LET bs2 == IF n # 0 THEN [e1 EXCEPT ![n].prev = p] ELSE e1 IN Drop(bs2, {b})
    BY <1>1, <1>2, <1>4, Zenon DEF Skip
  <2> QED
    BY <1>5, <2>1
<1>7. BucketLink(bs, e1, p, bs[p].prev, n)
  BY <1>2, <1>3, <1>4, LinkIs
<1>8. DOMAIN e1 = DOMAIN bs /\ e1 \in [DOMAIN e1 -> Buckets]
  BY <1>7 DEF BucketLink
<1>9. \A a \in DOMAIN bs :
        /\ e1[a].size = bs[a].size /\ e1[a].first = bs[a].first
        /\ e1[a].largest_free = bs[a].largest_free /\ e1[a].prev = bs[a].prev
        /\ e1[a].next = IF a = p THEN n ELSE bs[a].next
  <2> TAKE a \in DOMAIN bs
  <2>1. /\ e1[a].size = bs[a].size /\ e1[a].first = bs[a].first
        /\ e1[a].largest_free = bs[a].largest_free
        /\ a = p => e1[a].prev = bs[p].prev /\ e1[a].next = n
        /\ a # p => e1[a].prev = bs[a].prev /\ e1[a].next = bs[a].next
    BY <1>7, LinkFields
  <2> QED
    BY <2>1
<1>10. /\ DOMAIN e2 = DOMAIN bs /\ e2 \in [DOMAIN e2 -> Buckets]
       /\ \A a \in DOMAIN bs :
            /\ e2[a].size = e1[a].size /\ e2[a].first = e1[a].first
            /\ e2[a].largest_free = e1[a].largest_free /\ e2[a].next = e1[a].next
            /\ e2[a].prev = IF a = n THEN p ELSE e1[a].prev
  <2>1. CASE n = 0
    BY <1>5, <1>8, <2>1
  <2>2. CASE n # 0
    <3>1. e2 = [e1 EXCEPT ![n].prev = p] /\ n \in DOMAIN e1
      BY <1>2, <1>5, <1>8, <2>2
    <3>2. BucketLink(e1, e2, n, p, e1[n].next)
      BY <1>3, <1>8, <3>1, LinkIs
    <3>3. DOMAIN e2 = DOMAIN bs /\ e2 \in [DOMAIN e2 -> Buckets]
      BY <1>8, <3>2 DEF BucketLink
    <3>4. ASSUME NEW a \in DOMAIN bs
          PROVE  /\ e2[a].size = e1[a].size /\ e2[a].first = e1[a].first
                 /\ e2[a].largest_free = e1[a].largest_free
                 /\ a = n => e2[a].prev = p /\ e2[a].next = e1[n].next
                 /\ a # n => e2[a].prev = e1[a].prev /\ e2[a].next = e1[a].next
      <4>1. a \in DOMAIN e1
        BY <1>8
      <4> QED
        BY <3>2, <4>1, LinkFields
    <3> QED
      BY <3>3, <3>4
  <2> QED
    BY <2>1, <2>2
<1>11. /\ DOMAIN d = DOMAIN bs \ {b} /\ d \in [DOMAIN d -> Buckets]
       /\ \A a \in DOMAIN d : d[a] = e2[a]
  BY <1>6, <1>10 DEF Drop
<1> QED
  BY <1>1, <1>9, <1>10, <1>11 DEF Unlinked

\* The chain closes over the gap.
LEMMA SkipChain ==
  ASSUME NEW bs, DOMAIN bs \subseteq Nat, 0 \notin DOMAIN bs, Chain(bs), KHEAPSTART > 0,
         NEW b \in DOMAIN bs, b # KHEAPSTART, NEW d, Unlinked(bs, d, b)
  PROVE  Chain(d)
<1> DEFINE h == KHEAPSTART
<1>1. PICK p, n : p = bs[b].prev /\ n = bs[b].next
  OBVIOUS
<1>2. /\ h \in DOMAIN bs /\ bs[h].prev = 0
      /\ \A a \in DOMAIN bs : bs[a].next # 0 =>
           /\ bs[a].next \in DOMAIN bs /\ bs[bs[a].next].prev = a
           /\ bs[a].next # h /\ (a # h => bs[a].next < a)
      /\ \A a \in DOMAIN bs \ {h} : bs[a].prev \in DOMAIN bs /\ bs[bs[a].prev].next = a
  BY DEF Chain
<1>3. /\ DOMAIN d = DOMAIN bs \ {b}
      /\ \A a \in DOMAIN d :
           /\ d[a].next = IF a = p THEN n ELSE bs[a].next
           /\ d[a].prev = IF a = n THEN p ELSE bs[a].prev
  BY <1>1 DEF Unlinked
<1>4. /\ p \in DOMAIN bs /\ bs[p].next = b /\ p # b /\ (p # h => b < p)
      /\ n # 0 => n \in DOMAIN bs /\ bs[n].prev = b /\ n # h /\ n < b /\ n # b
  <2>1. p \in DOMAIN bs /\ bs[p].next = b
    BY <1>1, <1>2
  <2>2. n # 0 => n \in DOMAIN bs /\ bs[n].prev = b /\ n # h /\ n < b
    BY <1>1, <1>2
  <2>3. p # h => b < p
    BY <1>2, <2>1
  <2>4. p # b /\ (n # 0 => n # b)
    BY <2>1, <2>2, <2>3
  <2> QED
    BY <2>1, <2>2, <2>3, <2>4
<1>5. p # n
  BY <1>2, <1>4
<1>6. ASSUME NEW a \in DOMAIN d, d[a].next # 0
      PROVE  /\ d[a].next \in DOMAIN d /\ d[d[a].next].prev = a
             /\ d[a].next # h /\ (a # h => d[a].next < a)
  <2>1. CASE a = p
    <3>1. d[a].next = n /\ n # 0
      BY <1>3, <1>6, <2>1
    <3>2. n \in DOMAIN d /\ d[n].prev = p
      BY <1>3, <1>4, <3>1
    <3>3. a # h => n < a
      BY <1>4, <2>1, <3>1
    <3> QED
      BY <1>4, <2>1, <3>1, <3>2, <3>3
  <2>2. CASE a # p
    <3>1. d[a].next = bs[a].next /\ a \in DOMAIN bs /\ a # b
      BY <1>3, <2>2
    <3>2. /\ bs[a].next \in DOMAIN bs /\ bs[bs[a].next].prev = a
          /\ bs[a].next # h /\ (a # h => bs[a].next < a)
      BY <1>2, <1>6, <3>1
    <3>3. bs[a].next # b /\ bs[a].next # n
      BY <1>1, <1>4, <1>6, <2>2, <3>1, <3>2
    <3> QED
      BY <1>3, <3>1, <3>2, <3>3
  <2> QED
    BY <2>1, <2>2
<1>7. ASSUME NEW a \in DOMAIN d \ {h}
      PROVE  d[a].prev \in DOMAIN d /\ d[d[a].prev].next = a
  <2>1. CASE a = n
    BY <1>3, <1>4, <2>1
  <2>2. CASE a # n
    <3>1. d[a].prev = bs[a].prev /\ bs[a].prev \in DOMAIN bs /\ bs[bs[a].prev].next = a /\ a # b
      BY <1>2, <1>3, <2>2
    <3>2. bs[a].prev # b /\ bs[a].prev # p
      BY <1>1, <1>4, <2>2, <3>1
    <3> QED
      BY <1>3, <3>1, <3>2
  <2> QED
    BY <2>1, <2>2
<1>8. h \in DOMAIN d /\ d[h].prev = 0
  BY <1>2, <1>3, <1>4
<1> QED
  BY <1>6, <1>7, <1>8 DEF Chain

\* Bucket b has no pebble but its first.
Lone(ps, b) == \A p \in DOMAIN ps : ps[p].parent = b => p = b + BUCKET

\* A bucket whose first pebble has no next has no other pebble: the bytes that
\* remove_bucket unmaps hold the header of that one only.
LEMMA LonePebble ==
  ASSUME NEW ps, NEW bs, NEW end, Layout(ps, bs, end), NEW b \in DOMAIN bs, ps[b + 64].next = 0
  PROVE  /\ Lone(ps, b)
         /\ {p \in DOMAIN ps : p >= b /\ p < b + bs[b].size * PAGESIZE} = {b + 64}
<1>1. \A a \in DOMAIN bs : a \in Nat /\ BEnd(bs, a) \in Nat /\ BucketOK(ps, bs, end, a)
  BY DEF Layout, Typed, Buckets, BEnd
<1>2. b + 64 \in DOMAIN ps /\ ps[b + 64].parent = b
  BY <1>1 DEF BucketOK
<1>3. (b + 64) + 60 + ps[b + 64].size = BEnd(bs, b) /\ ps[b + 64].size \in Nat
  BY <1>2, HeaderFacts DEF PebbleOK, PEnd
<1>4. ASSUME NEW p \in DOMAIN ps
      PROVE  /\ p \in Nat /\ ps[p].parent \in DOMAIN bs /\ ps[p].parent + 64 <= p
             /\ p + 60 + ps[p].size <= BEnd(bs, ps[p].parent) /\ ps[p].size \in Nat
             /\ b + 64 < p => BEnd(bs, b) <= p
  <2>1. /\ p \in Nat /\ ps[p].parent \in DOMAIN bs /\ ps[p].parent + 64 <= p
        /\ p + 60 + ps[p].size <= BEnd(bs, ps[p].parent) /\ ps[p].size \in Nat
    BY HeaderFacts DEF PebbleOK, PEnd
  <2>2. b + 64 < p => (b + 64) + 60 + ps[b + 64].size <= p
    BY <1>2 DEF Layout, Apart, PEnd
  <2> QED
    BY <1>3, <2>1, <2>2
<1>5. ASSUME NEW p \in DOMAIN ps, ps[p].parent = b
      PROVE  p = b + 64
  BY <1>1, <1>4, <1>5
<1>6. ASSUME NEW p \in DOMAIN ps, p >= b, p < BEnd(bs, b)
      PROVE  p = b + 64
  <2>1. PICK c \in DOMAIN bs : c = ps[p].parent
    BY <1>4
  <2>2. (c < b => BEnd(bs, c) <= b) /\ (b < c => BEnd(bs, b) <= c)
    BY <1>1 DEF BucketOK
  <2>3. c = b
    BY <1>1, <1>4, <1>6, <2>1, <2>2
  <2> QED
    BY <1>5, <2>1, <2>3
<1>7. b + 64 >= b /\ b + 64 < BEnd(bs, b)
  BY <1>1, <1>3
<1>8. BEnd(bs, b) = b + bs[b].size * 4096
  BY DEF BEnd
<1> QED
  BY <1>2, <1>5, <1>6, <1>7, <1>8 DEF Lone

\* The layout without an empty bucket.
LEMMA RemoveLayout ==
  ASSUME NEW ps, NEW bs, NEW end, Layout(ps, bs, end), NEW b \in DOMAIN bs,
         Lone(ps, b), NEW d, Unlinked(bs, d, b), NEW r, r = Drop(ps, {b + 64})
  PROVE  Layout(r, d, end)
<1>1. /\ DOMAIN r = DOMAIN ps \ {b + 64} /\ \A p \in DOMAIN r : r[p] = ps[p]
  BY DEF Drop
<1>2. /\ DOMAIN d = DOMAIN bs \ {b} /\ d \in [DOMAIN d -> Buckets]
      /\ \A a \in DOMAIN d : d[a].size = bs[a].size /\ d[a].first = bs[a].first
  BY DEF Unlinked
<1>3. \A a \in DOMAIN d : BEnd(d, a) = BEnd(bs, a)
  BY <1>2 DEF BEnd
<1>4. \A p \in DOMAIN r : PEnd(r, p) = PEnd(ps, p)
  BY <1>1 DEF PEnd
<1>5. b + 64 \in DOMAIN ps /\ ps[b + 64].parent = b
  BY DEF Layout, BucketOK
<1>6. Typed(r, d, end)
  <2>1. IsFiniteSet(DOMAIN r) /\ IsFiniteSet(DOMAIN d)
    BY <1>1, <1>2, FS_RemoveElement DEF Layout, Typed
  <2>2. r \in [DOMAIN r -> Pebbles]
    <3>1. r = [a \in DOMAIN r |-> r[a]]
      BY DEF Drop
    <3>2. \A a \in DOMAIN r : r[a] \in Pebbles
      BY <1>1 DEF Layout, Typed
    <3> QED
      BY <3>1, <3>2
  <2> QED
    BY <1>1, <1>2, <2>1, <2>2 DEF Layout, Typed
<1>7. Apart(r)
  BY <1>1, <1>4 DEF Layout, Apart
<1>8. ASSUME NEW p \in DOMAIN r
      PROVE  PebbleOK(r, d, p)
  <2>1. PebbleOK(ps, bs, p) /\ p \in DOMAIN ps /\ ps[p].parent # b
    BY <1>1 DEF Layout, Lone
  <2>2. /\ ps[p].prev # 0 => ps[p].prev \in DOMAIN r
        /\ ps[p].next # 0 => ps[p].next \in DOMAIN r
    BY <1>1, <1>5, <2>1 DEF PebbleOK
  <2>3. /\ r[p] = ps[p] /\ PEnd(r, p) = PEnd(ps, p)
        /\ ps[p].prev # 0 => r[ps[p].prev] = ps[ps[p].prev]
        /\ ps[p].next # 0 => r[ps[p].next] = ps[ps[p].next]
    BY <1>1, <1>4, <2>2
  <2>4. ps[p].parent \in DOMAIN d
    BY <1>2, <2>1 DEF PebbleOK
  <2>5. BEnd(d, ps[p].parent) = BEnd(bs, ps[p].parent)
    BY <1>3, <2>4
  <2> QED
    BY <2>1, <2>2, <2>3, <2>4, <2>5 DEF PebbleOK
<1>9. ASSUME NEW a \in DOMAIN d
      PROVE  BucketOK(r, d, end, a)
  <2>1. BucketOK(ps, bs, end, a) /\ a # b
    BY <1>2 DEF Layout
  <2>2. a + 64 \in DOMAIN r
    BY <1>1, <1>5, <2>1 DEF BucketOK
  <2> QED
    BY <1>1, <1>2, <1>3, <2>1, <2>2 DEF BucketOK
<1> QED
  BY <1>1, <1>6, <1>7, <1>8, <1>9 DEF Layout

\* The first pebble of a bucket has no prev.
LEMMA FirstPebble ==
  ASSUME NEW ps, NEW bs, NEW end, Layout(ps, bs, end), NEW b \in DOMAIN bs
  PROVE  b + 64 \in DOMAIN ps /\ ps[b + 64].parent = b /\ ps[b + 64].prev = Null
<1>1. PICK p \in DOMAIN ps : p = b + 64 /\ ps[p].parent = b
  BY DEF Layout, BucketOK
<1>2. PebbleOK(ps, bs, p) /\ p \in Nat
  BY HeaderFacts
<1>3. ps[p].prev = 0
  <2> SUFFICES ASSUME ps[p].prev # 0 PROVE FALSE
    OBVIOUS
  <2>1. PICK q \in DOMAIN ps : ps[q].parent = b /\ ps[q].next = p
    BY <1>1, <1>2 DEF PebbleOK
  <2>2. q \in Nat /\ ps[q].size \in Nat /\ p > 0 /\ PebbleOK(ps, bs, q)
    BY HeaderFacts
  <2>3. b + 64 <= q /\ p = q + 60 + ps[q].size
    BY <2>1, <2>2 DEF PebbleOK, PEnd
  <2> QED
    BY <1>1, <1>2, <2>2, <2>3
<1> QED
  BY <1>1, <1>3

\* g is h after its bucket b was released or refreshed.
Released(h, g, b) ==
  /\ g.end = h.end /\ DOMAIN g.bs \subseteq DOMAIN h.bs /\ Merged(g.ps) /\ Kept(h.ps, g.ps, {})
  /\ b \in DOMAIN g.bs \ {KHEAPSTART} => Used(g.ps, b)

\* The end of kfree.
LEMMA ReleaseIs ==
  ASSUME NEW h, Core(h, DOMAIN h.bs), Merged(h.ps), NEW b \in DOMAIN h.bs,
         NEW g, g = ReleaseBucket(h, b)
  PROVE  Core(g, DOMAIN g.bs) /\ Released(h, g, b)
<1>1. /\ IsHeap(h) /\ h.status = "ok" /\ Layout(h.ps, h.bs, h.end) /\ Chain(h.bs)
      /\ Cached(h.ps, h.bs, DOMAIN h.bs)
  BY DEF Core
<1>2. PICK p \in DOMAIN h.ps : p = b + 64 /\ p = h.bs[b].first /\ h.ps[p].parent = b
  BY <1>1 DEF Layout, BucketOK
<1>3. (IS_PEBBLE_FREE(h.ps[p]) <=> h.ps[p].lflags = 0) /\ h.ps[p].lflags \in {0, 1}
  BY <1>1, HeaderFacts DEF IS_PEBBLE_FREE
<1>4. Kept(h.ps, h.ps, {})
  BY DEF Kept
<1>5. CASE ~(IS_PEBBLE_FREE(h.ps[p]) /\ h.ps[p].prev = 0 /\ h.ps[p].next = 0)
  <2>1. g = bucket_update_largest(h, b)
    BY <1>2, <1>5 DEF ReleaseBucket
  <2>2. /\ Core(g, DOMAIN h.bs \cup {b}) /\ Refreshes(h.bs, g.bs, b)
        /\ g.ps = h.ps /\ g.end = h.end /\ g.ret = h.ret
    BY <2>1, UpdateLargest
  <2>3. DOMAIN g.bs = DOMAIN h.bs /\ DOMAIN h.bs \cup {b} = DOMAIN h.bs
    BY <2>2 DEF Refreshes
  <2>4. Used(h.ps, b)
    <3>1. CASE h.ps[p].lflags = 1
      BY <1>2, <3>1 DEF Used, Kids
    <3>2. CASE h.ps[p].lflags = 0
      <4>1. PebbleOK(h.ps, h.bs, p) /\ p \in Nat
        BY <1>1, HeaderFacts
      <4>2. h.ps[p].prev = 0
        BY <1>1, <1>2, FirstPebble
      <4>3. h.ps[p].next # 0
        BY <1>3, <1>5, <3>2, <4>2
      <4>4. h.ps[p].next \in DOMAIN h.ps /\ h.ps[h.ps[p].next].parent = b
        BY <1>2, <4>1, <4>3 DEF PebbleOK
      <4>5. h.ps[h.ps[p].next].lflags = 1
        BY <3>2, <4>3 DEF Merged
      <4> QED
        BY <4>4, <4>5 DEF Used, Kids
    <3> QED
      BY <1>3, <3>1, <3>2
  <2> QED
    BY <1>4, <2>2, <2>3, <2>4 DEF Released
<1>6. CASE IS_PEBBLE_FREE(h.ps[p]) /\ h.ps[p].prev = 0 /\ h.ps[p].next = 0
  <2>1. g = remove_bucket(h, b)
    BY <1>2, <1>6 DEF ReleaseBucket
  <2>2. CASE b = KHEAPSTART
    <3>1. g = h
      BY <2>1, <2>2 DEF remove_bucket
    <3> QED
      BY <1>4, <2>2, <3>1 DEF Released
  <2>3. CASE b # KHEAPSTART
    <3>1. PICK d : d = Skip(h.bs, b)
      OBVIOUS
    <3>2. PICK S : S = {a \in DOMAIN h.ps : a >= b /\ a < b + h.bs[b].size * 4096}
      OBVIOUS
    <3>3. g = Removing(h, d, Drop(h.ps, S))
      <4>1. remove_bucket(h, b)
              = Removing(h, Skip(h.bs, b),
                  Drop(h.ps, {a \in DOMAIN h.ps : a >= b /\ a < b + h.bs[b].size * 4096}))
        BY <2>3, Zenon DEF remove_bucket, Removing, Skip
      <4> QED
        BY <2>1, <3>1, <3>2, <4>1
    <3>4. S = {b + 64} /\ Lone(h.ps, b)
      BY <1>1, <1>2, <1>6, <3>2, LonePebble
    <3>5. PICK r : r = Drop(h.ps, {b + 64})
      OBVIOUS
    <3>6. g = [ps |-> r, bs |-> d, end |-> h.end, ret |-> h.ret, status |-> h.status]
      <4>1. g = Removing(h, d, r)
        BY <3>3, <3>4, <3>5
      <4> QED
        BY <1>1, <4>1, HeapExcept
    <3>7. /\ h.bs \in [DOMAIN h.bs -> Buckets] /\ DOMAIN h.bs \subseteq Nat /\ 0 \notin DOMAIN h.bs
      <4>1. \A a \in DOMAIN h.bs : a \in Nat /\ a >= KHEAPSTART
        BY <1>1 DEF Layout, Typed, BucketOK
      <4>2. 0 \notin DOMAIN h.bs
        BY <4>1, HeapFacts
      <4> QED
        BY <1>1, <4>2 DEF Layout, Typed
    <3>8. Unlinked(h.bs, d, b)
      BY <1>1, <2>3, <3>1, <3>7, SkipIs
    <3>9. Chain(d)
      <4>1. KHEAPSTART > 0
        BY HeapFacts
      <4> QED
        BY <1>1, <2>3, <3>7, <3>8, <4>1, SkipChain
    <3>10. Layout(r, d, h.end) /\ DOMAIN r = DOMAIN h.ps \ {b + 64} /\ \A a \in DOMAIN r : r[a] = h.ps[a]
      <4>1. Layout(r, d, h.end)
        BY <1>1, <3>4, <3>5, <3>8, RemoveLayout
      <4> QED
        BY <3>5, <4>1 DEF Drop
    <3>11. /\ DOMAIN d = DOMAIN h.bs \ {b}
           /\ \A a \in DOMAIN d : d[a].largest_free = h.bs[a].largest_free
      BY <3>8 DEF Unlinked
    <3>12. Cached(r, d, DOMAIN d)
      <4> SUFFICES ASSUME NEW a \in DOMAIN r, r[a].parent \in DOMAIN d
                   PROVE  r[a].size <= d[r[a].parent].largest_free
        BY DEF Cached
      <4>1. a \in DOMAIN h.ps /\ r[a] = h.ps[a] /\ h.ps[a].parent \in DOMAIN h.bs
        BY <3>10, <3>11
      <4> QED
        BY <1>1, <3>11, <4>1 DEF Cached
    <3>13. Kept(h.ps, r, {})
      <4>1. h.ps[p].lflags = 0
        BY <1>3, <1>6
      <4> QED
        BY <1>2, <3>10, <4>1 DEF Kept
    <3>14. Merged(r)
      <4> SUFFICES ASSUME NEW a \in DOMAIN r, r[a].next # 0, r[a].lflags = 0
                   PROVE  r[r[a].next].lflags = 1
        BY DEF Merged
      <4>1. r[a].next \in DOMAIN r
        BY <3>10, HeaderFacts DEF PebbleOK
      <4> QED
        BY <3>10, <4>1 DEF Merged
    <3>15. /\ g.ps = r /\ g.bs = d /\ g.end = h.end /\ g.ret = h.ret /\ g.status = h.status
           /\ IsHeap(g)
      BY <3>6 DEF IsHeap
    <3>16. Core(g, DOMAIN g.bs)
      BY <1>1, <3>9, <3>10, <3>12, <3>15 DEF Core
    <3> QED
      BY <3>11, <3>13, <3>14, <3>15, <3>16 DEF Released
  <2> QED
    BY <2>2, <2>3
<1> QED
  BY <1>5, <1>6

\* g is h without the block behind header p.
Freed(h, g, p) ==
  /\ g.end = h.end /\ DOMAIN g.bs \subseteq DOMAIN h.bs /\ Merged(g.ps) /\ Kept(h.ps, g.ps, {p})
  /\ h.ps[p].parent \in DOMAIN g.bs \ {KHEAPSTART} => Used(g.ps, h.ps[p].parent)

\* kfree of a block.
LEMMA KfreeIs ==
  ASSUME NEW h, Core(h, DOMAIN h.bs), Merged(h.ps), NEW ptr, NEW n \in Nat, Block(h.ps, ptr, n),
         NEW g, g = kfree(h, ptr)
  PROVE  Core(g, DOMAIN g.bs) /\ Freed(h, g, ptr - PEBBLE)
<1>1. /\ IsHeap(h) /\ h.status = "ok" /\ Layout(h.ps, h.bs, h.end) /\ Chain(h.bs)
      /\ Cached(h.ps, h.bs, DOMAIN h.bs)
  BY DEF Core
<1>2. PICK p \in DOMAIN h.ps : p = ptr - 60 /\ ptr # 0
  BY DEF Block, InUse
<1>3. PICK b : b = h.ps[p].parent
  OBVIOUS
<1>4. /\ b \in DOMAIN h.bs /\ h.ps[p].magic /\ PebbleOK(h.ps, h.bs, p)
  BY <1>1, <1>3, HeaderFacts DEF Pebbles
<1>5. PICK r : r = [h.ps EXCEPT ![p].lflags = 0]
  OBVIOUS
<1>6. Marks(h.ps, r, p, 0)
  <2>1. 0 \in {0, 1}
    OBVIOUS
  <2> QED
    BY <1>1, <1>5, <2>1, MarkIs
<1>7. Layout(r, h.bs, h.end)
  BY <1>1, <1>6, MarkLayout
<1>8. PICK m : m = [h EXCEPT !.ps[p].lflags = 0]
  OBVIOUS
<1>9. m = [ps |-> r, bs |-> h.bs, end |-> h.end, ret |-> h.ret, status |-> h.status]
  <2>1. m = [h EXCEPT !.ps = r]
    BY <1>1, <1>5, <1>8 DEF IsHeap
  <2>2. PICK p0, b0, e0, r0, s0 : /\ p0 = h.ps /\ b0 = h.bs /\ e0 = h.end /\ r0 = h.ret
                                  /\ s0 = h.status
    OBVIOUS
  <2>3. h = [ps |-> p0, bs |-> b0, end |-> e0, ret |-> r0, status |-> s0]
    BY <1>1, <2>2 DEF IsHeap
  <2>4. [h EXCEPT !.ps = r] = [ps |-> r, bs |-> b0, end |-> e0, ret |-> r0, status |-> s0]
    BY <2>3, HeapField
  <2> QED
    BY <2>1, <2>2, <2>4
<1>10. /\ m.ps = r /\ m.bs = h.bs /\ m.end = h.end /\ m.status = h.status /\ IsHeap(m)
  BY <1>9 DEF IsHeap
<1>11. /\ DOMAIN r = DOMAIN h.ps /\ r[p].lflags = 0
       /\ \A a \in DOMAIN h.ps : /\ r[a].parent = h.ps[a].parent /\ r[a].size = h.ps[a].size
                                 /\ r[a].next = h.ps[a].next
                                 /\ a # p => r[a].lflags = h.ps[a].lflags
  BY <1>6 DEF Marks
<1>12. Core(m, DOMAIN m.bs)
  <2>1. Cached(r, h.bs, DOMAIN h.bs)
    BY <1>1, <1>11 DEF Cached
  <2> QED
    BY <1>1, <1>7, <1>10, <2>1 DEF Core
<1>13. MergedBut(r, p)
  <2> SUFFICES ASSUME NEW a \in DOMAIN r \ {p}, r[a].next # 0, r[a].next # p, r[a].lflags = 0
               PROVE  r[r[a].next].lflags = 1
    BY DEF MergedBut
  <2>1. a \in DOMAIN h.ps /\ h.ps[a].next = r[a].next /\ h.ps[a].lflags = 0
    BY <1>11
  <2>2. h.ps[a].next \in DOMAIN h.ps
    BY <1>1, <2>1, HeaderFacts DEF PebbleOK
  <2> QED
    BY <1>11, <2>1, <2>2 DEF Merged
<1>14. PICK x : x = melt_prev(m, p)
  OBVIOUS
<1>15. Core(x, DOMAIN x.bs) /\ Melted(m, x, p)
  <2>1. p \in DOMAIN m.ps /\ m.ps[p].lflags = 0 /\ MergedBut(m.ps, p)
    BY <1>10, <1>11, <1>13
  <2> QED
    BY <1>12, <1>14, <2>1, MeltPrev
<1>16. PICK t : t = x.ret
  OBVIOUS
<1>17. PICK y : y = absorb_next(x, t)
  OBVIOUS
<1>18. Core(y, DOMAIN y.bs) /\ Absorbed(x, y)
  <2>1. /\ t \in DOMAIN x.ps /\ x.ps[t].lflags = 0 /\ MergedBut(x.ps, t) /\ UsedBefore(x.ps, t)
    BY <1>15, <1>16 DEF Melted
  <2> QED
    BY <1>15, <1>17, <2>1, AbsorbNext
<1>19. b \in DOMAIN y.bs /\ Merged(y.ps) /\ DOMAIN y.bs = DOMAIN h.bs /\ y.end = h.end
  BY <1>4, <1>10, <1>15, <1>18 DEF Melted, Absorbed
<1>20. g = ReleaseBucket(y, b)
  <2>1. {h.ps[p].prev, h.ps[p].next} \subseteq DOMAIN h.ps \cup {0}
    BY <1>4 DEF PebbleOK
  <2>2. Traversal(h.ps, h.bs[b].first) = "ok"
    BY <1>1, <1>4, PebbleList DEF Traversal
  <2>3. x.status = "ok"
    BY <1>15 DEF Core
  <2>4. kfree(h, ptr) = LET k == h.ps[p] IN ReleaseBucket(absorb_next(x, x.ret), k.parent)
    BY <1>2, <1>3, <1>4, <1>8, <1>14, <2>1, <2>2, <2>3, Zenon DEF kfree
  <2> QED
    BY <1>3, <1>16, <1>17, <2>4
<1>21. Core(g, DOMAIN g.bs) /\ Released(y, g, b)
  BY <1>18, <1>19, <1>20, ReleaseIs
<1>22. Kept(h.ps, g.ps, {p})
  <2>1. Kept(h.ps, r, {p})
    BY <1>11 DEF Kept
  <2>2. Kept(r, x.ps, {}) /\ Kept(x.ps, y.ps, {}) /\ Kept(y.ps, g.ps, {})
    BY <1>10, <1>15, <1>18, <1>21 DEF Melted, Absorbed, Released
  <2> QED
    BY <2>1, <2>2 DEF Kept
<1> QED
  BY <1>2, <1>3, <1>19, <1>21, <1>22 DEF Freed, Released

\* kfree, whatever it is given, leaves the end alone.
LEMMA EndFree ==
  ASSUME NEW h, IsHeap(h), NEW ptr
  PROVE  SameEnd(h, kfree(h, ptr))
<1>0. SameEnd(h, h) /\ \A s : SameEnd(h, [h EXCEPT !.status = s])
  BY EndFields DEF SameEnd
<1>1. ASSUME NEW x, IsHeap(x), NEW b
      PROVE  SameEnd(x, ReleaseBucket(x, b))
  <2>1. SameEnd(x, bucket_update_largest(x, b)) /\ SameEnd(x, x)
    BY <1>1, EndUpdate DEF SameEnd
  <2>2. SameEnd(x, remove_bucket(x, b))
    <3>1. PICK d, r : /\ d = Skip(x.bs, b)
                      /\ r = Drop(x.ps, {a \in DOMAIN x.ps : a >= b /\ a < b + x.bs[b].size * 4096})
      OBVIOUS
    <3>2. b # KHEAPSTART => remove_bucket(x, b) = Removing(x, d, r)
      <4>1. b # KHEAPSTART => remove_bucket(x, b)
              = Removing(x, Skip(x.bs, b),
                  Drop(x.ps, {a \in DOMAIN x.ps : a >= b /\ a < b + x.bs[b].size * 4096}))
        BY Zenon DEF remove_bucket, Removing, Skip
      <4> QED
        BY <3>1, <4>1
    <3>3. Removing(x, d, r) = [ps |-> r, bs |-> d, end |-> x.end, ret |-> x.ret, status |-> x.status]
      BY <1>1, HeapExcept
    <3>4. SameEnd(x, Removing(x, d, r))
      BY <3>3 DEF SameEnd, IsHeap
    <3>5. b = KHEAPSTART => remove_bucket(x, b) = x
      BY DEF remove_bucket
    <3> QED
      BY <2>1, <3>2, <3>4, <3>5
  <2> QED
    BY <2>1, <2>2, Zenon DEF ReleaseBucket
<1>2. PICK p : p = ptr - 60
  OBVIOUS
<1>3. PICK m : m = [h EXCEPT !.ps[p].lflags = 0]
  OBVIOUS
<1>4. SameEnd(h, m)
  <2>1. PICK r : r = [h.ps EXCEPT ![p].lflags = 0]
    OBVIOUS
  <2>2. m = [h EXCEPT !.ps = r]
    BY <1>3, <2>1 DEF IsHeap
  <2> QED
    BY <2>2, EndFields
<1>5. PICK x, y, b : x = melt_prev(m, p) /\ y = absorb_next(x, x.ret) /\ b = h.ps[p].parent
  OBVIOUS
<1>6. SameEnd(m, x) /\ SameEnd(x, y) /\ SameEnd(y, ReleaseBucket(y, b))
  <2>1. SameEnd(m, x)
    BY <1>4, <1>5, EndMerge DEF SameEnd
  <2>2. SameEnd(x, y)
    BY <2>1, <1>5, EndMerge DEF SameEnd
  <2> QED
    BY <1>1, <2>1, <2>2 DEF SameEnd
<1>7. SameEnd(h, x) /\ SameEnd(h, ReleaseBucket(y, b))
  BY <1>4, <1>6 DEF SameEnd
<1>8. \/ kfree(h, ptr) = h
      \/ \E s : kfree(h, ptr) = [h EXCEPT !.status = s]
      \/ kfree(h, ptr) = x
      \/ kfree(h, ptr) = ReleaseBucket(y, b)
  BY <1>2, <1>3, <1>5, Zenon DEF kfree
<1> QED
  BY <1>0, <1>7, <1>8

-----------------------------------------------------------------------------
(* krealloc, and what the three calls have in common.                       *)

\* g is h after a call that was given the block behind header p (Null for none)
\* and asked for m bytes.
Called(h, g, p, m) ==
  /\ Merged(g.ps) /\ Kept(h.ps, g.ps, {p})
  /\ g.ret # Null => /\ Block(g.ps, g.ret, m)
                     /\ g.ret - PEBBLE = p \/ ~InUse(h.ps, g.ret - PEBBLE)
                     /\ \A b \in DOMAIN g.bs \ DOMAIN h.bs : Used(g.ps, b)
  /\ \A b \in (DOMAIN g.bs \cap DOMAIN h.bs) \ {KHEAPSTART} : Used(h.ps, b) => Used(g.ps, b)

\* A bucket in use stays in use with its pebbles.
LEMMA UsedKept ==
  ASSUME NEW ps, NEW r, NEW p, Kept(ps, r, {p}), NEW b, Used(ps, b), p \in DOMAIN ps => ps[p].parent # b
  PROVE  Used(r, b)
BY DEF Kept, Used, Kids

Returning(h, v) == [h EXCEPT !.ret = v]

\* The return value of a call replaced.
LEMMA RetIs ==
  ASSUME NEW h, Core(h, DOMAIN h.bs), NEW v, NEW g, g = Returning(h, v)
  PROVE  Core(g, DOMAIN g.bs) /\ g.ps = h.ps /\ g.bs = h.bs /\ g.end = h.end /\ g.ret = v
<1>1. h = [ps |-> h.ps, bs |-> h.bs, end |-> h.end, ret |-> h.ret, status |-> h.status]
  BY DEF Core, IsHeap
<1>2. PICK p0, b0, e0, r0, s0 : /\ p0 = h.ps /\ b0 = h.bs /\ e0 = h.end /\ r0 = h.ret
                                /\ s0 = h.status
  OBVIOUS
<1>3. h = [ps |-> p0, bs |-> b0, end |-> e0, ret |-> r0, status |-> s0]
  BY <1>1, <1>2
<1>4. g = [ps |-> p0, bs |-> b0, end |-> e0, ret |-> v, status |-> s0]
  BY <1>3, HeapField DEF Returning
<1>5. /\ g.ps = h.ps /\ g.bs = h.bs /\ g.end = h.end /\ g.ret = v /\ g.status = h.status
      /\ IsHeap(g)
  BY <1>2, <1>4 DEF IsHeap
<1> QED
  BY <1>5 DEF Core

\* kmalloc is given no block.
LEMMA KmallocCalled ==
  ASSUME NEW h, Core(h, DOMAIN h.bs), Merged(h.ps), NEW n \in Nat, GoodSize(n),
         NEW g, g = kmalloc(h, n), g.end <= MAXHEAP
  PROVE  Core(g, DOMAIN g.bs) /\ Called(h, g, Null, n)
<1>1. Core(g, DOMAIN g.bs) /\ Allotted(h, g, n)
  BY KmallocIs
<1>2. 0 \notin DOMAIN h.ps
  BY HeaderFacts DEF Core
<1>3. Kept(h.ps, g.ps, {0})
  BY <1>1 DEF Allotted, Kept
<1>4. \A b : Used(h.ps, b) => Used(g.ps, b)
  BY <1>2, <1>3, UsedKept
<1> QED
  BY <1>1, <1>3, <1>4 DEF Allotted, Called

\* kfree returns nothing.
LEMMA KfreeCalled ==
  ASSUME NEW h, Core(h, DOMAIN h.bs), Merged(h.ps), NEW ptr, NEW n \in Nat, Block(h.ps, ptr, n),
         NEW m, NEW g, g = Returning(kfree(h, ptr), Null)
  PROVE  Core(g, DOMAIN g.bs) /\ Called(h, g, ptr - PEBBLE, m) /\ DOMAIN g.bs \subseteq DOMAIN h.bs
<1>1. PICK z : z = kfree(h, ptr)
  OBVIOUS
<1>2. PICK p : p = ptr - 60
  OBVIOUS
<1>3. Core(z, DOMAIN z.bs) /\ Freed(h, z, p)
  BY <1>1, <1>2, KfreeIs
<1>4. Core(g, DOMAIN g.bs) /\ g.ps = z.ps /\ g.bs = z.bs /\ g.ret = 0
  <2>1. PICK v : v = 0
    OBVIOUS
  <2>2. g = Returning(z, v)
    BY <1>1, <2>1
  <2>3. Core(g, DOMAIN g.bs) /\ g.ps = z.ps /\ g.bs = z.bs /\ g.ret = v
    BY <1>3, <2>2, RetIs
  <2> QED
    BY <2>1, <2>3
<1>5. Kept(h.ps, g.ps, {p}) /\ Merged(g.ps)
  BY <1>3, <1>4 DEF Freed
<1>6. ASSUME NEW b \in (DOMAIN g.bs \cap DOMAIN h.bs) \ {KHEAPSTART}, Used(h.ps, b)
      PROVE  Used(g.ps, b)
  <2>1. CASE h.ps[p].parent = b
    BY <1>3, <1>4, <1>6, <2>1 DEF Freed
  <2>2. CASE h.ps[p].parent # b
    BY <1>5, <1>6, <2>2, UsedKept
  <2> QED
    BY <2>1, <2>2
<1>7. DOMAIN g.bs \subseteq DOMAIN h.bs
  BY <1>3, <1>4 DEF Freed
<1> QED
  BY <1>2, <1>4, <1>5, <1>6, <1>7 DEF Called

\* krealloc to a size that fits into the pebble.
LEMMA Shrinks ==
  ASSUME NEW h, Core(h, DOMAIN h.bs), Merged(h.ps), NEW ptr, NEW n \in Nat, Block(h.ps, ptr, n),
         NEW m \in Nat, m # 0, m <= h.ps[ptr - PEBBLE].size, GoodShrink(h.ps[ptr - PEBBLE], m),
         NEW g, g = krealloc(h, ptr, m)
  PROVE  Core(g, DOMAIN g.bs) /\ Called(h, g, ptr - PEBBLE, m) /\ g.end = h.end
<1>1. /\ IsHeap(h) /\ h.status = "ok" /\ Layout(h.ps, h.bs, h.end) /\ Chain(h.bs)
      /\ Cached(h.ps, h.bs, DOMAIN h.bs)
  BY DEF Core
<1>2. PICK p \in DOMAIN h.ps : p = ptr - 60 /\ ptr # 0 /\ h.ps[p].lflags = 1
  BY DEF Block, InUse
<1>3. h.ps[p].magic /\ h.ps[p].size \in Nat
  BY <1>1, HeaderFacts DEF Pebbles
<1>4. SPLIT_PEBBLE(h.ps[p].size, m) => RoundUp(m, 64) + 60 <= h.ps[p].size
  BY <1>2 DEF GoodShrink
<1>5. PICK r : r = split_pebble(h.ps, p, m)
  OBVIOUS
<1>6. SplitFor(h.ps, r, h.bs, h.end, p, m)
  BY <1>1, <1>4, <1>5, SplitPebble
<1>7. ~SplitTears(h, p, m)
  BY <1>1, <1>4, NoTear
<1>8. g = [ps |-> r, bs |-> h.bs, end |-> h.end, ret |-> ptr, status |-> h.status]
  <2>1. PICK s : s = IF SplitTears(h, p, m) THEN "wild" ELSE h.status
    OBVIOUS
  <2>2. g = Shrinking(h, ptr, r, s)
    <3>1. krealloc(h, ptr, m) = Shrinking(h, ptr, split_pebble(h.ps, p, m),
                                          IF SplitTears(h, p, m) THEN "wild" ELSE h.status)
      BY <1>2, <1>3, Zenon DEF krealloc, Shrinking
    <3> QED
      BY <1>5, <2>1, <3>1
  <2>3. s = h.status
    BY <1>7, <2>1
  <2>4. Shrinking(h, ptr, r, s) = [ps |-> r, bs |-> h.bs, end |-> h.end, ret |-> ptr, status |-> s]
    BY <1>1, HeapExcept
  <2> QED
    BY <2>2, <2>3, <2>4
<1>9. /\ g.ps = r /\ g.bs = h.bs /\ g.end = h.end /\ g.ret = ptr /\ g.status = h.status
      /\ IsHeap(g)
  BY <1>8 DEF IsHeap
<1>10. /\ Layout(r, h.bs, h.end) /\ p \in DOMAIN r /\ r[p].lflags = 1 /\ r[p].parent = h.ps[p].parent
       /\ Kept(h.ps, r, {p}) /\ MergedBut(r, p) /\ Cached(r, h.bs, DOMAIN h.bs)
       /\ r[p].size = IF SPLIT_PEBBLE(h.ps[p].size, m) THEN RoundUp(m, 64) ELSE h.ps[p].size
  BY <1>1, <1>2, <1>6 DEF SplitFor
<1>11. Core(g, DOMAIN g.bs)
  BY <1>1, <1>9, <1>10 DEF Core
<1>12. Merged(r)
  BY <1>10 DEF Merged, MergedBut
<1>13. Block(r, ptr, m)
  <2>1. r[p].size >= m
    BY <1>2, <1>3, <1>10, RoundsUp
  <2>2. ptr \in Nat /\ ptr > 60
    BY DEF Block
  <2> QED
    BY <1>2, <1>10, <2>1, <2>2 DEF Block, InUse
<1>14. ASSUME NEW b, Used(h.ps, b)
       PROVE  Used(r, b)
  <2>1. CASE h.ps[p].parent = b
    BY <1>10, <2>1 DEF Used, Kids
  <2>2. CASE h.ps[p].parent # b
    BY <1>10, <1>14, <2>2, UsedKept
  <2> QED
    BY <2>1, <2>2
<1> QED
  BY <1>2, <1>9, <1>10, <1>11, <1>12, <1>13, <1>14 DEF Called

\* The end of a growing krealloc.
LEMMA EndFreeOld ==
  ASSUME NEW h, IsHeap(h), NEW ptr
  PROVE  SameEnd(h, FreeOld(h, ptr))
<1>1. PICK z : z = kfree(h, ptr)
  OBVIOUS
<1>2. SameEnd(h, z)
  BY <1>1, EndFree
<1>3. SameEnd(z, [z EXCEPT !.ret = h.ret])
  BY <1>2, EndFields DEF SameEnd
<1>4. FreeOld(h, ptr) = h \/ FreeOld(h, ptr) = [z EXCEPT !.ret = h.ret]
  BY <1>1, Zenon DEF FreeOld
<1> QED
  BY <1>2, <1>3, <1>4 DEF SameEnd

\* krealloc to a larger size: kmalloc, memcpy and kfree of the old block.
LEMMA Moves ==
  ASSUME NEW h, Core(h, DOMAIN h.bs), Merged(h.ps), NEW ptr, NEW n \in Nat, Block(h.ps, ptr, n),
         NEW m \in Nat, ~(m <= h.ps[ptr - PEBBLE].size), GoodSize(m),
         GoodCopy(kmalloc(h, m), ptr, m), NEW g, g = krealloc(h, ptr, m), g.end <= MAXHEAP
  PROVE  Core(g, DOMAIN g.bs) /\ Called(h, g, ptr - PEBBLE, m)
<1>1. IsHeap(h) /\ h.status = "ok" /\ Layout(h.ps, h.bs, h.end)
  BY DEF Core
<1>2. PICK p \in DOMAIN h.ps : p = ptr - 60 /\ ptr # 0 /\ h.ps[p].lflags = 1 /\ h.ps[p].size >= n
  BY DEF Block, InUse
<1>3. h.ps[p].magic /\ h.ps[p].size \in Nat /\ m # 0 /\ h.ps[p].parent \in DOMAIN h.bs
  <2>1. h.ps[p].magic /\ h.ps[p].size \in Nat /\ h.ps[p].parent \in DOMAIN h.bs
    BY <1>1, HeaderFacts DEF Pebbles
  <2> QED
    BY <1>2, <2>1
<1>4. PICK k : k = kmalloc(h, m)
  OBVIOUS
<1>5. IsHeap(k)
  BY <1>4, KmallocEnd
<1>6. g = FreeOld(CopyBlock(k, ptr, m), ptr)
  BY <1>2, <1>3, <1>4, Zenon DEF krealloc
<1>7. k.end <= MAXHEAP
  <2>1. SameEnd(k, CopyBlock(k, ptr, m))
    BY <1>5, EndTake
  <2>2. PICK c : c = CopyBlock(k, ptr, m)
    OBVIOUS
  <2>3. SameEnd(c, FreeOld(c, ptr))
    BY <2>1, <2>2, EndFreeOld DEF SameEnd
  <2> QED
    BY <1>6, <2>1, <2>2, <2>3 DEF SameEnd
<1>8. Core(k, DOMAIN k.bs) /\ Allotted(h, k, m)
  BY <1>4, <1>7, KmallocIs
<1>9. CopyBlock(k, ptr, m) = k
  <2>1. k.ret # 0 => Block(k.ps, k.ret, m)
    BY <1>8 DEF Allotted
  <2>2. Layout(k.ps, k.bs, k.end) /\ GoodCopy(k, ptr, m)
    BY <1>4, <1>8 DEF Core
  <2> QED
    BY <2>1, <2>2, CopyKeeps
<1>10. PICK z : z = kfree(k, ptr)
  OBVIOUS
<1>11. PICK v : v = k.ret
  OBVIOUS
<1>12. g = Returning(z, v)
  <2>1. k.status = "ok"
    BY <1>8 DEF Core
  <2> QED
    BY <1>6, <1>9, <1>10, <1>11, <2>1, Zenon DEF FreeOld, Returning
<1>13. p \in DOMAIN k.ps /\ k.ps[p].lflags = 1 /\ k.ps[p].size = h.ps[p].size /\ k.ps[p].parent = h.ps[p].parent
  BY <1>2, <1>8 DEF Allotted, Kept
<1>14. Block(k.ps, ptr, n)
  <2>1. ptr \in Nat /\ ptr > 60
    BY DEF Block
  <2> QED
    BY <1>2, <1>13, <2>1 DEF Block, InUse
<1>15. Core(z, DOMAIN z.bs) /\ Freed(k, z, p)
  <2>1. Merged(k.ps)
    BY <1>8 DEF Allotted
  <2> QED
    BY <1>2, <1>8, <1>10, <1>14, <2>1, KfreeIs
<1>16. Core(g, DOMAIN g.bs) /\ g.ps = z.ps /\ g.bs = z.bs /\ g.ret = v
  BY <1>12, <1>15, RetIs
<1>17. /\ Merged(z.ps) /\ Kept(k.ps, z.ps, {p}) /\ DOMAIN z.bs \subseteq DOMAIN k.bs
       /\ h.ps[p].parent \in DOMAIN z.bs \ {KHEAPSTART} => Used(z.ps, h.ps[p].parent)
  BY <1>13, <1>15 DEF Freed
<1>18. Kept(h.ps, k.ps, {}) /\ DOMAIN h.bs \subseteq DOMAIN k.bs
  BY <1>8 DEF Allotted
<1>19. Kept(h.ps, z.ps, {p})
  BY <1>17, <1>18 DEF Kept
<1>20. v # 0 => Block(z.ps, v, m) /\ ~InUse(h.ps, v - 60)
  <2> SUFFICES ASSUME v # 0 PROVE Block(z.ps, v, m) /\ ~InUse(h.ps, v - 60)
    OBVIOUS
  <2>1. Block(k.ps, v, m) /\ ~InUse(h.ps, v - 60)
    BY <1>8, <1>11 DEF Allotted
  <2>2. v - 60 # p
    BY <1>2, <2>1 DEF InUse
  <2>3. PICK q : q = v - 60
    OBVIOUS
  <2>4. q \in DOMAIN k.ps \ {p} /\ k.ps[q].lflags = 1 /\ k.ps[q].size >= m /\ v \in Nat /\ v > 60
    BY <2>1, <2>2, <2>3 DEF Block, InUse
  <2>5. q \in DOMAIN z.ps /\ z.ps[q].lflags = 1 /\ z.ps[q].size = k.ps[q].size
    BY <1>17, <2>4 DEF Kept
  <2> QED
    BY <2>1, <2>3, <2>4, <2>5 DEF Block, InUse
<1>21. ASSUME v # 0, NEW b \in DOMAIN z.bs \ DOMAIN h.bs
       PROVE  Used(z.ps, b)
  <2>1. Used(k.ps, b)
    BY <1>8, <1>11, <1>17, <1>21 DEF Allotted
  <2>2. k.ps[p].parent # b
    BY <1>3, <1>13, <1>21
  <2> QED
    BY <1>17, <2>1, <2>2, UsedKept
<1>22. ASSUME NEW b \in DOMAIN z.bs \ {KHEAPSTART}, Used(h.ps, b)
       PROVE  Used(z.ps, b)
  <2>1. CASE h.ps[p].parent = b
    BY <1>17, <1>22, <2>1
  <2>2. CASE h.ps[p].parent # b
    BY <1>19, <1>22, <2>2, UsedKept
  <2> QED
    BY <2>1, <2>2
<1> QED
  BY <1>2, <1>16, <1>17, <1>19, <1>20, <1>21, <1>22 DEF Called

\* krealloc to nothing.
LEMMA Frees ==
  ASSUME NEW h, NEW ptr
  PROVE  krealloc(h, ptr, 0) = Returning(kfree(h, ptr), Null)
BY Zenon DEF krealloc, Returning

\* krealloc takes a new bucket only when no pebble would do.
LEMMA KreallocEnd ==
  ASSUME NEW h, Core(h, DOMAIN h.bs), NEW ptr, NEW n \in Nat, NEW g, g = krealloc(h, ptr, n),
         g.end # h.end
  PROVE  \A p \in DOMAIN h.ps : h.ps[p].lflags = FREE => h.ps[p].size < Need(n)
<1>1. IsHeap(h)
  BY DEF Core
<1>2. PICK p : p = ptr - 60
  OBVIOUS
<1>3. PICK k : k = kmalloc(h, n)
  OBVIOUS
<1>4. PICK s, t : /\ s = split_pebble(h.ps, p, n)
                  /\ t = IF SplitTears(h, p, n) THEN "wild" ELSE h.status
  OBVIOUS
<1>5. \/ g = Returning(kfree(h, ptr), 0) \/ g = k \/ \E x : g = [h EXCEPT !.status = x]
      \/ g = Returning(h, 0) \/ g = Shrinking(h, ptr, s, t)
      \/ g = FreeOld(CopyBlock(k, ptr, n), ptr)
  <2>1. \/ krealloc(h, ptr, n) = Returning(kfree(h, ptr), 0) \/ krealloc(h, ptr, n) = kmalloc(h, n)
        \/ \E x : krealloc(h, ptr, n) = [h EXCEPT !.status = x]
        \/ krealloc(h, ptr, n) = Returning(h, 0)
        \/ krealloc(h, ptr, n) = Shrinking(h, ptr, split_pebble(h.ps, p, n),
                                           IF SplitTears(h, p, n) THEN "wild" ELSE h.status)
        \/ krealloc(h, ptr, n) = FreeOld(CopyBlock(kmalloc(h, n), ptr, n), ptr)
    BY <1>2, Zenon DEF krealloc, Returning, Shrinking
  <2> QED
    BY <1>3, <1>4, <2>1, Zenon
<1>6. ASSUME NEW x, IsHeap(x)
      PROVE  SameEnd(x, Returning(x, 0))
  BY <1>6, EndFields DEF Returning
<1>7. SameEnd(h, Returning(kfree(h, ptr), 0))
  BY <1>1, <1>6, EndFree DEF SameEnd
<1>8. \A x : SameEnd(h, [h EXCEPT !.status = x])
  BY <1>1, EndFields
<1>9. SameEnd(h, Shrinking(h, ptr, s, t))
  <2>1. Shrinking(h, ptr, s, t) = [ps |-> s, bs |-> h.bs, end |-> h.end, ret |-> ptr, status |-> t]
    BY <1>1, HeapExcept
  <2> QED
    BY <2>1 DEF SameEnd, IsHeap
<1>10. IsHeap(k)
  BY <1>3, KmallocEnd
<1>11. SameEnd(k, FreeOld(CopyBlock(k, ptr, n), ptr))
  <2>1. PICK c : c = CopyBlock(k, ptr, n)
    OBVIOUS
  <2>2. SameEnd(k, c)
    BY <1>10, <2>1, EndTake
  <2>3. SameEnd(c, FreeOld(c, ptr))
    BY <2>2, EndFreeOld DEF SameEnd
  <2> QED
    BY <2>1, <2>2, <2>3 DEF SameEnd
<1>12. k.end # h.end
  BY <1>1, <1>5, <1>6, <1>7, <1>8, <1>9, <1>11 DEF SameEnd
<1> QED
  BY <1>3, <1>12, KmallocEnd

-----------------------------------------------------------------------------
(* The invariant.                                                           *)

\* What callers hold lies in pebbles in use that are large enough.
Held(ps, blk) == \A ptr \in DOMAIN blk : blk[ptr] \in Nat /\ Block(ps, ptr, blk[ptr])

\* A bucket without a pebble in use is the first one or stranded.
Live(h, str) == \A b \in DOMAIN h.bs \ (str \cup {KHEAPSTART}) : Used(h.ps, b)

\* The heap is in order as long as no size has defeated the arithmetic.
HInv ==
  /\ clean \in BOOLEAN
  /\ clean => /\ Core(heap, DOMAIN heap.bs) /\ Merged(heap.ps)
              /\ Held(heap.ps, blocks) /\ Live(heap, stranded)

\* The blocks in kept are still there in out and in g, as they were in h.
Carried(h, g, kept, out) ==
  \A ptr \in DOMAIN kept :
    /\ ptr \in DOMAIN out /\ out[ptr] = kept[ptr]
    /\ ptr - PEBBLE \in DOMAIN g.ps /\ g.ps[ptr - PEBBLE].size = h.ps[ptr - PEBBLE].size

\* kept is blk, the block behind header p apart.
Spared(blk, kept, p) ==
  DOMAIN kept \subseteq DOMAIN blk /\ \A ptr \in DOMAIN kept : kept[ptr] = blk[ptr] /\ ptr - PEBBLE # p

\* What callers hold after a call that was given the block behind header p.
LEMMA HeldKept ==
  ASSUME NEW h, NEW g, NEW p, NEW m \in Nat, Core(g, DOMAIN g.bs), Called(h, g, p, m),
         NEW blk, Held(h.ps, blk), NEW kept, Spared(blk, kept, p),
         NEW out, out = IF g.status = "ok" /\ g.ret # Null THEN Put(kept, g.ret, m) ELSE kept
  PROVE  Held(g.ps, out) /\ Carried(h, g, kept, out)
<1>1. g.status = "ok"
  BY DEF Core
<1>2. /\ Kept(h.ps, g.ps, {p})
      /\ g.ret # 0 => /\ Block(g.ps, g.ret, m)
                      /\ g.ret - 60 = p \/ ~InUse(h.ps, g.ret - 60)
  BY DEF Called
<1>3. ASSUME NEW ptr \in DOMAIN kept
      PROVE  /\ kept[ptr] \in Nat /\ Block(g.ps, ptr, kept[ptr]) /\ (g.ret # 0 => ptr # g.ret)
             /\ ptr - 60 \in DOMAIN g.ps /\ g.ps[ptr - 60].size = h.ps[ptr - 60].size
  <2>1. kept[ptr] \in Nat /\ Block(h.ps, ptr, kept[ptr]) /\ ptr - 60 # p
    BY DEF Held, Spared
  <2>2. /\ ptr \in Nat /\ ptr > 60 /\ InUse(h.ps, ptr - 60) /\ h.ps[ptr - 60].size >= kept[ptr]
    BY <2>1 DEF Block
  <2>3. PICK q : q = ptr - 60
    OBVIOUS
  <2>4. q \in DOMAIN g.ps /\ g.ps[q].lflags = 1 /\ g.ps[q].size = h.ps[q].size
    BY <1>2, <2>1, <2>2, <2>3 DEF Kept, InUse
  <2>5. Block(g.ps, ptr, kept[ptr])
    BY <2>2, <2>3, <2>4 DEF Block, InUse
  <2> QED
    BY <1>2, <2>1, <2>2, <2>3, <2>4, <2>5
<1>4. CASE g.ret = 0
  <2>1. out = kept
    BY <1>4
  <2> QED
    BY <1>3, <2>1 DEF Held, Carried
<1>5. CASE g.ret # 0
  <2>1. out = Put(kept, g.ret, m)
    BY <1>1, <1>5
  <2>2. /\ DOMAIN out = DOMAIN kept \cup {g.ret} /\ out[g.ret] = m
        /\ \A ptr \in DOMAIN kept : ptr # g.ret => out[ptr] = kept[ptr]
    BY <2>1 DEF Put
  <2>3. \A ptr \in DOMAIN kept : out[ptr] = kept[ptr]
    BY <1>3, <1>5, <2>2
  <2>4. Held(g.ps, out)
    <3> SUFFICES ASSUME NEW ptr \in DOMAIN out PROVE out[ptr] \in Nat /\ Block(g.ps, ptr, out[ptr])
      BY DEF Held
    <3>1. CASE ptr = g.ret
      BY <1>2, <1>5, <2>2, <3>1
    <3>2. CASE ptr # g.ret
      BY <1>3, <2>2, <3>2
    <3> QED
      BY <3>1, <3>2
  <2> QED
    BY <1>3, <2>2, <2>3, <2>4 DEF Carried
<1> QED
  BY <1>4, <1>5

\* Buckets in use after a call.
LEMMA LiveKept ==
  ASSUME NEW h, NEW g, NEW p, NEW m, Called(h, g, p, m), NEW str, Live(h, str), NEW out,
         out = (str \cup (IF g.ret = Null THEN DOMAIN g.bs \ DOMAIN h.bs ELSE {})) \cap DOMAIN g.bs
  PROVE  Live(g, out)
<1> SUFFICES ASSUME NEW b \in DOMAIN g.bs \ (out \cup {KHEAPSTART}) PROVE Used(g.ps, b)
  BY DEF Live
<1>1. CASE b \in DOMAIN h.bs
  <2>1. b \notin str \cup {KHEAPSTART}
    OBVIOUS
  <2>2. Used(h.ps, b)
    BY <1>1, <2>1 DEF Live
  <2> QED
    BY <1>1, <2>1, <2>2 DEF Called
<1>2. CASE b \notin DOMAIN h.bs
  BY <1>2 DEF Called
<1> QED
  BY <1>1, <1>2

\* kmalloc_init leaves one bucket with one free pebble.
LEMMA InitHeap == Init => HInv
<1> SUFFICES ASSUME Init PROVE HInv
  OBVIOUS
<1>1. PICK h : h = [ps |-> << >>, bs |-> << >>, end |-> KHEAPSTART, ret |-> 0, status |-> "ok"]
  OBVIOUS
<1>2. IsHeap(h) /\ h.ps = << >> /\ h.bs = << >> /\ h.end = KHEAPSTART /\ h.status = "ok"
  BY <1>1 DEF IsHeap
<1>3. heap = create_bucket(h, 4096, 0) /\ blocks = << >> /\ clean = TRUE /\ stranded = {}
  BY <1>1 DEF Init
<1>4. KHEAPSTART \in Nat /\ KHEAPSTART + 69632 <= MAXHEAP /\ KHEAPSTART > 0 /\ 4096 \in Nat
  BY HeapFacts
<1>5. PICK r, c : /\ r = Put(h.ps, KHEAPSTART + 64, NewPebble(KHEAPSTART, 17))
                  /\ c = Put(h.bs, KHEAPSTART, NewBucket(KHEAPSTART, 17))
  OBVIOUS
<1>6. heap = [ps |-> r, bs |-> c, end |-> KHEAPSTART + 69632, ret |-> KHEAPSTART, status |-> "ok"]
  <2>1. PICK k \in Nat : Pages(4096, k) /\ Created(h, heap, k)
    BY <1>2, <1>3, <1>4, CreateIs
  <2>2. k = 17 /\ KHEAPSTART + k * 4096 = KHEAPSTART + 69632
    BY <2>1 DEF Pages, MIN_INITIAL_ALLOC
  <2> QED
    BY <1>2, <1>5, <2>1, <2>2 DEF Created
<1>7. /\ heap.ps = r /\ heap.bs = c /\ heap.end = KHEAPSTART + 69632 /\ heap.status = "ok"
      /\ IsHeap(heap)
  BY <1>6 DEF IsHeap
<1>8. DOMAIN h.ps = {} /\ DOMAIN h.bs = {} /\ DOMAIN blocks = {}
  BY <1>2, <1>3
<1>9. Layout(h.ps, h.bs, KHEAPSTART)
  <2>1. h.ps \in [DOMAIN h.ps -> Pebbles] /\ h.bs \in [DOMAIN h.bs -> Buckets]
    BY <1>2
  <2>2. IsFiniteSet({})
    BY FS_EmptySet
  <2>3. Typed(h.ps, h.bs, KHEAPSTART)
    BY <1>4, <1>8, <2>1, <2>2, HeapFacts DEF Typed
  <2> QED
    BY <1>8, <2>3 DEF Layout, Apart
<1>10. Layout(r, c, KHEAPSTART + 69632) /\ Appended(h.ps, h.bs, KHEAPSTART, 17, r, c)
  <2>1. PICK k \in Nat : k = 17
    OBVIOUS
  <2>2. PICK b, ps, bs : b = KHEAPSTART /\ ps = h.ps /\ bs = h.bs
    OBVIOUS
  <2>3. /\ Layout(ps, bs, b) /\ b >= KHEAPSTART /\ k >= 1 /\ b + k * 4096 <= MAXHEAP
        /\ r = Put(ps, b + 64, NewPebble(b, k)) /\ c = Put(bs, b, NewBucket(b, k))
    BY <1>4, <1>5, <1>9, <2>1, <2>2
  <2>4. Layout(r, c, b + k * 4096) /\ Appended(ps, bs, b, k, r, c)
    BY <2>3, AppendLayout
  <2>5. b + k * 4096 = KHEAPSTART + 69632
    BY <1>4, <2>1, <2>2
  <2> QED
    BY <2>1, <2>2, <2>4, <2>5
<1>11. /\ DOMAIN r = {KHEAPSTART + 64} /\ DOMAIN c = {KHEAPSTART}
       /\ r[KHEAPSTART + 64] = NewPebble(KHEAPSTART, 17) /\ c[KHEAPSTART] = NewBucket(KHEAPSTART, 17)
  BY <1>8, <1>10 DEF Appended
<1>12. /\ r[KHEAPSTART + 64].next = 0 /\ r[KHEAPSTART + 64].size = 69508
       /\ r[KHEAPSTART + 64].parent = KHEAPSTART
       /\ c[KHEAPSTART].prev = 0 /\ c[KHEAPSTART].next = 0 /\ c[KHEAPSTART].largest_free = 69508
  BY <1>11 DEF NewPebble, NewBucket
<1>13. Chain(c) /\ Cached(r, c, DOMAIN c) /\ Merged(r)
  BY <1>11, <1>12 DEF Chain, Cached, Merged
<1>14. Core(heap, DOMAIN heap.bs) /\ Merged(heap.ps)
  BY <1>7, <1>10, <1>13 DEF Core
<1>15. Held(heap.ps, blocks) /\ Live(heap, stranded)
  BY <1>7, <1>8, <1>11 DEF Held, Live
<1> QED
  BY <1>3, <1>14, <1>15 DEF HInv

\* One call of a caller, with what it was given and what it keeps.
Keeps(h, g, out, kept, str2) ==
  /\ Core(g, DOMAIN g.bs) /\ Merged(g.ps) /\ Held(g.ps, out) /\ Live(g, str2)
  /\ Carried(h, g, kept, out)

\* kmalloc and its caller.
LEMMA KmallocStep ==
  ASSUME HInv, NEW n \in Nat, Kmalloc(n), clean'
  PROVE  Keeps(heap, heap', blocks', blocks, stranded')
<1>1. clean /\ GoodSize(n)
  BY Zenon DEF Kmalloc
<1>2. /\ Core(heap, DOMAIN heap.bs) /\ Merged(heap.ps) /\ Held(heap.ps, blocks)
      /\ Live(heap, stranded)
  BY <1>1 DEF HInv
<1>3. PICK h, g, blk, out, str, str2 :
        /\ h = heap /\ g = heap' /\ blk = blocks /\ out = blocks' /\ str = stranded /\ str2 = stranded'
  OBVIOUS
<1>4. /\ g = kmalloc(h, n) /\ g.end <= MAXHEAP
      /\ out = IF g.status = "ok" /\ g.ret # Null THEN Put(blk, g.ret, n) ELSE blk
      /\ str2 = (str \cup (IF g.ret = Null THEN DOMAIN g.bs \ DOMAIN h.bs ELSE {})) \cap DOMAIN g.bs
  BY <1>3, Zenon DEF Kmalloc, NewBuckets
<1>5. Core(h, DOMAIN h.bs) /\ Merged(h.ps) /\ Held(h.ps, blk) /\ Live(h, str)
  BY <1>2, <1>3
<1>6. Core(g, DOMAIN g.bs) /\ Called(h, g, 0, n)
  BY <1>1, <1>4, <1>5, KmallocCalled
<1>7. Spared(blk, blk, 0)
  BY <1>5 DEF Held, Block, Spared
<1>8. Held(g.ps, out) /\ Carried(h, g, blk, out)
  BY <1>4, <1>5, <1>6, <1>7, HeldKept
<1>9. Live(g, str2)
  BY <1>4, <1>5, <1>6, LiveKept
<1>10. Merged(g.ps)
  BY <1>6 DEF Called
<1> QED
  BY <1>3, <1>6, <1>8, <1>9, <1>10 DEF Keeps

\* What is left of blk without ptr.
LEMMA DropIs ==
  ASSUME NEW ps, NEW blk, Held(ps, blk), NEW ptr \in DOMAIN blk, NEW kept, kept = Drop(blk, {ptr})
  PROVE  Spared(blk, kept, ptr - PEBBLE)
<1>1. /\ DOMAIN kept = DOMAIN blk \ {ptr} /\ \A a \in DOMAIN kept : kept[a] = blk[a]
  BY DEF Drop
<1>2. \A a \in DOMAIN blk : a \in Nat
  BY DEF Held, Block
<1> QED
  BY <1>1, <1>2 DEF Spared

\* kfree and its caller.
LEMMA KfreeStep ==
  ASSUME HInv, NEW ptr \in DOMAIN blocks, Kfree(ptr), clean'
  PROVE  Keeps(heap, heap', blocks', Drop(blocks, {ptr}), stranded')
<1>1. clean
  BY Zenon DEF Kfree
<1>2. /\ Core(heap, DOMAIN heap.bs) /\ Merged(heap.ps) /\ Held(heap.ps, blocks)
      /\ Live(heap, stranded)
  BY <1>1 DEF HInv
<1>3. PICK h, g, blk, out, str, str2 :
        /\ h = heap /\ g = heap' /\ blk = blocks /\ out = blocks' /\ str = stranded /\ str2 = stranded'
  OBVIOUS
<1>4. PICK z : z = kfree(h, ptr)
  OBVIOUS
<1>5. g = Returning(z, 0) /\ out = Drop(blk, {ptr}) /\ str2 = str \cap DOMAIN z.bs
  BY <1>3, <1>4, Zenon DEF Kfree, Returning
<1>6. Core(h, DOMAIN h.bs) /\ Merged(h.ps) /\ Held(h.ps, blk) /\ Live(h, str) /\ ptr \in DOMAIN blk
  BY <1>2, <1>3
<1>7. PICK n \in Nat : n = blk[ptr] /\ Block(h.ps, ptr, n)
  BY <1>6 DEF Held
<1>8. g = Returning(kfree(h, ptr), 0)
  BY <1>4, <1>5
<1>9. Core(g, DOMAIN g.bs) /\ Called(h, g, ptr - 60, n) /\ DOMAIN g.bs \subseteq DOMAIN h.bs
  BY <1>6, <1>7, <1>8, KfreeCalled
<1>10. g.bs = z.bs /\ g.ret = 0
  <2>1. Core(z, DOMAIN z.bs)
    BY <1>4, <1>6, <1>7, KfreeIs
  <2>2. PICK v : v = 0
    OBVIOUS
  <2>3. g = Returning(z, v)
    BY <1>5, <2>2
  <2>4. g.bs = z.bs /\ g.ret = v
    BY <2>1, <2>3, RetIs
  <2> QED
    BY <2>2, <2>4
<1>11. Spared(blk, out, ptr - 60)
  BY <1>5, <1>6, DropIs
<1>12. Held(g.ps, out) /\ Carried(h, g, out, out)
  <2>1. out = IF g.status = "ok" /\ g.ret # 0 THEN Put(out, g.ret, n) ELSE out
    BY <1>10
  <2> QED
    BY <1>6, <1>9, <1>11, <2>1, HeldKept
<1>13. Live(g, str2)
  <2>1. str2 = (str \cup (IF g.ret = 0 THEN DOMAIN g.bs \ DOMAIN h.bs ELSE {})) \cap DOMAIN g.bs
    BY <1>5, <1>9, <1>10
  <2> QED
    BY <1>6, <1>9, <2>1, LiveKept
<1>14. Merged(g.ps)
  BY <1>9 DEF Called
<1> QED
  BY <1>3, <1>5, <1>9, <1>12, <1>13, <1>14 DEF Keeps

\* krealloc and its caller.
LEMMA KreallocStep ==
  ASSUME HInv, NEW ptr \in DOMAIN blocks, NEW n \in Nat, Krealloc(ptr, n), clean'
  PROVE  Keeps(heap, heap', blocks', Drop(blocks, {ptr}), stranded')
<1>1. /\ clean
      /\ n = 0 \/ IF n <= heap.ps[ptr - 60].size THEN GoodShrink(heap.ps[ptr - 60], n)
                 ELSE GoodSize(n) /\ GoodCopy(kmalloc(heap, n), ptr, n)
  BY Zenon DEF Krealloc
<1>2. /\ Core(heap, DOMAIN heap.bs) /\ Merged(heap.ps) /\ Held(heap.ps, blocks)
      /\ Live(heap, stranded)
  BY <1>1 DEF HInv
<1>3. PICK h, g, blk, out, str, str2, kept :
        /\ h = heap /\ g = heap' /\ blk = blocks /\ out = blocks' /\ str = stranded /\ str2 = stranded'
        /\ kept = Drop(blocks, {ptr})
  OBVIOUS
<1>4. /\ g = krealloc(h, ptr, n) /\ g.end <= MAXHEAP
      /\ out = IF g.status = "ok" /\ g.ret # Null THEN Put(kept, g.ret, n) ELSE kept
      /\ str2 = (str \cup (IF g.ret = Null THEN DOMAIN g.bs \ DOMAIN h.bs ELSE {})) \cap DOMAIN g.bs
  BY <1>3, Zenon DEF Krealloc, NewBuckets
<1>5. /\ Core(h, DOMAIN h.bs) /\ Merged(h.ps) /\ Held(h.ps, blk) /\ Live(h, str)
      /\ ptr \in DOMAIN blk /\ kept = Drop(blk, {ptr})
  BY <1>2, <1>3
<1>6. PICK old \in Nat : old = blk[ptr] /\ Block(h.ps, ptr, old)
  BY <1>5 DEF Held
<1>7. PICK p : p = ptr - 60
  OBVIOUS
<1>8. Core(g, DOMAIN g.bs) /\ Called(h, g, p, n)
  <2>1. CASE n = 0
    <3>1. g = Returning(kfree(h, ptr), 0)
      BY <1>4, <2>1, Frees
    <3> QED
      BY <1>5, <1>6, <1>7, <3>1, KfreeCalled
  <2>2. CASE n # 0 /\ n <= h.ps[p].size
    <3>1. GoodShrink(h.ps[p], n)
      BY <1>1, <1>3, <1>7, <2>2
    <3> QED
      BY <1>4, <1>5, <1>6, <1>7, <2>2, <3>1, Shrinks
  <2>3. CASE n # 0 /\ ~(n <= h.ps[p].size)
    <3>1. GoodSize(n) /\ GoodCopy(kmalloc(h, n), ptr, n)
      BY <1>1, <1>3, <1>7, <2>3
    <3> QED
      BY <1>4, <1>5, <1>6, <1>7, <2>3, <3>1, Moves
  <2> QED
    BY <2>1, <2>2, <2>3
<1>9. Spared(blk, kept, p)
  BY <1>5, <1>7, DropIs
<1>10. Held(g.ps, out) /\ Carried(h, g, kept, out)
  BY <1>4, <1>5, <1>8, <1>9, HeldKept
<1>11. Live(g, str2)
  BY <1>4, <1>5, <1>8, LiveKept
<1>12. Merged(g.ps)
  BY <1>8 DEF Called
<1> QED
  BY <1>3, <1>8, <1>10, <1>11, <1>12 DEF Keeps

\* Sizes are numbers.
LEMMA SizesAre == Requests \subseteq Nat /\ Reallocs \subseteq Nat
BY HeapAssumption

\* A call with sizes that the arithmetic gets right leaves the heap in order.
LEMMA StepHeap == HInv /\ [Next]_vars => HInv'
<1> SUFFICES ASSUME HInv, [Next]_vars PROVE HInv'
  OBVIOUS
<1>1. ASSUME NEW kept, clean', Keeps(heap, heap', blocks', kept, stranded')
      PROVE  (/\ Core(heap, DOMAIN heap.bs) /\ Merged(heap.ps)
              /\ Held(heap.ps, blocks) /\ Live(heap, stranded))'
  BY <1>1 DEF Keeps
<1>2. ASSUME NEW n \in Requests, Kmalloc(n)
      PROVE  HInv'
  <2>1. clean' \in BOOLEAN
    BY <1>2, Zenon DEF Kmalloc
  <2>2. clean' => Keeps(heap, heap', blocks', blocks, stranded')
    BY <1>2, SizesAre, KmallocStep
  <2> QED
    BY <1>1, <2>1, <2>2 DEF HInv
<1>3. ASSUME NEW ptr \in DOMAIN blocks, Kfree(ptr)
      PROVE  HInv'
  <2>1. clean' \in BOOLEAN
    BY <1>3 DEF Kfree, HInv
  <2>2. clean' => Keeps(heap, heap', blocks', Drop(blocks, {ptr}), stranded')
    BY <1>3, KfreeStep
  <2> QED
    BY <1>1, <2>1, <2>2 DEF HInv
<1>4. ASSUME NEW ptr \in DOMAIN blocks, NEW n \in Reallocs, Krealloc(ptr, n)
      PROVE  HInv'
  <2>1. clean' \in BOOLEAN
    BY <1>4, Zenon DEF Krealloc
  <2>2. clean' => Keeps(heap, heap', blocks', Drop(blocks, {ptr}), stranded')
    BY <1>4, SizesAre, KreallocStep
  <2> QED
    BY <1>1, <2>1, <2>2 DEF HInv
<1>5. CASE UNCHANGED vars
  <2>1. heap' = heap /\ blocks' = blocks /\ clean' = clean /\ stranded' = stranded
    BY <1>5 DEF vars
  <2> QED
    BY <2>1 DEF HInv
<1> QED
  BY <1>2, <1>3, <1>4, <1>5 DEF Next

\* The heap stays in order through every sequence of calls.
THEOREM HeapInOrder == Spec => []HInv
<1>1. Init => HInv
  BY InitHeap
<1>2. HInv /\ [Next]_vars => HInv'
  BY StepHeap
<1> QED
  BY <1>1, <1>2, PTL DEF Spec

\* No traversal of kmalloc, kfree or krealloc runs forever or follows a bad
\* pointer, no header is overwritten and no copy faults, as long as the sizes are
\* ones that the arithmetic gets right and krealloc's copies, which read more than
\* the old block holds, stay within the buckets.
THEOREM NeverStuckHolds == Spec => []NeverStuck
<1>1. HInv => NeverStuck
  BY DEF HInv, NeverStuck, Running, Core
<1> QED
  BY <1>1, HeapInOrder, PTL

\* Two free pebbles are never neighbours after kfree.
THEOREM CoalescedHolds == Spec => []Coalesced
<1>1. HInv => Coalesced
  <2> SUFFICES ASSUME HInv, clean, NEW p \in DOMAIN heap.ps, heap.ps[p].next # 0, Free(p),
                      Free(heap.ps[p].next)
               PROVE  FALSE
    BY DEF Coalesced
  <2>1. Layout(heap.ps, heap.bs, heap.end) /\ Merged(heap.ps)
    BY DEF HInv, Core
  <2>2. PICK ps, bs, end : ps = heap.ps /\ bs = heap.bs /\ end = heap.end
    OBVIOUS
  <2>3. Layout(ps, bs, end) /\ Merged(ps) /\ p \in DOMAIN ps /\ ps[p].next # 0
    BY <2>1, <2>2
  <2>4. ps[p].next \in DOMAIN ps
    BY <2>3, HeaderFacts DEF PebbleOK
  <2>5. ps[p].lflags \in {0, 1} /\ ps[ps[p].next].lflags \in {0, 1}
    BY <2>3, <2>4, HeaderFacts
  <2>6. ps[p].lflags = 0 /\ ps[ps[p].next].lflags = 0
    BY <2>2, <2>5 DEF Free, IS_PEBBLE_FREE
  <2> QED
    BY <2>3, <2>6 DEF Merged
<1> QED
  BY <1>1, HeapInOrder, PTL

\* The list of each bucket covers its bytes, whatever kmalloc, kfree and krealloc
\* have split and merged.
THEOREM TilingHolds == Spec => []Tiling
<1>1. HInv => Tiling
  <2> SUFFICES ASSUME HInv, clean, NEW b \in DOMAIN heap.bs
               PROVE  /\ heap.bs[b].first = b + 64
                      /\ OnList(heap.ps, heap.bs[b].first) = PebblesOf(b)
                      /\ heap.ps[b + 64].prev = 0
                      /\ \A p \in PebblesOf(b) :
                           IF heap.ps[p].next = 0 THEN PebbleEnd(p) = BucketEnd(b)
                           ELSE /\ heap.ps[p].next = PebbleEnd(p)
                                /\ heap.ps[heap.ps[p].next].prev = p
    BY DEF Tiling
  <2>1. Layout(heap.ps, heap.bs, heap.end)
    BY DEF HInv, Core
  <2>2. heap.bs[b].first = b + 64
    BY <2>1 DEF Layout, BucketOK
  <2>3. OnList(heap.ps, heap.bs[b].first) = PebblesOf(b)
    BY <2>1, PebbleList DEF Kids, PebblesOf
  <2>4. heap.ps[b + 64].prev = 0
    BY <2>1, FirstPebble
  <2>5. ASSUME NEW p \in PebblesOf(b)
        PROVE  IF heap.ps[p].next = 0 THEN PebbleEnd(p) = BucketEnd(b)
               ELSE /\ heap.ps[p].next = PebbleEnd(p)
                    /\ heap.ps[heap.ps[p].next].prev = p
    <3>1. p \in DOMAIN heap.ps /\ heap.ps[p].parent = b
      BY DEF PebblesOf
    <3>2. PebbleOK(heap.ps, heap.bs, p)
      BY <2>1, <3>1, HeaderFacts
    <3>3. PEnd(heap.ps, p) = PebbleEnd(p) /\ BEnd(heap.bs, b) = BucketEnd(b)
      BY DEF PEnd, BEnd, PebbleEnd, BucketEnd
    <3> QED
      BY <3>1, <3>2, <3>3 DEF PebbleOK
  <2> QED
    BY <2>2, <2>3, <2>4, <2>5
<1> QED
  BY <1>1, HeapInOrder, PTL

\* What kmalloc and krealloc return is at least as large as asked for and apart
\* from every other block and header.
THEOREM BlocksSafeHolds == Spec => []BlocksSafe
<1>1. HInv => BlocksSafe
  <2> SUFFICES ASSUME HInv, clean, NEW ptr \in DOMAIN blocks
               PROVE  /\ ptr - 60 \in DOMAIN heap.ps
                      /\ ~Free(ptr - 60)
                      /\ heap.ps[ptr - 60].size >= blocks[ptr]
                      /\ \A q \in DOMAIN heap.ps : q >= ptr + blocks[ptr] \/ q + 60 <= ptr
                      /\ \A b \in DOMAIN heap.bs : b >= ptr + blocks[ptr] \/ b + 64 <= ptr
    BY DEF BlocksSafe
  <2>1. Layout(heap.ps, heap.bs, heap.end) /\ Held(heap.ps, blocks)
    BY DEF HInv, Core
  <2>2. PICK h, n : h = heap /\ n = blocks[ptr]
    OBVIOUS
  <2>3. Layout(h.ps, h.bs, h.end) /\ n \in Nat /\ Block(h.ps, ptr, n) /\ n <= n
    BY <2>1, <2>2 DEF Held
  <2>4. /\ \A q \in DOMAIN h.ps : q >= ptr + n \/ q + 60 <= ptr
        /\ \A b \in DOMAIN h.bs : b >= ptr + n \/ b + 64 <= ptr
    BY <2>3, NothingCovered
  <2>5. ptr - 60 \in DOMAIN h.ps /\ h.ps[ptr - 60].lflags = 1 /\ h.ps[ptr - 60].size >= n
    BY <2>3 DEF Block, InUse
  <2>6. ~Free(ptr - 60)
    BY <2>2, <2>5 DEF Free, IS_PEBBLE_FREE
  <2> QED
    BY <2>2, <2>4, <2>5, <2>6
<1> QED
  BY <1>1, HeapInOrder, PTL

\* Every bucket is on the chain from KHEAPSTART, apart from the others, and in use
\* unless it is the first or stranded.
THEOREM BucketChainHolds == Spec => []BucketChain
<1>1. HInv => BucketChain
  <2> SUFFICES ASSUME HInv, clean
               PROVE  /\ OnList(heap.bs, KHEAPSTART) = DOMAIN heap.bs
                      /\ heap.bs[KHEAPSTART].prev = 0
                      /\ \A b \in DOMAIN heap.bs :
                           /\ heap.bs[b].next # 0 => heap.bs[heap.bs[b].next].prev = b
                           /\ BucketEnd(b) <= heap.end
                           /\ \A c \in DOMAIN heap.bs : b < c => BucketEnd(b) <= c
                           /\ b \notin stranded \cup {KHEAPSTART} => \E p \in PebblesOf(b) : ~Free(p)
    BY DEF BucketChain
  <2>1. Layout(heap.ps, heap.bs, heap.end) /\ Chain(heap.bs) /\ Live(heap, stranded)
    BY DEF HInv, Core
  <2>2. OnList(heap.bs, KHEAPSTART) = DOMAIN heap.bs
    BY <2>1, BucketList
  <2>3. heap.bs[KHEAPSTART].prev = 0
    BY <2>1 DEF Chain
  <2>4. ASSUME NEW b \in DOMAIN heap.bs
        PROVE  /\ heap.bs[b].next # 0 => heap.bs[heap.bs[b].next].prev = b
               /\ BucketEnd(b) <= heap.end
               /\ \A c \in DOMAIN heap.bs : b < c => BucketEnd(b) <= c
               /\ b \notin stranded \cup {KHEAPSTART} => \E p \in PebblesOf(b) : ~Free(p)
    <3>1. heap.bs[b].next # 0 => heap.bs[heap.bs[b].next].prev = b
      BY <2>1 DEF Chain
    <3>2. BucketOK(heap.ps, heap.bs, heap.end, b)
      BY <2>1 DEF Layout
    <3>3. BucketEnd(b) <= heap.end /\ \A c \in DOMAIN heap.bs : b < c => BucketEnd(b) <= c
      BY <3>2 DEF BucketOK, BEnd, BucketEnd
    <3>4. ASSUME b \notin stranded \cup {KHEAPSTART}
          PROVE  \E p \in PebblesOf(b) : ~Free(p)
      <4>1. Used(heap.ps, b)
        BY <2>1, <3>4 DEF Live
      <4>2. PICK p \in Kids(heap.ps, b) : heap.ps[p].lflags = 1
        BY <4>1 DEF Used
      <4>3. p \in PebblesOf(b) /\ ~Free(p)
        BY <4>2 DEF Kids, PebblesOf, Free, IS_PEBBLE_FREE
      <4> QED
        BY <4>3
    <3> QED
      BY <3>1, <3>3, <3>4
  <2> QED
    BY <2>2, <2>3, <2>4
<1> QED
  BY <1>1, HeapInOrder, PTL

\* kmalloc, kfree and krealloc leave every other block where and as large as it is.
THEOREM OthersKeptHolds == Spec => OthersKept
<1> DEFINE A == clean' =>
                  \E given \in DOMAIN blocks \cup {Null} :
                    /\ given # Null => Kfree(given) \/ \E n \in Reallocs : Krealloc(given, n)
                    /\ \A ptr \in DOMAIN blocks \ {given} :
                         /\ ptr \in DOMAIN blocks' /\ blocks'[ptr] = blocks[ptr]
                         /\ ptr - PEBBLE \in DOMAIN heap'.ps
                         /\ heap'.ps[ptr - PEBBLE].size = heap.ps[ptr - PEBBLE].size
<1>1. HInv /\ [Next]_vars => [A]_vars
  <2> SUFFICES ASSUME HInv, Next, clean' PROVE A
    OBVIOUS
  <2>1. ASSUME NEW n \in Requests, Kmalloc(n)
        PROVE  A
    <3>1. Keeps(heap, heap', blocks', blocks, stranded')
      BY <2>1, SizesAre, KmallocStep
    <3>2. Carried(heap, heap', blocks, blocks')
      BY <3>1 DEF Keeps
    <3> QED
      BY <3>2 DEF Carried
  <2>2. ASSUME NEW ptr \in DOMAIN blocks, Kfree(ptr)
        PROVE  A
    <3>1. Keeps(heap, heap', blocks', Drop(blocks, {ptr}), stranded')
      BY <2>2, KfreeStep
    <3>2. Carried(heap, heap', Drop(blocks, {ptr}), blocks')
      BY <3>1 DEF Keeps
    <3> QED
      BY <2>2, <3>2 DEF Carried, Drop
  <2>3. ASSUME NEW ptr \in DOMAIN blocks, NEW n \in Reallocs, Krealloc(ptr, n)
        PROVE  A
    <3>1. Keeps(heap, heap', blocks', Drop(blocks, {ptr}), stranded')
      BY <2>3, SizesAre, KreallocStep
    <3>2. Carried(heap, heap', Drop(blocks, {ptr}), blocks')
      BY <3>1 DEF Keeps
    <3> QED
      BY <2>3, <3>2 DEF Carried, Drop
  <2> QED
    BY <2>1, <2>2, <2>3 DEF Next
<1> QED
  BY <1>1, HeapInOrder, PTL DEF Spec, OthersKept

\* largest_free never hides room from kmalloc: it takes a new bucket only when no
\* free pebble is large enough.
THEOREM GrowsForNeedHolds == Spec => GrowsForNeed
<1> DEFINE Short(n) == \A p \in DOMAIN heap.ps :
                         Free(p) => heap.ps[p].size < PebbleSize(AtLeast(n, PEBBLE_MIN_SIZE))
           A == clean /\ heap'.end # heap.end =>
                  \E n \in Requests \cup Reallocs :
                     /\ \/ Kmalloc(n)
                        \/ \E ptr \in DOMAIN blocks : Krealloc(ptr, n)
                     /\ Short(n)
<1>1. HInv /\ [Next]_vars => [A]_vars
  <2> SUFFICES ASSUME HInv, Next, clean, heap'.end # heap.end PROVE A
    OBVIOUS
  <2>1. Core(heap, DOMAIN heap.bs)
    BY DEF HInv
  <2>2. \A p \in DOMAIN heap.ps : Free(p) => heap.ps[p].lflags = 0
    <3>1. Layout(heap.ps, heap.bs, heap.end)
      BY <2>1 DEF Core
    <3>2. \A p \in DOMAIN heap.ps : heap.ps[p].lflags \in {0, 1}
      BY <3>1, HeaderFacts
    <3> QED
      BY <3>2 DEF Free, IS_PEBBLE_FREE
  <2>3. ASSUME NEW n, \A p \in DOMAIN heap.ps : heap.ps[p].lflags = 0 => heap.ps[p].size < Need(n)
        PROVE  Short(n)
    BY <2>2, <2>3 DEF Need
  <2> HIDE DEF Short
  <2>4. ASSUME NEW n \in Requests, Kmalloc(n)
        PROVE  A
    <3>1. heap' = kmalloc(heap, n) /\ n \in Nat
      BY <2>4, SizesAre, Zenon DEF Kmalloc
    <3>2. PICK h, g : h = heap /\ g = heap'
      OBVIOUS
    <3>3. Core(h, DOMAIN h.bs) /\ g = kmalloc(h, n) /\ g.end # h.end
      BY <2>1, <3>1, <3>2
    <3>4. \A p \in DOMAIN h.ps : h.ps[p].lflags = 0 => h.ps[p].size < Need(n)
      BY <3>1, <3>3, KmallocEnd
    <3>5. Short(n)
      BY <2>3, <3>2, <3>4
    <3> QED
      BY <2>4, <3>5
  <2>5. ASSUME NEW ptr \in DOMAIN blocks, Kfree(ptr)
        PROVE  FALSE
    <3>1. PICK h, z : h = heap /\ z = kfree(h, ptr)
      OBVIOUS
    <3>2. heap' = Returning(z, 0)
      BY <2>5, <3>1, Zenon DEF Kfree, Returning
    <3>3. SameEnd(h, z)
      BY <2>1, <3>1, EndFree DEF Core
    <3>4. SameEnd(z, Returning(z, 0))
      BY <3>3, EndFields DEF SameEnd, Returning
    <3> QED
      BY <3>1, <3>2, <3>3, <3>4 DEF SameEnd
  <2>6. ASSUME NEW ptr \in DOMAIN blocks, NEW n \in Reallocs, Krealloc(ptr, n)
        PROVE  A
    <3>1. heap' = krealloc(heap, ptr, n) /\ n \in Nat
      BY <2>6, SizesAre, Zenon DEF Krealloc
    <3>2. PICK h, g : h = heap /\ g = heap'
      OBVIOUS
    <3>3. Core(h, DOMAIN h.bs) /\ g = krealloc(h, ptr, n) /\ g.end # h.end
      BY <2>1, <3>1, <3>2
    <3>4. \A p \in DOMAIN h.ps : h.ps[p].lflags = 0 => h.ps[p].size < Need(n)
      BY <3>1, <3>3, KreallocEnd
    <3>5. Short(n)
      BY <2>3, <3>2, <3>4
    <3> QED
      BY <2>6, <3>5
  <2> QED
    BY <2>4, <2>5, <2>6 DEF Next
<1> QED
  BY <1>1, HeapInOrder, PTL DEF Spec, GrowsForNeed

=============================================================================
