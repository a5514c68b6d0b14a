----------------------------- MODULE BucketAlloc -----------------------------
(***************************************************************************)
(* The kernel heap, klibc/bucketalloc.c: buckets of whole pages, each a      *)
(* doubly linked list of pebbles (a 60-byte header and its bytes).          *)
(*                                                                          *)
(* The heap h is a record of                                                *)
(*   ps      the pebble headers by address,                                 *)
(*   bs      the bucket headers by address,                                 *)
(*   end     K_HEAP_END,                                                    *)
(*   ret     what the function returns,                                     *)
(*   status  "ok"; "hung" in a traversal that never meets NULL; "fault" at  *)
(*           a NULL or unmapped header; "wild" once header bytes have been   *)
(*           replaced by data, from where on nothing is modelled.           *)
(* Sizes, offsets and rounding are the bytes of the code.  A header that a   *)
(* neighbour swallowed leaves ps: no pointer to it remains.  The bytes of a  *)
(* bucket are taken as accessible, and no others: what mmap and munmap are    *)
(* for (module Vmm shows which pages are).  One caller at a time: the         *)
(* spinlocks are always free and left out.                                  *)
(***************************************************************************)
EXTENDS Integers, FiniteSets

CONSTANTS
  KHEAPSTART,   \* &kEnd
  WORDMOD,      \* number of values of a size_t
  Requests,     \* sizes passed to kmalloc
  Reallocs,     \* sizes passed to krealloc
  MAXLIVE,      \* bound: blocks held at a time
  MAXPEBBLES,   \* bound: headers a krealloc may leave (shrinking leaks one each time)
  MAXHEAP       \* bound: address the heap may grow to

Null == 0
PAGESIZE == 4096
BUCKET == 64    \* sizeof(memory_bucket_t)
PEBBLE == 60    \* sizeof(memory_pebble_t)
MIN_INITIAL_ALLOC == 65536 + BUCKET + PEBBLE
PEBBLE_MIN_ALIGN == 64
PEBBLE_MIN_SIZE == 64
FREE == 0
IN_USE == 1

RoundUp(n, a) == ((n + a - 1) \div a) * a

\* The heap has room for the bucket of kmalloc_init.
ASSUME HeapAssumption ==
  /\ KHEAPSTART \in Nat \ {0}
  /\ WORDMOD \in Nat /\ MAXHEAP \in Nat /\ WORDMOD > 2 * MAXHEAP
  /\ KHEAPSTART + RoundUp(MIN_INITIAL_ALLOC, PAGESIZE) <= MAXHEAP
  /\ Requests \subseteq 0 .. MAXHEAP /\ Reallocs \subseteq 0 .. MAXHEAP
  /\ MAXLIVE \in Nat /\ MAXPEBBLES \in Nat

AtLeast(n, m) == IF n < m THEN m ELSE n
MaxOf(S) == CHOOSE n \in S : \A m \in S : m <= n
MinOf(S) == CHOOSE n \in S : \A m \in S : n <= m
Drop(f, S) == [a \in DOMAIN f \ S |-> f[a]]
Put(f, a, v) == [b \in DOMAIN f \cup {a} |-> IF b = a THEN v ELSE f[b]]

-----------------------------------------------------------------------------
(* Lists of headers linked by next.                                         *)

\* The pointer after n hops from first; it stays on NULL and on a pointer that
\* leads to no header.
Hops(f, first) ==
  LET at[n \in 0 .. Cardinality(DOMAIN f)] ==
        IF n = 0 THEN first
        ELSE LET p == at[n - 1] IN IF p \in DOMAIN f THEN f[p].next ELSE p
  IN  at

OnList(f, first) == LET at == Hops(f, first) IN {at[n] : n \in DOMAIN at} \cap DOMAIN f
Ends(f, first) == Hops(f, first)[Cardinality(DOMAIN f)] = Null

\* How a traversal to the end of the list comes out.
Traversal(f, first) ==
  IF Ends(f, first) THEN "ok"
  ELSE IF Hops(f, first)[Cardinality(DOMAIN f)] \in DOMAIN f THEN "hung" ELSE "fault"

IS_PEBBLE_FREE(p) == p.lflags % 2 = FREE

\* Mutant of bucket_update_largest: only the first pebble counts.
LargestOfFirst(h, b) ==
  [h EXCEPT !.bs[b].largest_free = h.ps[h.bs[b].first].size]

bucket_update_largest(h, b) ==
  [h EXCEPT !.bs[b].largest_free =
     MaxOf({0} \cup {h.ps[p].size : p \in OnList(h.ps, h.bs[b].first)})]

-----------------------------------------------------------------------------
(* Buckets.                                                                 *)

\* mmap cannot fail here: grow_heap returns K_HEAP_END, which is not NULL.
create_bucket(h, want, flags) ==
  LET size  == RoundUp(AtLeast(want, MIN_INITIAL_ALLOC), PAGESIZE)
      b     == h.end
      first == b + BUCKET
      free  == size - BUCKET - PEBBLE
  IN  [h EXCEPT !.ret = b,
                !.end = b + size,
                !.bs  = Put(@, b, [lflags |-> flags * 256, largest_free |-> free,
                                   size |-> size \div PAGESIZE, first |-> first,
                                   prev |-> Null, next |-> Null]),
                !.ps  = Put(@, first, [magic |-> TRUE, lflags |-> FREE, size |-> free,
                                       parent |-> b, prev |-> Null, next |-> Null])]

insert_bucket(h, b) ==
  LET after == h.bs[KHEAPSTART].next
      linked == [h.bs EXCEPT ![b].next = after, ![b].prev = KHEAPSTART,
                             ![KHEAPSTART].next = b]
  IN  [h EXCEPT !.bs = IF after = Null THEN linked ELSE [linked EXCEPT ![after].prev = b]]

\* Mutant of remove_bucket: the bucket after it keeps its prev link.
RemoveHalf(h, b) ==
  LET k == h.bs[b]
      bs1 == IF k.prev # Null THEN [h.bs EXCEPT ![k.prev].next = k.next] ELSE h.bs
  IN  IF b = KHEAPSTART THEN h
      ELSE [h EXCEPT !.bs = Drop(bs1, {b}),
                     !.ps = Drop(@, {p \in DOMAIN @ : p >= b /\ p < b + k.size * PAGESIZE})]

\* Unlinks the bucket and unmaps its memory, and with it every header in it.
remove_bucket(h, b) ==
  LET k == h.bs[b]
      bs1 == IF k.prev # Null THEN [h.bs EXCEPT ![k.prev].next = k.next] ELSE h.bs
      bs2 == IF k.next # Null THEN [bs1 EXCEPT ![k.next].prev = k.prev] ELSE bs1
  IN  IF b = KHEAPSTART THEN h
      ELSE [h EXCEPT !.bs = Drop(bs2, {b}),
                     !.ps = Drop(@, {p \in DOMAIN @ : p >= b /\ p < b + k.size * PAGESIZE})]

-----------------------------------------------------------------------------
(* Pebbles.                                                                 *)

\* ((s0 + MIN_ALIGN - 1) & ~MIN_SIZE) > s1 + sizeof(memory_pebble_t) + MIN_SIZE:
\* the mask clears bit 6 only.
SPLIT_PEBBLE(s0, s1) ==
  LET v == (s0 + PEBBLE_MIN_ALIGN - 1) % WORDMOD IN
  v - 64 * ((v \div 64) % 2) > s1 + PEBBLE + PEBBLE_MIN_SIZE

SplitAt(t, want) == t + PEBBLE + RoundUp(want, PEBBLE_MIN_ALIGN)

\* Mutant of split_pebble: the pebble behind the tail keeps its prev link.
SplitNoBacklink(ps, t, want) ==
  LET newSize == RoundUp(want, PEBBLE_MIN_ALIGN)
      q == SplitAt(t, want)
      copied == Put(ps, q, [ps[t] EXCEPT !.size = (@ - newSize - PEBBLE) % WORDMOD,
                                         !.prev = t])
  IN  IF SPLIT_PEBBLE(ps[t].size, want)
      THEN [copied EXCEPT ![t].size = newSize, ![t].next = q]
      ELSE ps

\* The new header starts as a copy of the old one and then takes its place in
\* the list; it may land on the header of the next pebble.
split_pebble(ps, t, want) ==
  LET newSize == RoundUp(want, PEBBLE_MIN_ALIGN)
      q == SplitAt(t, want)
      copied == Put(ps, q, [ps[t] EXCEPT !.size = (@ - newSize - PEBBLE) % WORDMOD,
                                         !.prev = t])
      relinked == IF copied[t].next = Null THEN copied
                  ELSE [copied EXCEPT ![copied[t].next].prev = q]
  IN  IF SPLIT_PEBBLE(ps[t].size, want)
      THEN [relinked EXCEPT ![t].size = newSize, ![t].next = q]
      ELSE ps

\* The copy would overwrite part of another header or leave the bucket.
SplitTears(h, t, want) ==
  LET q == SplitAt(t, want)
      b == h.ps[t].parent
  IN  /\ SPLIT_PEBBLE(h.ps[t].size, want)
      /\ \/ \E a \in DOMAIN h.ps \ {q} : a - PEBBLE < q /\ q < a + PEBBLE
         \/ b \notin DOMAIN h.bs
         \/ b \in DOMAIN h.bs /\ q + PEBBLE > b + h.bs[b].size * PAGESIZE

\* Mutant of Fitting: the size is not compared.
FittingAny(h, b, need) ==
  LET at == Hops(h.ps, h.bs[b].first)
      K  == {n \in DOMAIN at : at[n] \in DOMAIN h.ps /\ IS_PEBBLE_FREE(h.ps[at[n]])}
  IN  IF K = {} THEN Null ELSE at[MinOf(K)]

\* The pebble place_pebble takes: the first that fits, or the smallest when the
\* bucket asks for best fit.  No bucket does: create_bucket shifts its flags by
\* 8 bits.
Fitting(h, b, need) ==
  LET at == Hops(h.ps, h.bs[b].first)
      K  == {n \in DOMAIN at : /\ at[n] \in DOMAIN h.ps
                               /\ IS_PEBBLE_FREE(h.ps[at[n]])
                               /\ h.ps[at[n]].size >= need}
      best == {n \in K : \A m \in K : h.ps[at[n]].size <= h.ps[at[m]].size}
  IN  IF K = {} THEN Null
      ELSE at[MinOf(IF h.bs[b].lflags % 2 = 1 THEN best ELSE K)]

\* place_pebble, then bucket_update_largest as both its callers do.
place_pebble(h, b, need) ==
  LET t == Fitting(h, b, need) IN
  IF t = Null THEN bucket_update_largest([h EXCEPT !.ret = Null], b)
  ELSE bucket_update_largest(
         [h EXCEPT !.ps  = [split_pebble(@, t, need) EXCEPT ![t].lflags = IN_USE],
                   !.ret = t + PEBBLE,
                   !.status = IF SplitTears(h, t, need) THEN "wild" ELSE @],
         b)

\* Mutant of Swallow: p still points to the header it has swallowed.
SwallowKeepsNext(h, p, q) ==
  [h EXCEPT !.ps = Drop([@ EXCEPT ![p].size = (@ + h.ps[q].size + PEBBLE) % WORDMOD], {q})]

\* Header q, the next of p, becomes part of p.
Swallow(h, p, q) ==
  LET n   == h.ps[q].next
      ps1 == [h.ps EXCEPT ![p].size = (@ + h.ps[q].size + PEBBLE) % WORDMOD,
                          ![p].next = n]
      ps2 == IF n = Null THEN ps1 ELSE [ps1 EXCEPT ![n].prev = p]
  IN  [h EXCEPT !.ps = Drop(ps2, {q})]

\* Mutants of absorb_next: it does nothing; it does not ask whether the next
\* pebble is free.
AbsorbNever(h, p) == h

AbsorbBlindly(h, p) ==
  IF h.ps[p].next = Null THEN h
  ELSE bucket_update_largest(Swallow(h, p, h.ps[p].next), h.ps[p].parent)

\* Both end with bucket_update_largest of the parent of the surviving pebble.
absorb_next(h, p) ==
  LET q == h.ps[p].next
      b == h.ps[p].parent
  IN  IF q = Null \/ ~IS_PEBBLE_FREE(h.ps[p]) \/ ~IS_PEBBLE_FREE(h.ps[q]) THEN h
      ELSE bucket_update_largest(
             [Swallow(h, p, q) EXCEPT !.bs[b].first = IF @ = q THEN p ELSE @], b)

melt_prev(h, p) ==
  LET q == h.ps[p].prev
      b == h.ps[p].parent
  IN  IF q = Null \/ ~IS_PEBBLE_FREE(h.ps[p]) \/ ~IS_PEBBLE_FREE(h.ps[q])
      THEN [h EXCEPT !.ret = p]
      ELSE LET g == [Swallow(h, q, p) EXCEPT !.ret = q,
                                             !.bs[b].first = IF @ = p THEN q ELSE @]
           IN  IF h.ps[q].parent \in DOMAIN h.bs
               THEN bucket_update_largest(g, h.ps[q].parent)
               ELSE [g EXCEPT !.status = "fault"]

-----------------------------------------------------------------------------
(* memset over headers.                                                     *)

\* A field at an offset in a header whose first k bytes have been zeroed.
Zeroed(v, k) == CASE k <= 0 -> v
                  [] k \in 1 .. 3 -> v - (v % (256 ^ k))
                  [] OTHER -> 0

ZeroPebble(p, k) ==
  [magic |-> FALSE, lflags |-> Zeroed(p.lflags, k - 4), size |-> Zeroed(p.size, k - 16),
   parent |-> Zeroed(p.parent, k - 36), prev |-> Zeroed(p.prev, k - 44),
   next |-> Zeroed(p.next, k - 52)]

ZeroBucket(b, k) ==
  [lflags |-> Zeroed(b.lflags, k - 4), largest_free |-> Zeroed(b.largest_free, k - 8),
   size |-> Zeroed(b.size, k - 16), first |-> Zeroed(b.first, k - 40),
   prev |-> Zeroed(b.prev, k - 48), next |-> Zeroed(b.next, k - 56)]

Covered(f, from, to) == {a \in DOMAIN f : from <= a /\ a < to}

\* memset(from, 0, to - from); no header starts before from and reaches into it.
memset_zero(h, from, to) ==
  [h EXCEPT !.ps = [a \in DOMAIN @ |-> IF a \in Covered(@, from, to)
                                       THEN ZeroPebble(@[a], to - a) ELSE @[a]],
            !.bs = [a \in DOMAIN @ |-> IF a \in Covered(@, from, to)
                                       THEN ZeroBucket(@[a], to - a) ELSE @[a]]]

-----------------------------------------------------------------------------
(* The public interface.                                                    *)

\* pebble.size of kmalloc: the mask is PAGESIZE - 1, not PEBBLE_MIN_ALIGN - 1,
\* so that most sizes are rounded down.
PebbleSize(size) == ((size + PEBBLE_MIN_ALIGN - 1) \div PAGESIZE) * PAGESIZE

ClearBlock(h, size) ==
  IF h.ret = Null THEN h ELSE memset_zero(h, h.ret, h.ret + size)

\* The first bucket of the chain that claims to have room and has it; else a
\* new bucket of size bytes (new_size is computed and not used), which stays
\* linked when the pebble does not fit into it.
kmalloc(h, want) ==
  LET size   == AtLeast(want, PEBBLE_MIN_SIZE)
      need   == PebbleSize(size)
      bucket == Hops(h.bs, KHEAPSTART)
      tried  == {n \in DOMAIN bucket : /\ bucket[n] \in DOMAIN h.bs
                                       /\ h.bs[bucket[n]].largest_free >= need}
      found  == {n \in tried : Fitting(h, bucket[n], need) # Null}
      stuck  == {n \in tried : /\ \A m \in found : n <= m
                               /\ Traversal(h.ps, h.bs[bucket[n]].first) # "ok"}
      fresh  == create_bucket(h, size, 0)
  IN  IF stuck # {}
      THEN [h EXCEPT !.status = Traversal(h.ps, h.bs[bucket[MinOf(stuck)]].first)]
      ELSE IF found # {}
      THEN ClearBlock(place_pebble(h, bucket[MinOf(found)], need), size)
      ELSE IF Traversal(h.bs, KHEAPSTART) # "ok"
      THEN [h EXCEPT !.status = Traversal(h.bs, KHEAPSTART)]
      ELSE ClearBlock(place_pebble(insert_bucket(fresh, fresh.ret), fresh.ret, need), size)

\* The end of kfree, for the bucket of the pebble that melt_prev returned.
ReleaseBucket(h, b) ==
  LET first == h.ps[h.bs[b].first] IN
  IF IS_PEBBLE_FREE(first) /\ first.prev = Null /\ first.next = Null
  THEN remove_bucket(h, b)
  ELSE bucket_update_largest(h, b)

\* A pointer whose header is no longer one is "wild": what its bytes say now is
\* not modelled.
kfree(h, ptr) ==
  LET p == ptr - PEBBLE
      k == h.ps[p]
      melted == melt_prev([h EXCEPT !.ps[p].lflags = FREE], p)
      merged == absorb_next(melted, melted.ret)
  IN  IF ptr = Null THEN h
      ELSE IF p \notin DOMAIN h.ps THEN [h EXCEPT !.status = "wild"]
      ELSE IF ~k.magic THEN h
      ELSE IF ~({k.prev, k.next} \subseteq DOMAIN h.ps \cup {Null})
      THEN [h EXCEPT !.status = "wild"]
      ELSE IF Traversal(h.ps, h.bs[k.parent].first) # "ok"
      THEN [h EXCEPT !.status = Traversal(h.ps, h.bs[k.parent].first)]
      ELSE IF melted.status # "ok" THEN melted
      ELSE ReleaseBucket(merged, k.parent)

\* Every byte from from to to lies in a bucket: the first one does, and so does the
\* byte behind each bucket that ends in between.
Readable(h, from, to) ==
  LET End(b) == b + h.bs[b].size * PAGESIZE IN
  \A x \in {from} \cup {End(b) : b \in DOMAIN h.bs} :
    from <= x /\ x < to => \E b \in DOMAIN h.bs : b <= x /\ x < End(b)

\* memcpy(ret, ptr, size) reads and writes size bytes whatever the blocks hold: it
\* writes over the headers behind a new block that is too small, and reads behind
\* the old block, which is always too small, and faults outside the buckets.  When
\* it reads the new block itself, which memcpy does not allow, only bytes that the
\* old block did not hold can differ.
CopyBlock(h, ptr, size) ==
  IF h.status # "ok" \/ h.ret = Null THEN h
  ELSE IF Covered(h.ps, h.ret, h.ret + size) \cup Covered(h.bs, h.ret, h.ret + size) # {}
  THEN [h EXCEPT !.status = "wild"]
  ELSE IF ~Readable(h, ptr, ptr + size) THEN [h EXCEPT !.status = "fault"]
  ELSE h

\* The rest of a growing krealloc: copied is the heap after kmalloc and memcpy.
\* The old block is freed even when kmalloc has failed.
FreeOld(copied, ptr) ==
  IF copied.status # "ok" THEN copied
  ELSE [kfree(copied, ptr) EXCEPT !.ret = copied.ret]

\* Shrinking splits the pebble; the tail keeps the IN_USE flag it was copied
\* with, and largest_free is left alone.
krealloc(h, ptr, size) ==
  LET p == ptr - PEBBLE
  IN  IF size = 0 THEN [kfree(h, ptr) EXCEPT !.ret = Null]
      ELSE IF ptr = Null THEN kmalloc(h, size)
      ELSE IF p \notin DOMAIN h.ps THEN [h EXCEPT !.status = "wild"]
      ELSE IF ~h.ps[p].magic THEN [h EXCEPT !.ret = Null]
      ELSE IF size <= h.ps[p].size
      THEN [h EXCEPT !.ret = ptr,
                     !.ps = split_pebble(@, p, size),
                     !.status = IF SplitTears(h, p, size) THEN "wild" ELSE @]
      ELSE FreeOld(CopyBlock(kmalloc(h, size), ptr, size), ptr)

-----------------------------------------------------------------------------
(* The heap in use: one call after another.                                 *)

VARIABLES
  heap,      \* the heap, as described above
  blocks,    \* what callers hold: the requested size by pointer
  clean,     \* no call so far was given a size the arithmetic gets wrong, or
             \* copied from outside the buckets
  stranded   \* buckets made by a kmalloc that then returned NULL

vars == <<heap, blocks, clean, stranded>>

\* kmalloc rounds the size up, not down.
GoodSize(n) == PebbleSize(AtLeast(n, PEBBLE_MIN_SIZE)) >= AtLeast(n, PEBBLE_MIN_SIZE)

\* Shrinking p to n bytes leaves room for the header of the tail.
GoodShrink(p, n) ==
  SPLIT_PEBBLE(p.size, n) => RoundUp(n, PEBBLE_MIN_ALIGN) + PEBBLE <= p.size

\* The copy of the block at ptr to n bytes, if h, the heap after kmalloc, has
\* room for them, reads only bytes of buckets.
GoodCopy(h, ptr, n) == h.ret # Null => Readable(h, ptr, ptr + n)

Running == heap.status = "ok"

\* kmalloc_init(0x1000), called from kernel_init.
Init ==
  /\ heap = create_bucket([ps |-> << >>, bs |-> << >>, end |-> KHEAPSTART,
                           ret |-> Null, status |-> "ok"], PAGESIZE, 0)
  /\ blocks = << >>
  /\ clean = TRUE
  /\ stranded = {}

NewBuckets(g) == IF g.ret = Null THEN DOMAIN g.bs \ DOMAIN heap.bs ELSE {}

Kmalloc(n) ==
  /\ Running
  /\ Cardinality(DOMAIN blocks) < MAXLIVE
  /\ \E g \in {kmalloc(heap, n)} :
       /\ g.end <= MAXHEAP
       /\ heap' = g
       /\ blocks' = IF g.status = "ok" /\ g.ret # Null THEN Put(blocks, g.ret, n) ELSE blocks
       /\ stranded' = (stranded \cup NewBuckets(g)) \cap DOMAIN g.bs
  /\ clean' = (clean /\ GoodSize(n))

Kfree(ptr) ==
  /\ Running
  /\ \E g \in {kfree(heap, ptr)} :
       /\ heap' = [g EXCEPT !.ret = Null]
       /\ stranded' = stranded \cap DOMAIN g.bs
  /\ blocks' = Drop(blocks, {ptr})
  /\ UNCHANGED clean

\* The caller gives up the old pointer whatever krealloc returns.
Krealloc(ptr, n) ==
  LET p == heap.ps[ptr - PEBBLE]
      kept == Drop(blocks, {ptr})
  IN
  /\ Running
  /\ ptr - PEBBLE \in DOMAIN heap.ps
  /\ \E g \in {krealloc(heap, ptr, n)} :
       /\ Cardinality(DOMAIN g.ps) <= MAXPEBBLES
       /\ g.end <= MAXHEAP
       /\ heap' = g
       /\ blocks' = IF g.status = "ok" /\ g.ret # Null THEN Put(kept, g.ret, n) ELSE kept
       /\ stranded' = (stranded \cup NewBuckets(g)) \cap DOMAIN g.bs
  /\ clean' = (clean /\ (n = 0 \/ IF n <= p.size THEN GoodShrink(p, n)
                                  ELSE GoodSize(n) /\ GoodCopy(kmalloc(heap, n), ptr, n)))

Next ==
  \/ \E n \in Requests : Kmalloc(n)
  \/ \E ptr \in DOMAIN blocks : Kfree(ptr)
  \/ \E ptr \in DOMAIN blocks, n \in Reallocs : Krealloc(ptr, n)

Spec == Init /\ [][Next]_vars

-----------------------------------------------------------------------------

BucketEnd(b) == b + heap.bs[b].size * PAGESIZE
PebbleEnd(p) == p + PEBBLE + heap.ps[p].size
PebblesOf(b) == {p \in DOMAIN heap.ps : heap.ps[p].parent = b}
Free(p) == IS_PEBBLE_FREE(heap.ps[p])

\* No sequence of calls with sizes the arithmetic gets right makes a traversal
\* of place_pebble or bucket_update_largest run forever, follows a bad pointer
\* or writes data over a header; nor does a krealloc whose copy, which reads the
\* new size from the smaller old block, stays within the buckets.
NeverStuck == clean => Running

\* The pebbles of a bucket, in the order of the list from bucket->first, cover
\* its bytes without gap or overlap, the prev links mirror the next links, and
\* no pebble is missing from its bucket's list: split_pebble, absorb_next and
\* melt_prev neither lose nor duplicate a byte.
Tiling ==
  clean => \A b \in DOMAIN heap.bs :
    /\ heap.bs[b].first = b + BUCKET
    /\ OnList(heap.ps, heap.bs[b].first) = PebblesOf(b)
    /\ heap.ps[b + BUCKET].prev = Null
    /\ \A p \in PebblesOf(b) :
         IF heap.ps[p].next = Null THEN PebbleEnd(p) = BucketEnd(b)
         ELSE /\ heap.ps[p].next = PebbleEnd(p)
              /\ heap.ps[heap.ps[p].next].prev = p

\* A block a caller holds has an in-use header just below it, at least the
\* bytes asked for, and shares none of them with another block or with a
\* header of the allocator.
BlocksSafe ==
  clean => \A ptr \in DOMAIN blocks :
    LET bytes == blocks[ptr] IN
    /\ ptr - PEBBLE \in DOMAIN heap.ps
    /\ ~Free(ptr - PEBBLE)
    /\ heap.ps[ptr - PEBBLE].size >= bytes
    /\ \A q \in DOMAIN heap.ps : q >= ptr + bytes \/ q + PEBBLE <= ptr
    /\ \A b \in DOMAIN heap.bs : b >= ptr + bytes \/ b + BUCKET <= ptr

\* Two free pebbles are never neighbours: kfree merges in both directions.
Coalesced ==
  clean => \A p \in DOMAIN heap.ps :
    heap.ps[p].next # Null /\ Free(p) => ~Free(heap.ps[p].next)

\* Every bucket is on the chain that starts at KHEAPSTART, which stays its
\* head; the links mirror each other and the buckets do not overlap.  An empty
\* bucket goes back to munmap with its last block: a bucket without a pebble in
\* use is the first one, or was left behind by a kmalloc that could not use it.
BucketChain ==
  clean =>
    /\ OnList(heap.bs, KHEAPSTART) = DOMAIN heap.bs
    /\ heap.bs[KHEAPSTART].prev = Null
    /\ \A b \in DOMAIN heap.bs :
         /\ heap.bs[b].next # Null => heap.bs[heap.bs[b].next].prev = b
         /\ BucketEnd(b) <= heap.end
         /\ \A c \in DOMAIN heap.bs : b < c => BucketEnd(b) <= c
         /\ b \notin stranded \cup {KHEAPSTART} => \E p \in PebblesOf(b) : ~Free(p)

\* kmalloc takes a new bucket only when no pebble of any bucket would do: the
\* cached largest_free, which is not refreshed everywhere, never hides room.
GrowsForNeed ==
  [][clean /\ heap'.end # heap.end =>
       \E n \in Requests \cup Reallocs :
          /\ \/ Kmalloc(n)
             \/ \E ptr \in DOMAIN blocks : Krealloc(ptr, n)
          /\ \A p \in DOMAIN heap.ps :
               Free(p) => heap.ps[p].size < PebbleSize(AtLeast(n, PEBBLE_MIN_SIZE))]_vars

\* A call changes no block but the one that it was given: every other block is
\* still held, and no split or merge moves or resizes its header.
OthersKept ==
  [][clean' =>
       \E given \in DOMAIN blocks \cup {Null} :
         /\ given # Null => Kfree(given) \/ \E n \in Reallocs : Krealloc(given, n)
         /\ \A ptr \in DOMAIN blocks \ {given} :
              /\ ptr \in DOMAIN blocks' /\ blocks'[ptr] = blocks[ptr]
              /\ ptr - PEBBLE \in DOMAIN heap'.ps
              /\ heap'.ps[ptr - PEBBLE].size = heap.ps[ptr - PEBBLE].size]_vars

\* pebble->size is the "Number of bytes requested for pebble" (bucketalloc.h): a
\* block has room for what was asked for.
BlockHoldsRequest ==
  \A ptr \in DOMAIN blocks :
    ptr - PEBBLE \in DOMAIN heap.ps => heap.ps[ptr - PEBBLE].size >= blocks[ptr]

\* SPLIT_PEBBLE "Checks if pebble is big enough to split" (bucketalloc.h): the
\* size left for the tail never wraps.
SplitFits == \A p \in DOMAIN heap.ps : heap.ps[p].size <= MAXHEAP

=============================================================================
