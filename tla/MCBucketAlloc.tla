---------------------------- MODULE MCBucketAlloc ----------------------------
(***************************************************************************)
(* BucketAlloc on a heap of three buckets of 17 pages.                      *)
(***************************************************************************)
EXTENDS BucketAlloc

P(n) == 4096 * n

Start == P(10)
ThreeBuckets == Start + 3 * P(17)

\* Sizes kmalloc rounds up: 63 bytes less than four pages (placed as four),
\* most of a bucket, and 17 pages, which no bucket of 17 pages holds.
PageSizes == {P(4) - 63, P(12), P(17)}

\* Freeing, splitting a block or leaving it whole, and growing it.
PageReallocs == {0, 8000, P(12)}

=============================================================================
