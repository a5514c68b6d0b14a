SPECIFICATION Spec
CONSTANTS
  KHEAPSTART <- Start
  WORDMOD = 1073741824
  Requests <- PageSizes
  Reallocs <- PageReallocs
  MAXLIVE = 3
  MAXPEBBLES = 6
  MAXHEAP <- ThreeBuckets
INVARIANTS NeverStuck Tiling BlocksSafe Coalesced BucketChain
PROPERTIES GrowsForNeed OthersKept
CHECK_DEADLOCK FALSE
