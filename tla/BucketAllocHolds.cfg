SPECIFICATION Spec
CONSTANTS
  KHEAPSTART <- Start
  WORDMOD = 1073741824
  Requests = {8}
  Reallocs = {0}
  MAXLIVE = 2
  MAXPEBBLES = 6
  MAXHEAP <- ThreeBuckets
INVARIANT BlockHoldsRequest
CHECK_DEADLOCK FALSE
