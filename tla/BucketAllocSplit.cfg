SPECIFICATION Spec
CONSTANTS
  KHEAPSTART <- Start
  WORDMOD = 1073741824
  Requests = {16384}
  Reallocs = {8001}
  MAXLIVE = 2
  MAXPEBBLES = 6
  MAXHEAP <- ThreeBuckets
INVARIANT SplitFits
CHECK_DEADLOCK FALSE
