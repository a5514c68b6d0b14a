SPECIFICATION Spec
CONSTANTS
  LIST = 409600
  SLOTS = 6
  WORDMOD = 1073741824
  RAM <- MCRAM
  CR3 = 4096
  FANOUT = 2
  Region <- MCRegion
  JunkTable <- MCJunk
  BootLayouts <- MCBootLayouts
  Sizes = {1, 3}
  MAXHEAP = 40960
  NULLCALLS = 1
CHECK_DEADLOCK FALSE
INVARIANT RegionBacked
