SPECIFICATION Spec
CONSTANTS
  LIST = 8388608
  SLOTS = 12
  WORDMOD = 1073741824
  Regions <- SomeRegions
  JUNK = 7
  FRAME_CAP = 11
  BYTE_CAP = 12287
CHECK_DEADLOCK FALSE
INVARIANT EmptyFails
