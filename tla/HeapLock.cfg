SPECIFICATION Spec
CONSTANTS
  Cores <- ThreeCores
  Sizes = {1, 17}
  KHEAPSTART <- HeapStart
  Pointers <- AllPointers
  MAXCALLS = 3
INVARIANTS TypeOK Mutex RegionsApart
PROPERTIES SomeoneEnters IsAtomic
CHECK_DEADLOCK FALSE
