SPECIFICATION Spec
CONSTANTS
  Calls <- SomeCalls
  Prints <- SomePrints
  PRINTBUFLEN = 23
INVARIANTS MovesBytes FindsFirst WritesNumeral PrintsPieces
PROPERTY Contained
CHECK_DEADLOCK FALSE
