SPECIFICATION Spec
CONSTANTS
  Screens <- SomeScreens
  MAXLINES = 6
INVARIANTS TypeOK InBounds Window
CHECK_DEADLOCK FALSE
