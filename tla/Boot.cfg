SPECIFICATION Spec
CONSTANTS
  Answers <- SomeAnswers
  Maps <- SomeMaps
  Missing <- SomeMissing
  Ends <- SomeEnds
  Ports = {TRUE, FALSE}
  MAXNEST = 3
INVARIANTS TypeOK FramesSuffice RegionSound LineSet EveryException
PROPERTIES BootCompletes FaultReported
CHECK_DEADLOCK FALSE
