SPECIFICATION LibcoFairSpec
CONSTANTS
  NCo = 3
  MaxStarts = 5
  MaxYields = 2
  STACK_SIZE = 65536
  Fields = 248
INVARIANTS
  JumpsLandInLiveFrames
  ListIsAlive
  MainCanBeResumed
  ReturnsOnceOrSuspended
PROPERTIES
  GivesWay
  WaitsEnd
CHECK_DEADLOCK FALSE
