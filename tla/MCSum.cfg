SPECIFICATION FairSpec
CONSTANTS
  NThreads = 3
  MaxFailures = 1
  Rounds = 2
  Programs = {"sum", "sum-atomic", "spinlock"}
INVARIANTS
  AtomicSumExact
  RacySumBounds
PROPERTIES
  Terminates
CHECK_DEADLOCK FALSE
