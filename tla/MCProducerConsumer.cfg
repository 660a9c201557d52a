SPECIFICATION FairSpec
CONSTANTS
  NThreads = 4
  MaxFailures = 2
  N = 1
  NProducers = {1, 2, 3}
INVARIANTS
  OutputNested
  NobodyStuckNeedlessly
  NodeNotFreedWhileUsed
  JoinFnRunsLast
PROPERTIES
  OverRunsIffBalanced
CHECK_DEADLOCK FALSE
