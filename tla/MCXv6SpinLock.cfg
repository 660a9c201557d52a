SPECIFICATION FairSpec
CONSTANTS
  NCPU = 2
  NLock = 2
  MaxDepth = 2
INVARIANTS
  NoPanic
  SuspendedHoldsNothing
  InterruptsRestored
PROPERTIES
  ImplementsLock
  SomebodyGetsIn
