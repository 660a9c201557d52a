SPECIFICATION Spec
CONSTANTS
  NThreads = 2
  MaxFailures = 0
  Rounds = 1
  Programs = {"spinlock"}
INVARIANTS
  LockedInside
CHECK_DEADLOCK FALSE
