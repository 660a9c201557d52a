SPECIFICATION SperfFairSpec
CONSTANTS
  Func = {"read", "write", "fragment"}
  Fragments = {"fragment"}
  MaxTime = 1
  Paths = 2
  MaxChunks = 4
  PipeSize = 1
  Max_Output_Num = 2
INVARIANTS
  ListIsSummary
  ShowCorrect
  CountedOnce
PROPERTIES
  Ends
CHECK_DEADLOCK FALSE
