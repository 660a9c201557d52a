SPECIFICATION LibcoSpec
CONSTANTS
  NCo = 2
  MaxStarts = 2
  MaxYields = 1
  STACK_SIZE = 65536
  Fields = 248
INVARIANTS
  StackHeadAboveEnd
CHECK_DEADLOCK FALSE
