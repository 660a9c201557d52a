SPECIFICATION ExecSpec
CONSTANTS
  PGSIZE = 16
  KERNBASE = 96
  Wrap = 128
  MAXARG = 3
  MaxArgs = 4
  MaxWords = 70
  phnum = 2
  Headers <- MCHeaders
INVARIANTS
  AllOrNothing
  Released
  ArgsOnStack
  SegmentsMapped
CHECK_DEADLOCK FALSE
