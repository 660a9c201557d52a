SPECIFICATION Spec
CONSTANTS
  NTask = 2
  MaxCPU = 2
  Machines <- MCTwoCPUs
INVARIANTS
  PagesDisjoint
