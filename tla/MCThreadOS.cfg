SPECIFICATION FairSpec
CONSTANTS
  NTask = 3
  MaxCPU = 4
  Machines <- MCMachines
INVARIANTS
  TaskOnOneCPU
  ContextUpToDate
  BiglockExclusive
PROPERTIES
  EveryTaskRuns
  KeepsPrinting
