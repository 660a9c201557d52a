SPECIFICATION FairSpec
CONSTANTS
  NThreads = 5
  MaxFailures = 0
  CondVar = {"empty", "fill"}
  MaxSpurious = 1
  roles <- MCRoles
INVARIANTS
  ClaimStaysValid
  BuffFollowsOutput
PROPERTIES
  PrintsBalanced
  KeepsPrinting
