SPECIFICATION FairSpec
CONSTANTS
  NThreads = 5
  MaxFailures = 0
  CondVar = {"cv"}
  MaxSpurious = 1
  roles <- MCRoles
INVARIANTS
  ClaimStaysValid
  OnePrinter
PROPERTIES
  PrintsFish
  KeepsPrinting
