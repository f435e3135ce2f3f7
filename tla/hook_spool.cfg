SPECIFICATION FairSpec
CONSTANTS
  Hooks = {h1, h2, h3}
  MaxFaults = 2
  MaxCrashes = 2
INVARIANTS SpoolIsReadable SpooledIsKept
PROPERTIES StrandsByAccident 
CHECK_DEADLOCK FALSE
