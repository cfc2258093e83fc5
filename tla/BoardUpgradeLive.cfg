\* The trial from start to end: dead and unhealthy updates, two faults.
CONSTANTS
  a1 = a1
  Agents = {a1}
  Direct = {}
  Packages <- RootfsPackages
  BootLimit = 3
  RollbackOnFail = TRUE
  NfsRoot = FALSE
  EarlyUpdates = FALSE
  TornEnv = FALSE
  MaxFaults = 2
  MaxUpdates = 3
SPECIFICATION FairSpec
CHECK_DEADLOCK FALSE
INVARIANTS
  CommitsTriedSlot
  TrialUnlessFault
PROPERTIES
  BootedTrialSettles
  HungSlotFallsBack
