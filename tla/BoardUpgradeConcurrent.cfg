\* An agent and a caller of ota-apply that does not take the lock.
CONSTANTS
  a1 = a1
  web = web
  Agents = {a1}
  Direct = {web}
  Packages <- RootfsPackages
  BootLimit = 3
  RollbackOnFail = TRUE
  NfsRoot = FALSE
  EarlyUpdates = FALSE
  TornEnv = FALSE
  MaxFaults = 0
  MaxUpdates = 2
SPECIFICATION Spec
CHECK_DEADLOCK FALSE
INVARIANTS
  RunningSlotNotWritten
