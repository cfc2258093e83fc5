\* An operator with the failover tool, updates and a fault.
CONSTANTS
  a1 = a1
  Agents = {a1}
  Direct = {}
  Packages <- RootfsPackages
  BootLimit = 3
  RollbackOnFail = TRUE
  NfsRoot = FALSE
  EarlyUpdates = FALSE
  TornEnv = FALSE
  MaxFaults = 1
  MaxUpdates = 2
  MaxLab = 3
SPECIFICATION LabSpec
CHECK_DEADLOCK FALSE
INVARIANTS
  TrialIsCounted
