\* The step-by-step writes against the atomic A/B protocol: two agents, the NFS root
\* in the boot menu, two faults, with or without the loss of the environment.
CONSTANTS
  a1 = a1
  a2 = a2
  Agents = {a1, a2}
  Direct = {}
  Packages <- RootfsPackages
  BootLimit = 3
  RollbackOnFail = TRUE
  NfsRoot = TRUE
  EarlyUpdates = FALSE
  TornEnv = TRUE
  MaxFaults = 2
  MaxUpdates = 3
SPECIFICATION Spec
CHECK_DEADLOCK FALSE
PROPERTIES
  ImplementsABUpdate
