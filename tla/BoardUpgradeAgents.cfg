\* Two ota-agent processes behind the agent lock, updates at any time of the boot,
\* two faults (power losses, with or without a torn environment, or kills).
CONSTANTS
  a1 = a1
  a2 = a2
  Agents = {a1, a2}
  Direct = {}
  Packages <- RootfsPackages
  BootLimit = 3
  RollbackOnFail = TRUE
  NfsRoot = FALSE
  EarlyUpdates = TRUE
  TornEnv = TRUE
  MaxFaults = 2
  MaxUpdates = 3
SPECIFICATION Spec
CHECK_DEADLOCK FALSE
INVARIANTS
  TypeOK
  RunningSlotNotWritten
  ActivatesWhatItWrote
  SomeRootfsBoots
  TrialIsCounted
  BootcountBounded
  SwitchesAtMostOnce
