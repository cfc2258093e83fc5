SPECIFICATION FairSpec
CONSTANTS
  Procs = {p1}
  Requests = {"r1"}
  VersionOf <- Versions
  MaxAttempts = 2
  EarlyUpdates = FALSE
  TornEnv = TRUE
  MaxRuns = 2
  MaxFaults = 1
PROPERTY
  BootNotBlocked
CHECK_DEADLOCK FALSE
