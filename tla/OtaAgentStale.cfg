SPECIFICATION Spec
CONSTANTS
  Procs = {p1}
  Requests = {"r1"}
  VersionOf <- Versions
  MaxAttempts = 1
  EarlyUpdates = FALSE
  TornEnv = FALSE
  MaxRuns = 1
  MaxFaults = 0
INVARIANT
  CommittedNotReportedFailed
CHECK_DEADLOCK FALSE
