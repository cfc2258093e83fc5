SPECIFICATION Spec
CONSTANTS
  Procs = {p1, p2}
  Requests = {"r1", "r2"}
  VersionOf <- Versions
  MaxAttempts = 1
  EarlyUpdates = FALSE
  TornEnv = TRUE
  MaxRuns = 2
  MaxFaults = 2
INVARIANTS
  TypeOK
  OnePipeline
  RemembersLastRequest
  CommitsNothingReportedFailed
  SettledAfterBoot
SYMMETRY Callers
CHECK_DEADLOCK FALSE
