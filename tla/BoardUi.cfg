SPECIFICATION UiSpec
CONSTANTS
  Retain = 1
  MaxTime = 2
  MaxFrames = 2
  MaxTroubles = 2
  Clients = {c1, c2}
  Backlog = 2
  MaxRestarts = 2
  None = none
  FullBar = 2
  MaxLines = 2
  MaxRuns = 2
INVARIANTS
  UiTypeOK
  ServesLastValid
  SampleIsCurrent
  AppliesOwnUpload
  AnswerTellsOutcome
  ShowsLastResult
PROPERTIES
  ExpiredGoes
  EveryClientEnds
  ButtonsComeBack
CHECK_DEADLOCK FALSE
