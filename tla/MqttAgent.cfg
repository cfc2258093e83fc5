SPECIFICATION FairSpec
CONSTANTS
  MaxCommands = 2
  Broker = "broker"
  Hosts <- Lan
  MaxChanges = 1
  MaxFaults = 1
INVARIANTS
  TypeOK
  PopsWholeCommands
  StatusesInOrder
PROPERTIES
  KeptIsAnswered
  ComesBack
CHECK_DEADLOCK FALSE
