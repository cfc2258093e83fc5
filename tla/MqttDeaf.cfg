SPECIFICATION FairSpec
CONSTANTS
  MaxCommands = 1
  Broker = "broker"
  Hosts <- OnlyBroker
  MaxChanges = 1
  MaxFaults = 0
PROPERTY
  ReconnectsAndResubscribes
CHECK_DEADLOCK FALSE
