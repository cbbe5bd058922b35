SPECIFICATION RecoverySpec
CONSTANTS
  InputCapacity = 2
  OutputCapacity = 1
  AssignsSequences = TRUE
  JournalModes = {"none", "buffered", "synchronous"}
  MaxCommands = 4
  MaxEvents = 2
  MaxCrashes = 3
INVARIANTS
  EventsInOrder
  NoGaps
  ToldIsDurable
  RoutesAgree
PROPERTIES
  RecoveredIsReal
  StopReturns
  EverythingDelivered
CHECK_DEADLOCK FALSE
