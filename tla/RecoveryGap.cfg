SPECIFICATION RecoverySpec
CONSTANTS
  InputCapacity = 2
  OutputCapacity = 1
  AssignsSequences = FALSE
  JournalModes = {"synchronous"}
  MaxCommands = 2
  MaxEvents = 1
  MaxCrashes = 1
PROPERTY RecoveredIsReal
CHECK_DEADLOCK FALSE
