CONSTANTS
  Daemons = {"gps", "cmd"}
  MaxRunning = 1
  MaxWrites = 3
  MaxExits = 1
  MaxCrashes = 1
SPECIFICATION FairSpec
INVARIANTS NoFalseConfirmation
PROPERTIES SavesGetApplied
CHECK_DEADLOCK FALSE
