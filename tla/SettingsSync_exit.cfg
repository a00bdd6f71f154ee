CONSTANTS
  Daemons = {"gps", "cmd"}
  MaxRunning = 1
  MaxWrites = 2
  MaxExits = 1
  MaxCrashes = 0
SPECIFICATION Spec
INVARIANTS EverySaveShown
CHECK_DEADLOCK FALSE
