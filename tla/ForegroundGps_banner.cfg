SPECIFICATION PollSpec
CONSTANTS
  Ticks = {t1, t2, t3, t4}
  NoTimer = none
  MaxSaves = 2
  MaxTurns = 0
  Faults = FALSE
INVARIANTS NoStaleBanner
CHECK_DEADLOCK FALSE
