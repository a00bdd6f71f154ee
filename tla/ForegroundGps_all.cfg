SPECIFICATION FairPollSpec
CONSTANTS
  Ticks = {t1, t2, t3, t4}
  NoTimer = none
  MaxSaves = 2
  MaxTurns = 1
  Faults = TRUE
INVARIANTS OneChain
PROPERTIES PollingGoesOn HandsOver
CHECK_DEADLOCK FALSE
