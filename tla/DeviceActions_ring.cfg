CONSTANTS
    Workers = {w1, w2}
    MaxRings = 2
    MaxCommands = 3
    None = none
SPECIFICATION FairSpec
PROPERTIES EveryRingEnds
CHECK_DEADLOCK FALSE
