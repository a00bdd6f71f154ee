CONSTANTS
    Workers = {w1, w2}
    MaxRings = 2
    MaxCommands = 3
    None = none
SPECIFICATION FairSpec
INVARIANTS RingIsShown
PROPERTIES RingEnds StopStops CaptureEnds
CHECK_DEADLOCK FALSE
