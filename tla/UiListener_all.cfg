CONSTANTS
    Ids = {a, b}
    Clients = {c1, c2}
    Restarts = {r1, r2}
    MaxEdits = 2
    MaxFaults = 1
    None = none
SPECIFICATION FairSpec
INVARIANTS HearsItsDevices GreyedForReason
PROPERTIES RowsHaveDevices HearsAgain
CHECK_DEADLOCK FALSE
