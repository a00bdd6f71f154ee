CONSTANTS
    Cmds = {gps}
    Wipes = {}
    MaxSwitches = 0
    AutoLocation = TRUE
    Requests <- MCRequests
    Messages <- MCMessages
    Reboots <- MCReboots
    StartBurst = 5
    MaxFaults = 1
    None = none
SPECIFICATION FairSpec
PROPERTY QueuedIsTakenUp
CHECK_DEADLOCK FALSE
