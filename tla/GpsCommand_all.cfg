CONSTANTS
    Cmds = {gps, del}
    Wipes = {del}
    MaxSwitches = 1
    AutoLocation = TRUE
    Requests <- MCRequests
    Messages <- MCMessages
    Reboots <- MCReboots
    StartBurst = 1
    MaxFaults = 1
    None = none
SPECIFICATION FairSpec
INVARIANTS ReportIsTrue
PROPERTIES ImplementsOnce CommandEnds SpoolComesToRest
CHECK_DEADLOCK FALSE
