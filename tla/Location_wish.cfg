CONSTANTS
    Threads = {manual, poll}
    MaxFixes = 2
    MaxRequests = 2
    MaxFaults = 1
    MaxDeaths = 1
SPECIFICATION Spec
INVARIANT WishIsKept
CHECK_DEADLOCK FALSE
