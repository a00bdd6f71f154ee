CONSTANTS
    Threads = {manual, poll}
    MaxFixes = 2
    MaxRequests = 2
    MaxFaults = 1
    MaxDeaths = 1
SPECIFICATION FairSpec
INVARIANTS FixAnswersRequest AppForgetsNothing NewestFirst
PROPERTIES OnlyStaleWipes TakenIsDelivered
CHECK_DEADLOCK FALSE
