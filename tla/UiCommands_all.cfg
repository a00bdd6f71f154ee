CONSTANTS
    OtherCommands = {}
    MaxTaps = 3
SPECIFICATION FairUiSpec
INVARIANTS StopButtonBacked OnlyNewestFlags
PROPERTIES SentIsSettled
CHECK_DEADLOCK FALSE
