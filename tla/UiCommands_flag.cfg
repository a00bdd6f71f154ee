CONSTANTS
    OtherCommands = {LOCK}
    MaxTaps = 1
SPECIFICATION UiSpec
INVARIANTS FlaggedIsSilent
CHECK_DEADLOCK FALSE
