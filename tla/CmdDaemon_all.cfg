CONSTANTS
    Cmds = {ring, cam}
    Cameras = {cam}
    MaxPhases = 2
    MaxFaults = 2
    AutoData = FALSE
    None = none
SPECIFICATION FairSpec
INVARIANTS AcksGoOut
PROPERTIES AcceptedIsExecuted PhotosGetUploaded
CHECK_DEADLOCK FALSE
