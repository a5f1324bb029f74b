SPECIFICATION Spec
CONSTANTS
    Cap = 3
    MaxDelay = 1
    MaxTotal = 2
    MaxBlob = 4
    Chunk = 2
    FrameSizes = {0, 1, 2}
    RequestSizes = {1, 3}
    RedactedSizes = {0, 3}
    Modes <- MCModes
    MaxFrames = 4
    MaxClock = 2
INVARIANTS
    TimelineRecorded
    BodyReplayed
    CadenceReproduced
CHECK_DEADLOCK FALSE
