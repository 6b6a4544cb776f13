SPECIFICATION Safety
CONSTANTS
    Runs = {r1}
    MaxStreams = 1
    MaxFrames = 2
    MediaCapacity = 1
    EventCapacity = 1
    ControlCapacity = 1
INVARIANTS RevokedIsInactive
CHECK_DEADLOCK FALSE
