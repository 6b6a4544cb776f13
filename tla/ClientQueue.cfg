SPECIFICATION Spec
CONSTANTS
    Runs = {r1}
    MaxStreams = 1
    MaxFrames = 2
    MediaCapacity = 1
    EventCapacity = 1
    ControlCapacity = 1
INVARIANTS CloseIsShared
PROPERTIES EndFollowsMedia EndReturns
CHECK_DEADLOCK FALSE
