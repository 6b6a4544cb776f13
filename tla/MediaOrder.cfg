SPECIFICATION Spec
CONSTANTS
    Ids = {s1}
    Addresses = {a1}
    Streams = {1}
    Timestamps = {0, 1}
    Half = 4
    MaxSent = 19
    MaxClients = 1
    SessionTimeout = 2
    GrantTimeout = 1
    MediaTimeout = 1
    TransmitTimeLimit = 1
    NoSession = NoSession
    NoFloor = NoFloor
    NoEnd = NoEnd
INVARIANTS GapsAreLosses EndHasOneOutcome
PROPERTIES ForwardedInOrder FloorIsFreed
CHECK_DEADLOCK FALSE
