SPECIFICATION Spec
CONSTANTS
    Ids = {s1, s2}
    Addresses = {a1, a2}
    Streams = {0, 1}
    Timestamps = {0, 1}
    Half = 2
    MaxClients = 2
    SessionTimeout = 2
    GrantTimeout = 1
    MediaTimeout = 1
    TransmitTimeLimit = 2
    MaxGaps = 1
    NoSession = NoSession
    NoFloor = NoFloor
    NoEnd = NoEnd
INVARIANTS TypeOK OwnerIsReadySession
PROPERTIES ReleaseReported TickEnforcesLimits ImplementsFloor
