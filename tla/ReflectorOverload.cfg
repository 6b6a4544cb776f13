SPECIFICATION Safety
CONSTANTS
    Ids = {s1, s2, s3}
    Addresses = {s1, s2, s3}
    Streams = {1}
    Timestamps = {0}
    Half = 1
    MaxClients = 3
    SessionTimeout = 0
    GrantTimeout = 0
    MediaTimeout = 0
    TransmitTimeLimit = 0
    MaxGaps = 0
    MaxPendingNotifications = 2
    MaxPendingPerClient = 1
    MaxAttempts = 2
    RetryDelay <- NextTick
    Fails <- FirstOrNext
    MaxRanges = 1
    Drift = 0
    Homes <- OwnAddress
    NoSession = NoSession
    NoFloor = NoFloor
    NoEnd = NoEnd
    NoPeer = NoPeer
SYMMETRY Symmetry
INVARIANTS TablesAgree StartsAreCurrent ListenersAreTold
PROPERTIES ReleaseIsAnnounced
