SPECIFICATION Spec
CONSTANTS
    Ids = {s1, s2}
    Addresses = {a1}
    Streams = {1}
    Timestamps = {0}
    Half = 1
    MaxClients = 2
    SessionTimeout = 0
    GrantTimeout = 0
    MediaTimeout = 0
    TransmitTimeLimit = 0
    MaxGaps = 0
    MaxPendingNotifications = 2
    MaxPendingPerClient = 2
    MaxAttempts = 2
    RetryDelay <- NextTick
    Fails <- NoFailures
    MaxRanges = 2
    Drift = 0
    Homes <- AnyAddress
    NoSession = NoSession
    NoFloor = NoFloor
    NoEnd = NoEnd
    NoPeer = NoPeer
PROPERTIES ReleaseIsAnnounced NotificationsEnd DrainCompletes
