SPECIFICATION Safety
CONSTANTS
    Ids = {s1, s2}
    Addresses = {s1, s2}
    Streams = {1}
    Timestamps = {0}
    Half = 1
    MaxClients = 2
    SessionTimeout = 1
    GrantTimeout = 0
    MediaTimeout = 0
    TransmitTimeLimit = 0
    MaxGaps = 0
    MaxPendingNotifications = 3
    MaxPendingPerClient = 2
    MaxAttempts = 2
    RetryDelay <- ShortRetry
    Fails <- NoFailures
    MaxRanges = 1
    Drift = 0
    Homes <- OwnAddress
    NoSession = NoSession
    NoFloor = NoFloor
    NoEnd = NoEnd
    NoPeer = NoPeer
SYMMETRY Symmetry
PROPERTIES EveryListenerRevoked
