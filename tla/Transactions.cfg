SPECIFICATION Spec
CONSTANTS
    Ids = {s1, s2}
    Addresses = {a1, a2}
    Txs = {t1}
    Bodies = {1, 2}
    MaxNonces = 2
    MaxClients = 2
    MaxChallenges = 2
    MaxCompleted = 3
    MaxPerSession = 1
    ChallengeTimeout = 1
    Retention = 2
    QueueFull = {TRUE, FALSE}
    Nobody = Nobody
INVARIANTS AppliedOnce OneSessionPerChallenge ChallengeIsRepeatable DisconnectIsRepeatable
PROPERTIES LimitsRecede
