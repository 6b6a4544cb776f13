CONSTANTS
    RecentEvents = 2
    MaxDrops = 2
    MaxGaps = 1
    MaxEvents = 1
SPECIFICATION Spec
INVARIANTS CloseAfterDrain FailureIsReported EventsAreKept
PROPERTIES Stops DropsAreCounted
CHECK_DEADLOCK FALSE
