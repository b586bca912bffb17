SPECIFICATION FairSpec
CONSTANTS
    Second = 3
    Runtime = 1
    Zeitscheibe = 2
    Timeout = 1
    CheckInterval = 2
    StartLatency = 1
    QueryRates = {0, 1}
    IgnoreResponses = FALSE
    Errnos = {e1}
    MaxLevels = 2
    MaxClock = 5
    MaxUnlimited = 2
INVARIANTS StopHonoured DurationPositive NoOrphanReceiver
PROPERTIES LevelEnds
