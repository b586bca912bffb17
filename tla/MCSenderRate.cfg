SPECIFICATION Spec
CONSTANTS
    Second = 4
    Runtime = 1
    Zeitscheibe = 1
    Timeout = 1
    CheckInterval = 2
    StartLatency = 1
    QueryRates = {2, 5}
    IgnoreResponses = TRUE
    Errnos = {e1}
    MaxLevels = 1
    MaxClock = 7
    MaxUnlimited = 2
INVARIANTS TypeOK OnPlan
PROPERTY ImplementsLoadPhase
