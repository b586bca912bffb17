SPECIFICATION FairSpec
CONSTANTS
    Callers = {c1, c2, c3}
    NULL = NULL
CHECK_DEADLOCK FALSE
INVARIANTS TypeOK NoLostWakeup
PROPERTIES SuspendObeyed StopReturns
