SPECIFICATION Spec
CONSTANTS
    t1 = t1
    t2 = t2
    t3 = t3
    Threads <- TwoThreads
    Levels = 1
    SelfEnding = FALSE
    StopRounds = 1
    Settles = FALSE
    MayFail = FALSE
INVARIANTS StopThreadsStops
