SPECIFICATION FairSpec
CONSTANTS
    t1 = t1
    t2 = t2
    t3 = t3
    Threads <- ThreeThreads
    Levels = 2
    SelfEnding = TRUE
    StopRounds = 3
    Settles = TRUE
    MayFail = TRUE
INVARIANTS TypeOK NoneLeft OneBody
PROPERTIES StopEnds
