SPECIFICATION FairSpec
CONSTANTS
    Workers = {w1}
    Sizes = {2}
    BufferSize = 3
    NoEcho = FALSE
    PacketSize = 0
    MaxPackets = 2
    MaxPasses = 1
    MaxLag = 2
CHECK_DEADLOCK FALSE
INVARIANTS TypeOK CounterBounded ExactUnlessRaced
PROPERTY StopEnds
