SPECIFICATION Spec
CONSTANTS
    Workers = {w1}
    Sizes = {1}
    BufferSize = 3
    NoEcho = FALSE
    PacketSize = 0
    MaxPackets = 2
    MaxPasses = 1
    MaxLag = 1
CHECK_DEADLOCK FALSE
INVARIANT ReportsExact
