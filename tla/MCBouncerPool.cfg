SPECIFICATION Spec
CONSTANTS
    Workers = {w1, w2}
    Sizes = {2}
    BufferSize = 3
    NoEcho = FALSE
    PacketSize = 0
    MaxPackets = 2
    MaxPasses = 1
    MaxLag = 0
CHECK_DEADLOCK FALSE
SYMMETRY Symmetry
INVARIANT ReportBounded
