SPECIFICATION Spec
CONSTANTS
    startnum = 1
    increment = 1
    GrowPercent = 100
    FreeLimit = 2
    HeaderBytes = 3
    ElementBytes = 1
    MaxBlocks = 3
    MaxReserve = 2
    Keys = 11
    Items <- KeyedItems
    NULL = NULL
    Addresses = {1, 2, 3, 4}
    BlockSizes = {1, 2}
    BlockHeader = 3
    GroupBytes = 4
    Null = NULL
    MaxIterated = 4
    Values = {0, 1, 2}
    Others <- OtherArrays
    NoString = NULL
    Growth = 2
    MaxElements = 4
    MaxUInt64 = 7
    Ranges <- SomeRanges
    SourceFiles <- SomeFiles
    Numbers = {1, 2, 3, 5, 7}
    Nics = {"eth0", "lo"}
    Width = 8
    MaxTraffic = 2
    MaxLines = 2
    Names = {name}
    ByteBits = 2
    IPv4Bytes = 1
    IPv6Bytes = 2
    NextKey = NextKey
    Letters = {1, 2, 3}
    Blank = 1
    Slash = 2
    Texts <- StringTexts
    InitialBuffersize = 3
    Slack = 2
    MaxLength = 4
CHECK_DEADLOCK FALSE
INVARIANTS  CountersExact    RangeListed SourcesEven  BlocksListed LineShowsTraffic  NeedleFound MembersShareThePrefix
 
