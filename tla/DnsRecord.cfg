CONSTANTS
    PktLens <- SmallPktLens
    Starts <- SmallStarts
    U16 <- SmallU16
    RdLens <- SmallRdLens
    StrLens = {0, 1, 3}
    TextLens = {1, 3}
    NamesUsed = {0}
    NamesSize = 8
    OldNumStr = {0, 3}
    MaxTxt = 2
    MaxRR = 1
SPECIFICATION Spec
INVARIANTS
    AcceptedExact
    ReadsInPacket
    StoreFits
PROPERTIES
    ForwardOnly
CHECK_DEADLOCK FALSE
