CONSTANTS
    PKT_MAXRECV = 2
    RcvBuf = 3
    MaxFrames = 4
    NumBlocks = 3
    BlockRoom = 2
    PKT_NUMSLOT = 4
    U32 = 8
    RingIds = {1, 2}
SPECIFICATION FairSpec
INVARIANTS
    FillRingRoom
    OneOwner
    InTurn
    FileAgrees
    OnlyEarlyStrays
PROPERTIES
    RefinesFifo
    Consumed
CHECK_DEADLOCK FALSE
