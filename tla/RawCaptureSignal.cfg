CONSTANTS
    PKT_MAXRECV = 2
    RcvBuf = 3
    MaxFrames = 3
    NumBlocks = 1
    BlockRoom = 1
    PKT_NUMSLOT = 1
    U32 = 2
    RingIds = {1}
SPECIFICATION FairSpec
PROPERTY SignalStops
CHECK_DEADLOCK FALSE
