CONSTANTS
    Packets <- SmallPackets
    MaxWrites = 2
    Files <- SmallFiles
    BufLen = 8
    Kind <- SmallKind
SPECIFICATION Spec
INVARIANTS
    TornOnlyLast
    ReadsInOrder
    ReadsAll
    ZeroMeansClean
    ToldWritten
CHECK_DEADLOCK FALSE
