CONSTANTS
    Addrs <- MCAddrs
    Lens <- MCLens
    Typed <- MCTyped
SPECIFICATION Spec
INVARIANTS
    WritesInDst
    StandardDecoded
    Rfc5952
CHECK_DEADLOCK FALSE
