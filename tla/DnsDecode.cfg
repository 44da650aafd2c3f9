CONSTANTS
    Wires <- SmallWires
    Headers <- SmallHeaders
    DNS_MAX_EMSG = 4
    EmsgLines = 5
    DNS_MAX_QD = 1
    DNS_MAX_RR = 2
SPECIFICATION Spec
INVARIANTS
    VerdictSound
    VerdictComplete
    LoadKeepsOrder
CHECK_DEADLOCK FALSE
