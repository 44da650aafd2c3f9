CONSTANTS
    QNames <- SmallQNames
    Records <- SmallRecords
    AddTo = {"an", "ar"}
    MaxCalls = 3
    DNS_MAX_QD = 1
    DNS_MAX_RR = 2
    DNS_MAX_TXT = 2
    DNS_NAME_MAXSTR = 6
    StoreMax = 18
    PktMaxs = {56, 110}
    DNS_NAME_MAXLEN = 8
    DNS_LABEL_MAXSTR = 2
    DNS_MAX_SUFFIX = 3
SPECIFICATION EncodeSpec
INVARIANTS
    HoldsAdded
    RoundTrip
    SuffixesSpell
    WritesInSpace
CHECK_DEADLOCK FALSE
