CONSTANTS
    Packets <- ManyPackets
    Starts <- SmallStarts
    NameLens <- Sizes
    DNS_MAX_JMP = 16
SPECIFICATION FairSpec
INVARIANTS
    LabelsInPacket
    OutputFits
    KeepsContract
    DecodesMeaning
PROPERTY
    Terminates
CHECK_DEADLOCK FALSE
