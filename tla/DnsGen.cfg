CONSTANTS
    QueryLen = 6
    AnswerLens = {3, 6, 9}
    PktBuf = 8
    MaxUnits = 2
SPECIFICATION FairSpec
INVARIANTS
    AnswerMatches
    ExitTells
PROPERTY
    Ends
CHECK_DEADLOCK FALSE
