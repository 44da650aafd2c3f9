CONSTANT MaxStarts = 2
SPECIFICATION Spec
INVARIANTS
    CleanExit
    ReadyToRun
CHECK_DEADLOCK FALSE
