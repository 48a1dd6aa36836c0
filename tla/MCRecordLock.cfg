SPECIFICATION FairSpec
CONSTANTS
    Proc = {p1, p2, p3}
    NoProc = NoProc
    LockWait = 1
    LockStale = 1
    MaxHold = 2
    MaxCrashes = 2
INVARIANTS
    TypeOK
    Serialized
PROPERTIES
    OnlyDeadFilesBroken
    WaitEnds
CHECK_DEADLOCK FALSE
