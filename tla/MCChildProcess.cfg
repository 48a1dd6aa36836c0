SPECIFICATION FairSpec
CONSTANTS
    Runners <- AllRunners
    Leader = leader
    Descendants = {k1, k2}
    Limit = 3
    Chunk = 2
    PipeSize = 2
    MaxWrites = 5
    MaxFaults = 2
INVARIANTS
    TypeOK
    CompleteOrTold
    NothingLeft
    DeadlineIsTold
PROPERTIES
    CallEnds
CHECK_DEADLOCK FALSE
