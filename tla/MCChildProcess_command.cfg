SPECIFICATION Spec
CONSTANTS
    Runners <- Command
    Leader = leader
    Descendants = {k1, k2}
    Limit = 3
    Chunk = 2
    PipeSize = 2
    MaxWrites = 5
    MaxFaults = 2
INVARIANTS
    GroupTerminated
CHECK_DEADLOCK FALSE
