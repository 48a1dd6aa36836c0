SPECIFICATION Spec
CONSTANTS
    Proc = {p1, p2, p3}
    Forced = {p3}
    Tree = {t1, t2}
    None = None
    LockWait = 1
    Stale = 2
    MaxEdits = 2
    MaxCrashes = 1
SYMMETRY Symmetry
INVARIANTS
    TypeOK
    RunsExclude
PROPERTIES
    ReusesAtRest
CHECK_DEADLOCK FALSE
