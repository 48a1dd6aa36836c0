SPECIFICATION Spec
CONSTANTS
    Kinds <- AllKinds
    Last = 3
    Text = {t1, t2}
    Absent = Absent
    Ours = Ours
    Torn = Torn
    MaxEdits = 2
    MaxFaults = 3
INVARIANTS
    TypeOK
    NothingLost
    LeavesWhatItSays
PROPERTIES
    ReportsTruly
CHECK_DEADLOCK FALSE
