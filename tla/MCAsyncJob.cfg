SPECIFICATION FairSpec
CONSTANTS
    Patience = 2
    LauncherLag = 3
    MaxSignals = 2
    MaxFaults = 2
    Killable = {"launcher", "child"}
INVARIANTS
    VerifiesBehindRecord
    RecordIsReal
    ToldIsTheEnd
PROPERTIES
    JobEnds
CHECK_DEADLOCK FALSE
