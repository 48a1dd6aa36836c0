SPECIFICATION FairSpec
CONSTANTS
    Registrar = {g1}
    Repairer = {r1, r2}
    Supported = {r1}
    Pid = {d1, d2}
    NoPid = NoPid
    StaleAfter = 2
    Interval = 1
    MaxFaults = 1
    MaxDeaths = 1
INVARIANTS
    TypeOK
    OneRepair
PROPERTIES
    RepairsTheDead
    PollingRestored
CHECK_DEADLOCK FALSE
