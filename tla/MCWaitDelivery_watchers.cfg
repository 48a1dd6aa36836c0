SPECIFICATION DeliverySpec
CONSTANTS
    Wait = {w1}
    Identity = {w1}
    IdentityOf <- OwnTarget
    RepoWaits = {w1}
    Result <- Results
    NoResult = NoResult
    Event <- Events
    Timeout = 1
    NotifyLease = 1
    ReadyTTL = 1
    MaxAge = 1
    Watcher = {p1, p2}
    Daemon = daemon
    NoWait = NoWait
    Outcome <- Outcomes
    EnvelopeTTL = 1
    IdleTimeout = 2
    PassTime = 1
    ByHand = {w1}
    MaxLaunches = 1
    MaxCrashes = 1
SYMMETRY Symmetry
INVARIANTS
    DeliveryTypeOK
    AtMostOneCall
    VerdictIsTrue
    OrphanedByDeath
    AnnouncedIsDecided
PROPERTIES
    KeepsPromise
CHECK_DEADLOCK FALSE
