SPECIFICATION FairDelivery
CONSTANTS
    Wait = {w1, w2}
    Identity = {w1, w2}
    IdentityOf <- OwnTarget
    RepoWaits = {}
    Result <- Results
    NoResult = NoResult
    Event <- Events
    Timeout = 2
    NotifyLease = 1
    ReadyTTL = 1
    MaxAge = 3
    Watcher = {}
    Daemon = daemon
    NoWait = NoWait
    Outcome <- Outcomes
    EnvelopeTTL = 1
    IdleTimeout = 3
    PassTime = 1
    ByHand = {}
    MaxLaunches = 2
    MaxCrashes = 0
PROPERTIES
    RetiresClean
    ClaimEnds
    SweptIsResolved
CHECK_DEADLOCK FALSE
