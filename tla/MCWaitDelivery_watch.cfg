SPECIFICATION FairDelivery
CONSTANTS
    Wait = {w1}
    Identity = {w1}
    IdentityOf <- OwnTarget
    RepoWaits = {w1}
    Result <- Results
    NoResult = NoResult
    Event <- Events
    Timeout = 1
    NotifyLease = 1
    ReadyTTL = 1
    MaxAge = 1
    Watcher = {p1}
    Daemon = daemon
    NoWait = NoWait
    Outcome <- Outcomes
    EnvelopeTTL = 1
    IdleTimeout = 2
    PassTime = 1
    ByHand = {}
    MaxLaunches = 0
    MaxCrashes = 0
PROPERTIES
    WatchEnds
CHECK_DEADLOCK FALSE
