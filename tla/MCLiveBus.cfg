CONSTANTS
    Clients = {c1}
    MaxSubs = 1
    QueueSize = 2
    ReplayLimit = 2
    PollLimit = 2
    PageSize = 2
    Broadcasts = {TRUE, FALSE}
    MaxEvents = 4
    MaxFaults = 2
SPECIFICATION FairSpec
INVARIANTS
    LossAccounted
    HistoryExhausted
PROPERTIES
    ImplementsFeed
    CaughtUp
CHECK_DEADLOCK FALSE
