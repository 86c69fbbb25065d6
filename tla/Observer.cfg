SPECIFICATION ObserverSpec
CONSTANTS
    t1 = t1
    t2 = t2
    r1 = r1
    u1 = u1
    u2 = u2
    Threads <- Callers
    HostThreads <- Callers
    Reals <- Addresses
    Users <- Accounts
    Capacity = 2
    Top = 2
    Count = 3
    DepthLimit = 2
    MaxCalls = 1
    MaxTicks = 1
    MaxFrames = 3
    MaxTime = 2
    GameThreads <- Callers
    Buckets = {publisher}
    FullCount = 3
    CallsPerThread = 2
    MaxQpc = 9
    MaxCallbacks = 2
    MaxFilters = 3
    Producers <- Callers
    QueueCapacity = 3
    BatchCount = 2
    Batches = 2
    Limit = 7
    FooterReserve = 3
    EventBytes = 2
    MaxEvents = 4
INVARIANTS
    AllOrNothing BoundIsCurrent OneVerdict TimeConserved
    ChangesAreTold ExactOrNothing EventsAccounted
PROPERTIES
    RespectsTheHost
CHECK_DEADLOCK FALSE
