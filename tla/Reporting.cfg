\* Calls, tasks, requests and cycles are bounded: each part may stop.
SPECIFICATION OwnerSpec
CONSTANTS
    s1 = s1
    s2 = s2
    Slots = {s1, s2}
    None = NoSlot
    Width = 3
    MaxTasks = 4
    MaxEpochs = 2
    Threads = {o, f}
    OwnerThread = o
    Top = 3
    MaxCalls = 2
    Freshness = 1
    Floor = 1
    MaxTime = 2
    MaxEpoch = 2
    MaxRequests = 2
    Attempts = 3
    MaxRecords = 1
    MaxRequested = 2
    MaxCycles = 3
SYMMETRY SlotsAlike
INVARIANTS
    OneInit
PROPERTIES
    BindsOneTask SelectsFresh QuietIsQuiet
CHECK_DEADLOCK FALSE
