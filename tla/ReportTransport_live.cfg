SPECIFICATION FairSpec
CONSTANTS
    Capacity = 3
    ControlReserve = 1
    Burst = 2
    ReadyCapacity = 1
    ServiceFrames = 2
    MaxRecords = 2
    MaxEpoch = 1
    Recovery = FALSE
    Disturbances <- FaultsOutside
INVARIANTS
    FrameHeldDuringCall
PROPERTIES
    RecordsArrive
