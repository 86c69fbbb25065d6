SPECIFICATION Spec
CONSTANTS
    Capacity = 2
    ControlReserve = 1
    Burst = 1
    ReadyCapacity = 2
    ServiceFrames = 2
    MaxRecords = 3
    MaxEpoch = 1
    Recovery = FALSE
    Disturbances <- BadLogger
INVARIANTS
    NoSelfInflictedLoss WireIsTrue
PROPERTIES
    FirstReasonStands
