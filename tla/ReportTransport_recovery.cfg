SPECIFICATION Spec
CONSTANTS
    Capacity = 3
    ControlReserve = 1
    Burst = 1
    ReadyCapacity = 2
    ServiceFrames = 1
    MaxRecords = 4
    MaxEpoch = 2
    Recovery = TRUE
    Disturbances <- ChangingFile
INVARIANTS
    CreditConserved
PROPERTIES
    ResumeIsDrained
