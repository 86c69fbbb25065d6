SPECIFICATION FairSpec
CONSTANTS
    Schema = 2
    ConsoleRequested = TRUE
    RecordCap = 9
    MaxRequests = 2
    Hazards <- Quiet
PROPERTIES
    ClaimConsumed
CHECK_DEADLOCK FALSE
