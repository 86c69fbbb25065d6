SPECIFICATION FairSpec
CONSTANTS
    Schema = 2
    ConsoleRequested = FALSE
    RecordCap = 9
    MaxRequests = 2
    Hazards <- Quiet
PROPERTIES
    AttemptEnds PipeClaimConsumed
CHECK_DEADLOCK FALSE
