SPECIFICATION Spec
CONSTANTS
    Schema = 2
    ConsoleRequested = TRUE
    RecordCap = 9
    MaxRequests = 2
    Hazards <- Quiet
INVARIANTS
    RetryIsClean
PROPERTIES
    ImplementsControl
CHECK_DEADLOCK FALSE
