SPECIFICATION Spec
CONSTANTS
    Schema = 2
    ConsoleRequested = FALSE
    RecordCap = 9
    MaxRequests = 2
    Hazards <- Rough
INVARIANTS
    NativeOnce CancelledStaysSuspended NothingLeaks RestartTold SelfSufficient
CHECK_DEADLOCK FALSE
