\* The workers may end for good.
SPECIFICATION WorkersSpec
CONSTANTS
    Schema = 2
    ConsoleRequested = TRUE
    MaxChanges = 3
INVARIANTS
    ServedClaimHeld EndpointClosesForCause
PROPERTIES
    StopIsFinal TerminalIsTold
CHECK_DEADLOCK FALSE
