\* The host may stop calling, and the process may end.
SPECIFICATION HostSpec
CONSTANTS
    MaxCalls = 2
    Callers = {c1, c2}
    None = None
    Modules = {companion, loader}
    Companion = companion
    Attempts = 2
    MaxChanges = 3
INVARIANTS
    CertainImage MarkerIsTrue WholeOrNothing ReferencesOwned InventoryWasTrue
PROPERTIES
    CallsReturn
CHECK_DEADLOCK FALSE
