\* A writer stops when its sequence is used up.
SPECIFICATION ReadersSpec
CONSTANTS
    Words = 2
    Contents <- Bits
    Valid <- TwoEqual
    Blank <- Zeroes
    Attempts = 3
    MaxSequence = 12
    ReadAttempts = 2
    LastSequence <- Fours
    MaxRecords = 1
INVARIANTS
    SnapshotIsHonest
PROPERTIES
    ImplementsAtomic
CHECK_DEADLOCK FALSE
