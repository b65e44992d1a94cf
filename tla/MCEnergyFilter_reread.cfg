\* Two misread polls, and their value is evaluated once more.
SPECIFICATION Spec
CONSTANTS
    Peak = 1
    SafetyFactor = 2
    RecoveryCount = 3
    First = 100
    Second = 40
    Low = 1
    High = 1000
    Misreads = 2
    RereadsHeld = TRUE
    MaxAge = 3
    MaxMade = 4
    Stops = 1
INVARIANTS
    MisreadsAreNeverShown
CHECK_DEADLOCK FALSE
