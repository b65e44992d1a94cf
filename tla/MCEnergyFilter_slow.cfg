\* A counter that moves slowly, with polls that miss: is it held back?
SPECIFICATION Spec
CONSTANTS
    Peak = 1
    SafetyFactor = 2
    RecoveryCount = 3
    First = 100
    Second = 40
    Low = 1
    High = 1000
    Misreads = 2
    RereadsHeld = FALSE
    MaxAge = 2
    MaxMade = 3
    Stops = 1
INVARIANTS
    SlowCountersAreTaken
CHECK_DEADLOCK FALSE
