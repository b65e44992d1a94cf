\* Misreads, gaps, a restart and a replaced inverter: what reaches the statistics, and does
\* the sensor come back?
SPECIFICATION FairSpec
CONSTANTS
    Peak = 1
    SafetyFactor = 2
    RecoveryCount = 3
    First = 100
    Second = 40
    Low = 1
    High = 1000
    Misreads = 2
    RereadsHeld = FALSE
    MaxAge = 2
    MaxMade = 2
    Stops = 1
INVARIANTS
    BooksOnlyWhatWasMade
    HoldsOnlyOutliers
PROPERTIES
    NeverFrozen
CHECK_DEADLOCK FALSE
