\* Does a bad high reading of one round stick?
SPECIFICATION ToldSpec
CONSTANTS
    DayTicks = 8
    Noon = 4
    Daylight = {2, 3, 4, 5, 6}
    Confirm = 1
    Settled = 2
    Outage = 3
    MaxDaily = 20
    MaxStep = 2
    ShareOver = 2
    ShareOf = 3
    Yield = {0, 1}
    StrayReading = {18}
    Yesterday = {4}
    Start = 9
    End = 20
    Clouds = FALSE
    Jumps = TRUE
    Strays = 1
    Restarts = 0
PROPERTIES
    HighReadingNeverSticks
CHECK_DEADLOCK FALSE
