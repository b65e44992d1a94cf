\* Days, outages, a stray round and a restart: is anything lost or booked twice?
SPECIFICATION ToldSpec
CONSTANTS
    DayTicks = 8
    Noon = 4
    Daylight = {2, 3, 4, 5, 6}
    Confirm = 1
    Settled = 2
    Outage = 3
    MaxDaily = 20
    MaxStep = 2
    ShareOver = 2
    ShareOf = 3
    Yield = {0, 1}
    StrayReading = {1, 3, 21}
    Yesterday = {0, 4}
    Start = 9
    End = 20
    Clouds = FALSE
    Jumps = FALSE
    Strays = 1
    Restarts = 1
INVARIANTS
    NothingTakenIsLost
    ClimbIsBooked
    BooksNoMoreThanMade
PROPERTIES
    TotalNeverFalls
    TodayBooksWhatTheTotalBooks
CHECK_DEADLOCK FALSE
