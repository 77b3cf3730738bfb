CONSTANTS
    Usernames = {"e1"}
    Models = {"m1"}
    Hour = 2
    HoursADay = 2
    Week = 1
    Month = 2
    LastTime = 4
    MaxRequests = 2
SPECIFICATION TrendSpec
INVARIANT LastDayIsShown
CHECK_DEADLOCK FALSE
