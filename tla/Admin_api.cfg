CONSTANTS
    q1 = q1
    q2 = q2
    q3 = q3
    Requests = {q1, q2, q3}
    Users = {u1}
    Role <- RawAccess
    OpenSessions = {s1}
    Owner <- OneOwner
    Passwords = {p1, p2}
    FirstPassword = p1
    Plans <- MCPlans
    SessionTTL = 2
    Limit <- OneEach
    Window = 2
    MaxTime = 2
    MaxFaults = 1
    Ids = {1, 2, 3}
    MaxStamp = 1
    Late = 1
    PageSize = 1
    MaxAsked = 3
    Usernames = {"", "e1"}
    Models = {"", "m1"}
    Hour = 1
    HoursADay = 2
    Week = 1
    Month = 2
    LastTime = 4
    MaxRequests = 2
    Traces = {t1, t2}
    HourWidth = 1
    DayWidth = 2
    RollupWindow = 1
    FullInterval = 2
    TxLimit = 1
    LastTick = 3
SPECIFICATION MCSpec
CONSTRAINT OnePlan
INVARIANTS
    AdminTypeOK
    EndedStaysOut ChangeEndsSessions ChangesAndEvidenceAreLogged RateLimited
    NoGhostPages SweepShowsAll PointsAddUp QuietPagesAgree
    NeverOvercounts ReconciledStays
PROPERTIES CommitsAreCurrent
CHECK_DEADLOCK FALSE
