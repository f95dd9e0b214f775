SPECIFICATION Spec
CONSTANTS
    m1 = m1
    m2 = m2
    Mails = {m1}
    Pass = Pass
    People = {p1}
    MaxId = 2
    MaxTime = 4
    MaxDraft = 2
    MaxFaults = 2
    MostTries = 3
    FirstRetry = 1
    LongestRetry = 2
    ClaimLasts = 1
    FilesSent = TRUE
    InitialRows <- OneRow
    Jobs = {"send_one"}
    Busy = {}
    SlowSends = TRUE
    Overtaking = FALSE
    NoRow = NoRow
INVARIANTS NoDoubleSend
CHECK_DEADLOCK FALSE
