SPECIFICATION Spec
CONSTANTS
    m1 = m1
    m2 = m2
    Mails = {m1}
    Pass = Pass
    People = {p1}
    MaxId = 2
    MaxTime = 3
    MaxDraft = 2
    MaxFaults = 0
    MostTries = 3
    FirstRetry = 1
    LongestRetry = 2
    ClaimLasts = 1
    FilesSent = TRUE
    InitialRows <- OneRow
    Jobs = {"repost"}
    Busy = {}
    SlowSends = FALSE
    Overtaking = FALSE
    NoRow = NoRow
INVARIANTS NoDoubleSend
CHECK_DEADLOCK FALSE
