SPECIFICATION Spec
CONSTANTS
    m1 = m1
    m2 = m2
    Mails = {m1}
    Pass = Pass
    People = {p1}
    MaxId = 2
    MaxTime = 3
    MaxDraft = 2
    MaxFaults = 2
    MostTries = 3
    FirstRetry = 1
    LongestRetry = 2
    ClaimLasts = 1
    FilesSent = TRUE
    InitialRows <- OneRow
    Jobs = {"post", "send_one", "drop", "reschedule", "draft_saved", "try_now", "cancel", "switch"}
    Busy = {}
    SlowSends = FALSE
    Overtaking = FALSE
    NoRow = NoRow
INVARIANTS IInv
CHECK_DEADLOCK FALSE
