SPECIFICATION Spec
CONSTANTS
    m1 = m1
    m2 = m2
    Mails = {m1, m2}
    Pass = Pass
    People = {p1, p2}
    MaxId = 2
    MaxTime = 2
    MaxDraft = 2
    MaxFaults = 1
    MostTries = 2
    FirstRetry = 1
    LongestRetry = 2
    ClaimLasts = 1
    FilesSent = FALSE
    InitialRows <- OneRow
    Jobs = {"post", "send_one", "drop", "draft_saved"}
    Busy = {}
    SlowSends = FALSE
    Overtaking = FALSE
    NoRow = NoRow
SYMMETRY Alike
INVARIANTS NeverLost
CHECK_DEADLOCK FALSE
