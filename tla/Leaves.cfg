SPECIFICATION FairSpec
CONSTANTS
    p1 = p1
    p2 = p2
    Pass = Pass
    NoRow = NoRow
    Faults = {"hold", "answer", "crash"}
    People = {p1}
    MaxTime = 4
    MaxCopies = 3
    MaxFaults = 1
    AskAgain = 1
    ClaimLasts = 1
    ClockSlack = 0
    Holding = {TRUE, FALSE}
    Starts = {"draft", "elsewhere"}
    Jobs = {"schedule", "sendNow", "cancel"}
    Others = {}
    SlowHandOver = FALSE
PROPERTIES EventuallySettled
CHECK_DEADLOCK FALSE
