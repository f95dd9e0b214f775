SPECIFICATION Spec
CONSTANTS
    p1 = p1
    p2 = p2
    Pass = Pass
    NoRow = NoRow
    Faults = {"hold", "answer", "crash"}
    People = {p1}
    MaxTime = 3
    MaxCopies = 3
    MaxFaults = 0
    AskAgain = 2
    ClaimLasts = 1
    ClockSlack = 0
    Holding = {TRUE}
    Starts = {"unsaved"}
    Jobs = {"schedule"}
    Others = {}
    SlowHandOver = TRUE
INVARIANTS NoDoubleSend
CHECK_DEADLOCK FALSE
