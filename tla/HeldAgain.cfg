SPECIFICATION Spec
CONSTANTS
    p1 = p1
    p2 = p2
    Pass = Pass
    NoRow = NoRow
    Faults = {"crash"}
    People = {p1}
    MaxTime = 4
    MaxCopies = 3
    MaxFaults = 1
    AskAgain = 1
    ClaimLasts = 1
    ClockSlack = 0
    Holding = {TRUE}
    Starts = {"draft"}
    Jobs = {"schedule", "newHour"}
    Others = {}
    SlowHandOver = FALSE
INVARIANTS NoDoubleSend
CHECK_DEADLOCK FALSE
