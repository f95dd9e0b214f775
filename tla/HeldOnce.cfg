SPECIFICATION Spec
CONSTANTS
    p1 = p1
    p2 = p2
    Pass = Pass
    NoRow = NoRow
    Faults = {"hold", "answer"}
    People = {p1}
    MaxTime = 3
    MaxCopies = 3
    MaxFaults = 1
    AskAgain = 1
    ClaimLasts = 1
    ClockSlack = 0
    Holding = {TRUE, FALSE}
    Starts = {"draft"}
    Jobs = {"schedule", "sendNow", "newHour", "drop"}
    Others = {"cancels", "deletes"}
    SlowHandOver = FALSE
INVARIANTS TypeOK NoDoubleSend HoldsShow OneAtATime
CHECK_DEADLOCK FALSE
