SPECIFICATION Spec
CONSTANTS
    p1 = p1
    p2 = p2
    Pass = Pass
    NoRow = NoRow
    Faults = {"crash"}
    People = {p1}
    MaxTime = 3
    MaxCopies = 3
    MaxFaults = 1
    AskAgain = 1
    ClaimLasts = 1
    ClockSlack = 0
    Holding = {TRUE}
    Starts = {"draft"}
    Jobs = {"schedule", "cancel"}
    Others = {}
    SlowHandOver = FALSE
PROPERTIES StoppedStaysUnsent
CHECK_DEADLOCK FALSE
