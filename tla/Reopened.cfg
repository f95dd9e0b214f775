SPECIFICATION Spec
CONSTANTS
    p1 = p1
    p2 = p2
    Pass = Pass
    NoRow = NoRow
    Faults = {"answer"}
    People = {p1}
    MaxTime = 3
    MaxCopies = 4
    MaxFaults = 1
    AskAgain = 1
    ClaimLasts = 1
    ClockSlack = 0
    Holding = {TRUE, FALSE}
    Starts = {"draft"}
    Jobs = {"schedule", "cancel", "edit", "unchanged", "save", "post"}
    Others = {}
    SlowHandOver = FALSE
INVARIANTS NeverLost
PROPERTIES StoppedStaysUnsent
CHECK_DEADLOCK FALSE
