SPECIFICATION Spec
CONSTANTS
    p1 = p1
    p2 = p2
    Pass = Pass
    NoRow = NoRow
    Faults = {"hold", "answer", "crash"}
    People = {p1}
    MaxTime = 4
    MaxCopies = 3
    MaxFaults = 2
    AskAgain = 1
    ClaimLasts = 1
    ClockSlack = 0
    Holding = {TRUE}
    Starts = {"unsaved", "elsewhere"}
    Jobs = {"schedule", "sendNow", "drop"}
    Others = {"cancels", "sends"}
    SlowHandOver = FALSE
INVARIANTS NoDoubleSend NeverLost SentIsDelivered
CHECK_DEADLOCK FALSE
