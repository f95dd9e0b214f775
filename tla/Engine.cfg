SPECIFICATION FairSpec
CONSTANTS
    MaxTasks = 2
    MaxFaults = 2
    Failures = {"BackingOff", "NeedsReauth", "panic"}
    Late = TRUE
    Hasty = FALSE
    Password = FALSE
    Locals = {FALSE, TRUE}
INVARIANTS TypeOK OneLoop ShownTruly
PROPERTIES AskedIsLooked Recovers
CHECK_DEADLOCK FALSE
