SPECIFICATION FairSpec
CONSTANTS
    MaxTasks = 1
    MaxFaults = 0
    Failures = {}
    Late = FALSE
    Hasty = FALSE
    Password = FALSE
    Locals = {FALSE}
PROPERTIES AskedOfflineIsLooked
CHECK_DEADLOCK FALSE
