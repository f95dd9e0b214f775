SPECIFICATION Spec
CONSTANTS
    MaxTasks = 3
    MaxFaults = 0
    Failures = {}
    Late = FALSE
    Hasty = TRUE
    Password = FALSE
    Locals = {FALSE}
INVARIANTS OneLoop
CHECK_DEADLOCK FALSE
