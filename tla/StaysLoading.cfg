SPECIFICATION Spec
CONSTANTS
    MaxTasks = 1
    MaxFaults = 2
    Failures = {"BackingOff"}
    Late = FALSE
    Hasty = FALSE
    Password = FALSE
    Locals = {FALSE}
INVARIANTS ShownIsTold
CHECK_DEADLOCK FALSE
