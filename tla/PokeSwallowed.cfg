SPECIFICATION Spec
CONSTANTS
    MaxTasks = 1
    MaxFaults = 1
    Failures = {"BackingOff"}
    Late = TRUE
    Hasty = FALSE
    Password = FALSE
    Locals = {FALSE}
INVARIANTS PokeIsPrompt
CHECK_DEADLOCK FALSE
