SPECIFICATION Spec
CONSTANTS
    m1 = m1
    m2 = m2
    m3 = m3
    Mails = {m1, m2}
    Uidls = {1, 2}
    Before <- OneBefore
    Large = {}
    Settings = {"downloaded"}
    Chosen = {"downloaded"}
    ShownAfter = 1
    Twice = FALSE
    Anytime = TRUE
    MaxFaults = 1
    MaxTurns = 1
INVARIANTS NothingLost
CHECK_DEADLOCK FALSE
