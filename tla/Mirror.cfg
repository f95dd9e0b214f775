SPECIFICATION FairSpec
CONSTANTS
    w1 = w1
    w2 = w2
    Msgs = {1, 2}
    Labels = {"inbox"}
    Writers = {w1, w2}
    Before = {1}
    MaxLog = 2
    MaxActs = 2
    MaxFaults = 1
INVARIANTS TypeOK Agree
PROPERTIES WriteStays ComesRight InboxComesRight
CHECK_DEADLOCK FALSE
