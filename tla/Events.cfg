SPECIFICATION FairSpec
CONSTANTS
    a1 = a1
    a2 = a2
    Accounts = {a1}
    Ids = {1, 2}
    Named = {"threads"}
    Room = 1
    MaxNotices = 2
INVARIANTS TypeOK NothingMissed NoticesInOrder NewestWaitLast
PROPERTIES EverythingRead
CHECK_DEADLOCK FALSE
