CONSTANTS
    t1 = t1
    t2 = t2
    Slot = {t1, t2}
    LaunchLife = 1
    SessionLife = 2
    HandleLife = 1
    MaxHandles = 1
    MaxFailed = 1
    MaxIssued = 2
    MaxNow = 2
    None = None
SPECIFICATION FairSpec
INVARIANTS TypeOK HandlesEndWithSession ShownWhileApproved
PROPERTIES RequestsEnd
CHECK_DEADLOCK FALSE
