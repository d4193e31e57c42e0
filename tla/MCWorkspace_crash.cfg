CONSTANTS
    w1 = w1
    w2 = w2
    Workspace = {w1, w2}
    Content = {x, y}
    x = x
    y = y
    MaxGenerations = 5
    MaxSequence = 3
    MaxCrashes = 1
    MaxTerminal = 1
    Absent = Absent
    None = None
SPECIFICATION FairSpec
INVARIANTS TypeOK OneOpenRun NoLostUpdate StoresAgree NothingPublishedTwice LoadIsConsistent
PROPERTIES OpenRunsEnd
CHECK_DEADLOCK FALSE
