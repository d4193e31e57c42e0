CONSTANTS
    b1 = b1
    b2 = b2
    c1 = c1
    t = t
    u = u
    Batch = {b1, b2}
    Candidate = {c1}
    Trace = {t, u}
    Documents <- MCDocuments
    Decision = {"accept"}
    MaxReviews = 1
    MaxSpoiled = 1
    MaxCrashes = 2
    MaxNow = 1
    None = None
SPECIFICATION FairSpec
INVARIANTS TypeOK ItemsAreTrue CreatedOnce
PROPERTIES BatchEnds
CHECK_DEADLOCK FALSE
