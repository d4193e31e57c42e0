CONSTANTS
    c1 = c1
    Candidate = {c1}
    Trace = {0, 1}
    Decision = {"accept"}
    Lifetime = 2
    MaxAuthorizations = 2
    MaxReviews = 1
    MaxMoves = 1
    MaxCrashes = 1
    MaxNow = 2
    None = None
SPECIFICATION FairSpec
INVARIANTS TypeOK SelectionIsBacked
CHECK_DEADLOCK FALSE
PROPERTIES SelectionEnds
