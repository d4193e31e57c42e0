CONSTANTS
    d1 = d1
    d2 = d2
    Document = {d1}
    None = None
    MaxCorpora = 1
    MaxDeaths = 1
    MaxRuns = 2
SPECIFICATION FairSpec
PROPERTY LostRunIsRecovered
CHECK_DEADLOCK FALSE
