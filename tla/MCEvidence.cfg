CONSTANTS
    x = x
    y = y
    p = p
    Sources = 2
    Content = {x, y}
    Scope = {p}
    Answers <- MCAnswers
    Allowed = {"unchanged", "updated", "superseded"}
    MaxArtifacts = 2
    MaxCrashes = 1
    MaxAge = 0
    MaxPublic = 3
    MaxRuns = 2
    MaxNow = 1
    None = None
SPECIFICATION FairSpec
INVARIANTS TypeOK RecordHasItsArtifact EvidenceIsRetained JournalIsBacked OneOpenRun SummaryIsCoherent
PROPERTIES RefreshEnds
CHECK_DEADLOCK FALSE
