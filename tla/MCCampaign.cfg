CONSTANTS
    d1 = d1
    d2 = d2
    Document = {d1, d2}
    None = None
    MaxCorpora = 1
    MaxDeaths = 1
    MaxRuns = 2
SPECIFICATION Spec
SYMMETRY Documents
INVARIANTS TypeOK CorpusIsKept EverythingIsClaimed LedgerIsTrue CleanupIsExact
CHECK_DEADLOCK FALSE
