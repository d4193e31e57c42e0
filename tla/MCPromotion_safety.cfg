SPECIFICATION Spec
CONSTANTS
  a1 = a1
  a2 = a2
  a3 = a3
  c1 = c1
  c2 = c2
  c3 = c3
  f1 = f1
  f2 = f2
  None = None
  Auth = {a1, a2, a3}
  AuthId <- OwnIds
  Nonce <- SharedNonce
  Candidate = {c1, c2, c3}
  SemanticKey <- Payload
  File = {f1, f2}
  SourceHead = {"h0"}
  FirstHead = "h0"
  ProposalLife = 1
  AuthLife = 1
  MaxNow = 1
  MaxReviews = 2
  MaxAudit = 4
  CrashPoints <- Windows
SYMMETRY Symmetric
INVARIANTS TypeOK OneGenerationPerAuthorization PublishedIsAccountedFor TransactionIsBackedByEvidence CommittedEventsAreTrue BrainLineage NoEntryTwice
PROPERTIES ImplementsCanonicalBrain
CHECK_DEADLOCK FALSE
