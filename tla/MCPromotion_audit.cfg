SPECIFICATION Spec
CONSTANTS
  a1 = a1
  a2 = a2
  a3 = a3
  c1 = c1
  c2 = c2
  c3 = c3
  f1 = f1
  f2 = f2
  None = None
  Auth = {a1}
  AuthId <- OwnIds
  Nonce <- OwnIds
  Candidate = {c1}
  SemanticKey <- Payload
  File = {f1}
  SourceHead = {"h0", "h1"}
  FirstHead = "h0"
  ProposalLife = 2
  AuthLife = 2
  MaxNow = 0
  MaxReviews = 1
  MaxAudit = 6
  CrashPoints <- Failpoints
INVARIANTS CommittedIsInspectable
CHECK_DEADLOCK FALSE
