SPECIFICATION Spec
CONSTANTS
  Prs = {p1, p2}
  NoPr = NoPr
  p1 = p1
  p2 = p2
  Shas = {1, 2, 3, 4}
  NoSha = 0
  FirstSha = 2
  MaxAttempts = 2
  DiffOf <- FirstDiffers
  RunBound = 4
  MaxRuns = 1
  MaxAudits = 1
  WorkerKinds = {"infra"}
  Limits <- Questions
SYMMETRY Pulls
INVARIANTS AskedIsReviewed CarriedIsSound CapHolds
