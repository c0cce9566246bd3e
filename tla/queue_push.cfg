SPECIFICATION Spec
CONSTANTS
  Prs = {p1}
  NoPr = NoPr
  p1 = p1
  Shas = {1, 2}
  NoSha = 0
  FirstSha = 1
  MaxAttempts = 2
  DiffOf <- SameDiff
  RunBound = 3
  MaxRuns = 0
  MaxAudits = 0
  WorkerKinds = {"infra"}
  Limits <- Core
INVARIANTS SingleFlight NoGhostHead OneWorkerPerPr
PROPERTIES PostedOnce ImplementsFlights
