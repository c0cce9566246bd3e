SPECIFICATION FairSpec
CONSTANTS
  Pulls = {p1, p2}
  p1 = p1
  p2 = p2
  Overlap = 2
  Lookback = 2
  Lag = 2
  MaxAttempts = 2
  Scenarios <- Questions
INVARIANT NoStrayIssue
