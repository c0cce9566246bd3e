SPECIFICATION Spec
CONSTANTS
  Shas = {c1, c2}
  c1 = c1
  c2 = c2
  NoSha = NoSha
  MaxAttempts = 2
  First = c1
  Scenes <- MCClose
PROPERTY ClosedIsSaid
CHECK_DEADLOCK FALSE
