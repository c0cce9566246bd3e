SPECIFICATION Spec
CONSTANTS
  Commits = {c1, c2}
  c1 = c1
  c2 = c2
  First = c1
  Scenes <- MCAgain
  MaxWrites = 1
INVARIANT OneOpenCheck
CHECK_DEADLOCK FALSE
