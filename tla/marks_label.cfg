SPECIFICATION Spec
CONSTANTS
  Commits = {c1, c2}
  c1 = c1
  c2 = c2
  First = c1
  Scenes <- MCBack
  MaxWrites = 1
PROPERTY LabelMirrors
CHECK_DEADLOCK FALSE
