SPECIFICATION Spec
CONSTANTS
  Commits = {c1, c2}
  c1 = c1
  c2 = c2
  First = c1
  Scenes <- MCScenes
  MaxWrites = 1
PROPERTIES ChecksSettle SuccessStays LabelSettles
CHECK_DEADLOCK FALSE
