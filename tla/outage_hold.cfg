SPECIFICATION Spec
CONSTANTS
  Runs = {r1, r2}
  r1 = r1
  r2 = r2
  Cache = 1
  Hold = 2
  Repage = 3
  MaxChanges = 2
  MaxFaults = 2
INVARIANT HoldStands
