SPECIFICATION FairSpec
CONSTANTS
  Verify = Verify
  ReviewA = ReviewA
  ReviewB = ReviewB
  AuditSide = AuditSide
  Second = Second
  Eval = Eval
  Lanes = {Verify, ReviewA, ReviewB, AuditSide, Second, Eval}
  NoLane = NoLane
  RunOf <- MCRun
  RankOf <- MCRank
  PoolOf <- MCPool
  MaxSlots = 3
  Compare = 1
  SharePct = 50
  Scenarios <- Line
INVARIANTS TopIsForSides LockedIsHeld
PROPERTIES SidesNeverWait NobodyStarves
CHECK_DEADLOCK FALSE
