SPECIFICATION Spec
CONSTANTS
  Hashes <- MCHashes
  Titles <- MCTitles
  Retitle <- MCRetitle
  Lanes <- MCLanes
  Sevs <- MCSevs
  MaxHead = 2
  MaxReply = 2
  MaxEvents = 2
  World <- MCAlike
INVARIANTS BlockIsListed
