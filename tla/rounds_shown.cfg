SPECIFICATION Spec
CONSTANTS
  Hashes <- MCHashes
  Titles <- MCTitles
  Retitle <- MCRetitle
  Lanes <- MCLanes
  Sevs <- MCSevs
  MaxHead = 2
  MaxReply = 2
  MaxEvents = 3
  World <- MCDying
INVARIANTS ShownIsBooked
