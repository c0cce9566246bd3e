SPECIFICATION Spec
CONSTANTS
  Hashes <- MCHashes
  Titles <- MCTitles
  Retitle <- MCRetitle
  Lanes <- MCLanes
  Sevs <- MCSevs
  MaxHead = 3
  MaxReply = 2
  MaxEvents = 2
  World <- MCWorld
INVARIANTS OneDecision ApprovalIsPosted
PROPERTIES ApprovalIsClear SettledStays
