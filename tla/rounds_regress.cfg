SPECIFICATION Spec
CONSTANTS
  Hashes <- MCHashes
  Titles <- MCOneTitle
  Retitle <- MCOneRetitle
  Lanes <- MCLanes
  Sevs <- MCSevs
  MaxHead = 4
  MaxReply = 2
  MaxEvents = 3
  World <- MCRegress
PROPERTY RegressionStays
