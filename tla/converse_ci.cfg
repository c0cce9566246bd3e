SPECIFICATION Spec
CONSTANTS
  Findings <- MCFindings
  Sev <- MCSev
  MaxHead = 1
  MaxReply = 2
  Worlds <- MCCiOnly
PROPERTY CiHoldStands
CHECK_DEADLOCK FALSE
