SPECIFICATION Spec
CONSTANTS
  Findings <- MCFindings
  Sev <- MCSev
  MaxHead = 2
  MaxReply = 2
  Worlds <- MCDying
INVARIANT VerdictFollows
CHECK_DEADLOCK FALSE
