SPECIFICATION Spec
CONSTANTS
  Findings <- MCFindings
  Sev <- MCSev
  MaxHead = 2
  MaxReply = 2
  Worlds <- MCWorlds
INVARIANTS OneIssue DeferralsHold OneCiUpdate
PROPERTY ApprovalRests
CHECK_DEADLOCK FALSE
