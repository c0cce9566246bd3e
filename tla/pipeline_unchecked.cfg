SPECIFICATION Spec
CONSTANTS
  Roles <- MCRoles
  Confirmers <- MCConfirmers
  Parallel = 0
  Ladder <- MCLadder
  Final = "final"
  Second = "second"
  Standin <- MCStandin
  Shards = 2
  Plans <- MCPlans
  Outages <- MCOutages
  MaxFaults = 1
INVARIANT BlockersAreChecked
