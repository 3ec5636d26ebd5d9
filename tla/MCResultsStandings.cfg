SPECIFICATION Spec
CONSTANTS
  Accounts = {1, 2}
  Rounds = {1, 2}
  Setups <- SessionSetups
  Team <- MCTeam
  Metric <- MCMetric
CHECK_DEADLOCK FALSE
INVARIANTS StandingsCurrent
