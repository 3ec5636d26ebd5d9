SPECIFICATION FairSpec
CONSTANTS
  Accounts = {1, 2}
  Rounds = {1, 2}
  Setups <- AllSetups
  Team <- MCTeam
  Metric <- MCMetric
CHECK_DEADLOCK FALSE
INVARIANTS ProjectionsComplete 
PROPERTIES EventsApplied
