SPECIFICATION AutomationFairSpec
CONSTANTS
  Subs = {1}
  Wants <- MCWants
  Cap = 1
  Alerts = {1, 2}
  AtStart = {1}
  loop = loop
  Requests = {q1}
  MaxMoves = 2
  MaxRestarts = 1
INVARIANTS OneTriggerPerCrossing QuietStaysQuiet
PROPERTIES AlertsAreChecked
CHECK_DEADLOCK FALSE
