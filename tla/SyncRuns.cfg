SPECIFICATION Spec
CONSTANTS
  a = a  b = b  c = c
  Name = {a, b, c}
  Content = {0, 1}
  MaxNum = 2
  Selected = {"rule"}
  Worlds <- MCWorlds
  Edits <- MCEdits
  MaxRuns = 2
  MaxEdits = 2
  MaxFaults = 1
  None = None
INVARIANTS SuccessMirrors SteadyState
PROPERTIES RefersToNamesakes OnlyWhatRulesNeed
\* The bounds are used up.
CHECK_DEADLOCK FALSE
