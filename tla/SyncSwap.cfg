SPECIFICATION Spec
CONSTANTS
  a = a  b = b  c = c
  Name = {a, b, c}
  Content = {0, 1}
  MaxNum = 2
  Selected = {"svc", "rule"}
  Worlds <- SwapWorlds
  Edits <- MCEdits
  MaxRuns = 2
  MaxEdits = 2
  MaxFaults = 1
  None = None
PROPERTY NeverMisScoped
\* The bounds are used up.
CHECK_DEADLOCK FALSE
