SPECIFICATION Spec
CONSTANTS
  MaxUser = 2
  Group = {g}
  None = None  Gone = Gone
  DefaultRole = "user"
  AccessTTL = 2
  MaxEdits = 5
INVARIANTS RevokedRolesExpire ClosedOwnNothing
PROPERTIES AdminsLostOnlyBySso HandAddedStay
\* The server may fail to start, and the bound on requests be used up.
CHECK_DEADLOCK FALSE
