SPECIFICATION Spec
CONSTANTS
  Order <- MCOrder
  CanCreate = {"segment_group", "application"}
  CanUpdate = {"segment_group", "application", "service_edge"}
  CanDelete = {"segment_group", "application"}
  Foreign = {}
  Name = {"g", "a", "e"}
  Cfg = {"old", "new"}
  Id = {"1", "2", "3", "4"}
  candidate_key <- MCKey
  Offers <- MCOffers
  Tenants <- MCTenants
  None = None
  MaxActs = 2
  MaxNoise = 1
  MaxImports = 1
  MaxPushes = 1
INVARIANTS LiveRowsAreReal WholePushLands RollbackLeavesNoTrace RestoreConverges
PROPERTIES AcceptedUntilPushed
CHECK_DEADLOCK FALSE
