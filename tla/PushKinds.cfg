SPECIFICATION FairSpec
CONSTANTS
  Id = {1, 2, 3, 4, 5, 6, 7, 11, 12, 13}
  Fresh = {5, 7}
  Cfg = {"old", "new"}
  None = None
  Name <- MCName
  Kind <- MCKind
  Base <- KindsBase
  Rank <- MCRank
  Tenants <- KindsTenants
  WipeFirst = TRUE
  MaxEdits = 0
  MaxImports = 0
PROPERTIES PushEnds
CHECK_DEADLOCK FALSE
