SPECIFICATION Spec
CONSTANTS
  Id = {1, 2, 3, 4, 5, 11, 12, 13, 14}
  Fresh = {4, 5}
  Cfg = {"old", "new"}
  None = None
  Name <- MCName
  Kind <- MCKind
  Base <- GroupsBase
  Rank <- MCRank
  Tenants <- GroupsTenants
  WipeFirst = FALSE
  MaxEdits = 1
  MaxImports = 1
INVARIANTS UserEntriesReported RollbackRestores SuccessConverges PushNeverWidens
PROPERTIES RollbackDeletesOwn
CHECK_DEADLOCK FALSE
