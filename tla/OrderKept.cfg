SPECIFICATION Spec
CONSTANTS
  Rule = {"a", "b", "c", "d", "x", "y", "click"}
  Baselines <- MCBaselines
  Targets <- SortedTargets
  OneClick = {"click"}
INVARIANTS OrderKept
CHECK_DEADLOCK FALSE
