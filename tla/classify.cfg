CONSTANTS
  Null = Null
  a1 = a1
  a2 = a2
  w1 = w1
  Admins = {a1, a2}
  Objects <- MCObjects
  Sizes <- MCSizes
  Times <- MCTimes
  MaxEntries = 3
  Patchers = {w1}
  MaxLike = 4
  MaxDepth = 2
  Samples <- MCSamples
  Leaves <- MCLeaves
  NewRow <- MCNewRow
  Defs <- MCDefs
  PageSize = 2
  Keys <- MCKeys
  Values <- MCValues
  Budgets <- MCBudgets
SPECIFICATION MCSpec
INVARIANTS MemoryAgreesWithSql CacheIsStored TagsFollowRules
CHECK_DEADLOCK FALSE
SYMMETRY Symmetric
