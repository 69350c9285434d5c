SPECIFICATION LiveSpec
CONSTANTS
  None = None
  Root = Root
  a = a
  b = b
  Objects = {1, 2, 3, 4}
  Dirs = {3, 4}
  Names = {a, b}
  MaxLinks = 4
  Batch = 1
  Osts <- MCOsts
  Rules <- MCRules
  Worlds <- MCWorlds
INVARIANTS NoOrphans EveryLinkFound RowsAreLive ReportsMatch
PROPERTIES HsmConverges
CHECK_DEADLOCK FALSE
