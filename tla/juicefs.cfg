SPECIFICATION LiveSpec
CONSTANTS
  None = None
  Root = Root
  a = a
  b = b
  Objects = {1, 2, 3}
  Dirs = {}
  Names = {a, b}
  MaxLinks = 4
  Osts <- MCOsts
  Visits <- MCVisits
  Worlds <- MCWorlds
INVARIANTS TypeOK ReadyIsComplete
PROPERTIES ImplementsStream CatchesUpOrBlocked
CHECK_DEADLOCK FALSE
