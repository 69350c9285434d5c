SPECIFICATION Spec
CONSTANTS
  U64 = 64
  Multiple <- MCMultiple
  CheckSecs = 2
  MaxId = 2
  Radix = 2
  MaxReq = 2
  Budget = 0
  Filesystems <- MCFilesystems
  Worlds <- MCWorlds
PROPERTIES OnlyOwnSchedules
