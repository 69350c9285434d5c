SPECIFICATION LiveSpec
CONSTANTS
  U64 = 64
  Multiple <- MCMultiple
  CheckSecs = 2
  MaxId = 2
  Radix = 2
  MaxReq = 2
  Budget = 1
  Filesystems <- MCFilesystems
  Worlds <- MCWorlds
INVARIANTS HealedByRestart ScheduledAsStored
PROPERTIES HotPolicyFires OneShotsPruned
