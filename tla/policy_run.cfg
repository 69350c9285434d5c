SPECIFICATION LiveSpec
CONSTANTS
  Second = 2
  Sizes = {1, 2, 3}
  MaxClock = 7
  MaxIdle = 6
  Rows <- MCRows
  Policies <- MCPolicies
  Faults = {"cancel", "store", "record"}
INVARIANTS RateHolds CompletionBarrier CapsHold CountsAddUp
PROPERTIES RunEnds
