SPECIFICATION LiveSpec
CHECK_DEADLOCK FALSE
CONSTANTS
  None = None
  Objects = {0, 1, 2, 3}
  Dirs = {0, 2}
  Root = 0
  Names = {"a", "b"}
  Osts <- MCOsts
  MaxLinks = 3
  Walkers = {1, 2}
  Enrichers = {1, 2}
  Channel = 1
  BatchMax = 2
  RootName = "a"
  Listing <- MCListing
  Worlds <- MCWorlds
INVARIANTS TypeOK ScanComplete ScannedIsReceived
PROPERTIES ScanEnds
