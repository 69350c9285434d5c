SPECIFICATION Spec
CONSTANTS
  f1 = f1
  f2 = f2
  l1 = l1
  l2 = l2
  Fids <- MCOneFid
  Listeners <- MCListeners
  Kinds = {"CREAT", "CLOSE", "UNLNK_LAST"}
  MaxRec = 3
  ChannelBuffer = 1
  BatchSize = 2
  Disturbances = {"crash", "apply", "recv", "einval"}
INVARIANTS IInv TypeOK ClearedBehindCursor FreshUpToCursor NothingLost
PROPERTIES CursorMonotone ImplementsStream
CHECK_DEADLOCK FALSE
SYMMETRY Symm
