SPECIFICATION LiveSpec
CONSTANTS
  f1 = f1
  f2 = f2
  l1 = l1
  l2 = l2
  Fids <- MCOneFid
  Listeners <- MCOneListener
  Kinds = {"CREAT", "CLOSE", "UNLNK_LAST", "SKIP"}
  MaxRec = 3
  ChannelBuffer = 3
  BatchSize = 2
  Disturbances = {"crash", "persist", "clear", "cancel"}
PROPERTIES EveryRecordReflected CursorLeadsToPurge CancelStops
CHECK_DEADLOCK FALSE
