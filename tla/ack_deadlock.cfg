SPECIFICATION LiveSpec
CONSTANTS
  f1 = f1
  f2 = f2
  l1 = l1
  l2 = l2
  Fids <- MCOneFid
  Listeners <- MCOneListener
  Kinds = {"CREAT", "CLOSE"}
  MaxRec = 4
  ChannelBuffer = 1
  BatchSize = 1
  Disturbances = {"cancel"}
PROPERTIES CancelStops
CHECK_DEADLOCK FALSE
