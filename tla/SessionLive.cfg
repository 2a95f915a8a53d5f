\* Two updaters, one order, fair.
SPECIFICATION FairSessionSpec
CONSTANTS
  NoOrder   = NoOrder
  NoRequest = NoRequest
  Displays  = {}
  SockCap   = 1
  u1 = u1
  u2 = u2
  Updaters  = {u1, u2}
  ItemIds   = {1}
  NewOrders <- MCOneSingle
  MaxOrders = 1
PROPERTIES
  WaitingEnds
  ThreadsEnd
