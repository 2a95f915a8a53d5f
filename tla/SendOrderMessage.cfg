\* One display, one order: a broadcast between copying and enqueueing.
SPECIFICATION SendOrderMessageSpec
CONSTANTS
  NoOrder   = NoOrder
  ItemIds   = {1}
  d1 = d1
  Displays  = {d1}
  NewOrders <- MCOneItem
  MaxOrders = 1
  SockCap   = 1
INVARIANTS
  CopiesAreNotStale
