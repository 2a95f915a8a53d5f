\* One display, two orders, with fair threads and fair readers: the snapshot's
\* order of listing, and the removal of one order while the other is still
\* being replayed.
SPECIFICATION FairSpec
CONSTANTS
  NoOrder   = NoOrder
  ItemIds   = {1}
  d1 = d1
  Displays  = {d1}
  NewOrders <- MCOneItem
  MaxOrders = 2
  SockCap   = 2
INVARIANTS
  CaughtUp
PROPERTIES
  NeverReshown
  DisplaysConverge
  GoneDisplaysAreRemoved
