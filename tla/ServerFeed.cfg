\* Two displays, one order of two items, with different ids or with one id:
\* every interleaving of the updates with the registration, the snapshot, the
\* streaming and the departure of each display.
SPECIFICATION Spec
CONSTANTS
  NoOrder   = NoOrder
  ItemIds   = {1, 2}
  d1 = d1
  d2 = d2
  Displays  = {d1, d2}
  NewOrders <- MCOrders
  MaxOrders = 1
  SockCap   = 1
SYMMETRY Symmetry
INVARIANTS
  TypeOK
  NoDanglingClient
  StatusAgrees
  HiddenItemBlocksOrder
  CaughtUp
  ScreenNeverAhead
PROPERTIES
  OnlyCompleteOrdersLeave
