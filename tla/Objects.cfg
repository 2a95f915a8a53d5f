\* One updater, one display, one order of two items, as objects with pointers.
SPECIFICATION ObjectsSpec
CONSTANTS
  NoOrder   = NoOrder
  ItemIds   = {1, 2}
  d1 = d1
  u1 = u1
  Displays  = {d1}
  Updaters  = {u1}
  NewOrders <- MCTwoItems
  MaxOrders = 1
  SockCap   = 1
INVARIANTS
  ObjectsTypeOK
  ServerOwnsItsOrders
  ItemsKnowTheirOrder
PROPERTIES
  IsByValue
