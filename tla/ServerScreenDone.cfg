\* What model.h says of a DONE order, asked of a display's screen.
SPECIFICATION Spec
CONSTANTS
  NoOrder   = NoOrder
  ItemIds   = {1, 2}
  d1 = d1
  Displays  = {d1}
  NewOrders <- MCTwoItems
  MaxOrders = 1
  SockCap   = 1
INVARIANTS
  ScreenDoneMeansComplete
