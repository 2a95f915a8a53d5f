\* Two updaters, one display, one order of two items: the methods of the server
\* and the queue of the display, lock by lock.
SPECIFICATION FairThreadsSpec
CONSTANTS
  NoOrder   = NoOrder
  Nobody    = nobody
  ItemIds   = {1, 2}
  d1 = d1
  u1 = u1
  u2 = u2
  Displays  = {d1}
  Updaters  = {u1, u2}
  NewOrders <- MCTwoItems
  MaxOrders = 1
  SockCap   = 1
INVARIANTS
  ThreadsTypeOK
  NoCircularWait
  NoUseAfterDestroy
PROPERTIES
  IsAtomic
  LockIsGivenBack
