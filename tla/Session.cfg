\* Two updaters, two orders that can be told apart: their requests and answers
\* interleave in every way.
SPECIFICATION SessionSpec
CONSTANTS
  NoOrder   = NoOrder
  NoRequest = NoRequest
  Displays  = {}
  SockCap   = 1
  u1 = u1
  u2 = u2
  Updaters  = {u1, u2}
  ItemIds   = {1, 2}
  NewOrders <- MCSingles
  MaxOrders = 2
SYMMETRY Symmetry
INVARIANTS
  SessionTypeOK
  ReadyMeansIdle
  AnswersAreTrue
  OneWinner
