\* Short and long strings, short writes and reads, both sides may go away.
SPECIFICATION FairSpec
CONSTANTS
  Base = 2
  Width = 2
  Newline = newline
  a = a
  b = b
  Letters = {a, b}
  Strings <- MCLong
  NoString = NoString
  Capacity = 3
  MaxSent = 2
INVARIANTS
  TypeOK
  FailsForCause
PROPERTIES
  IsPipe
  EveryStringArrives
\* When both sides have gone the connection is over.
CHECK_DEADLOCK FALSE
