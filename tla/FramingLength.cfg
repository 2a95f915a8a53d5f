\* A string whose length has a digit too many.
SPECIFICATION Spec
CONSTANTS
  Base = 2
  Width = 2
  Newline = newline
  a = a
  b = b
  Letters = {a, b}
  Strings <- MCLong
  NoString = NoString
  Capacity = 3
  MaxSent = 2
INVARIANT FailsOnlyAtTheEnd
CHECK_DEADLOCK FALSE
