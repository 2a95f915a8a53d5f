\* Encodings of all kinds of messages, and texts one or two edits away.
SPECIFICATION Spec
CONSTANTS
  INT_MAX = 2
  Words <- MCWords
  WordSize <- MCWordSize
  Base = 2
  Messages <- MCMessages
  Tokens <- MCTokens
  MaxEdits = 2
  NewId = 2
INVARIANTS
  DecodedIsSound
  RoundTrip
  AcceptedIsEncoding
  RelayedIntact
  AnnouncedLength
\* The edits are used up.
CHECK_DEADLOCK FALSE
