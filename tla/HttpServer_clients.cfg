SPECIFICATION FairSpec
CONSTANTS
  SendBuffer = 8
  HeadCells = 1
  Clients = {c1, c2}
  NoClient = NoClient
  MaxCalls = 2
  CheckedThrow = TRUE
INVARIANT ListedUntilClosed
INVARIANT ErasedOnce
INVARIANT OneAnswer
INVARIANT StaysUp
PROPERTY ClientAccepted
CHECK_DEADLOCK FALSE
