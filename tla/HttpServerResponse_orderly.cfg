SPECIFICATION FairSpec
CONSTANTS
  SendBuffer = 2
  HeadCells = 2
  MaxBody = 2
  MaxCalls = 5
  Orderly = TRUE
INVARIANT FlagsMeanSent
INVARIANT PartsInOrder
PROPERTY ImplementsAnswer
PROPERTY AnswerArrives
PROPERTY ClosesWhenDone
CHECK_DEADLOCK FALSE
