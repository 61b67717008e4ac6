SPECIFICATION FairReadSpec
CONSTANTS
  Lengths = {1, 2, 3, 4}
  MaxMessages = 3
  MaxSize = 3
  LockStep = TRUE
INVARIANT ReadTypeOK
INVARIANT DeliveredIsSent
PROPERTY EveryMessageArrives
CHECK_DEADLOCK FALSE
