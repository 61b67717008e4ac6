SPECIFICATION Spec
CONSTANTS
  Writes = {w1, w2}
  NoWrite = NoWrite
  Listeners = {"once", "always"}
  MaxReads = 2
  MaxCloses = 1
  Sockets = {"open", "null"}
  MayThrow = TRUE
PROPERTY AllDoneMeansAllDone
PROPERTY ClosedForGood
CHECK_DEADLOCK FALSE
