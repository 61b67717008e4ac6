SPECIFICATION FairSpecMC
CONSTANTS
  Writes = {w1, w2}
  NoWrite = NoWrite
  Listeners = {"once", "always"}
  MaxReads = 2
  MaxCloses = 1
  Sockets = {"open"}
  MayThrow = FALSE
INVARIANT PendingIsOutstanding
PROPERTY WritesDrain
PROPERTY ClosesWhenDone
PROPERTY ReadsOn
CHECK_DEADLOCK FALSE
