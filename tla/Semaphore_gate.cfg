SPECIFICATION FairSemaphoreSpec
CONSTANTS
  Threads = {t1, t2, t3, t4}
  Timed = {t4}
  Start = 1
  Ceiling = 2
  MaxDebt = 0
  Paired = TRUE
INVARIANT NoLostWakeup
PROPERTY ImplementsGate
