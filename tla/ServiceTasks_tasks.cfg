SPECIFICATION SpecMC
CONSTANTS
  Ops = {o1, o2}
  Calls <- MCCalls
  Nobody = Nobody
  Cores = 2
  MaxStarts = 2
INVARIANT OneHandlerAtATime
INVARIANT OnlyAppended
INVARIANT ReadIsCurrent
PROPERTY CallbackArrives
CHECK_DEADLOCK FALSE
