SPECIFICATION Spec
CONSTANTS
  Events <- MCEvents
  SelfDestruct <- MCSelfDestruct
  Listeners = {n1, n2, p1}
  Once = {n1, n2}
  MaxChoices = {0, 1}
  DepthLimit = 3
  DepthMax = 127
  MaxCalls = 5
  MayThrow = FALSE
  MayReenter = FALSE
  NoEvent = "none"
  NoListener = NoListener
  ListenerAdded = "listener_added"
  ListenerRemoved = "listener_removed"
  NewListener = "newListener"
INVARIANT MemorySafe
INVARIANT OnceRunsOnce
PROPERTY OncePurgedAfterRun
CHECK_DEADLOCK FALSE
