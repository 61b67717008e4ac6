SPECIFICATION Spec
CONSTANTS
  Events <- FewEvents
  SelfDestruct <- NoSelfDestruct
  Listeners = {n1, p1, p2}
  Once = {n1}
  MaxChoices = {1}
  DepthLimit = 2
  DepthMax = 127
  MaxCalls = 5
  MayThrow = TRUE
  MayReenter = TRUE
  NoEvent = "none"
  NoListener = NoListener
  ListenerAdded = "listener_added"
  ListenerRemoved = "listener_removed"
  NewListener = "newListener"
INVARIANT TypeOK
INVARIANT NestingBounded
INVARIANT OvershootBounded
CHECK_DEADLOCK FALSE
