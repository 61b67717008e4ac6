SPECIFICATION Spec
CONSTANTS
  Objects = {a, b, c}
  NoObject = NoObject
  DepthLimit = 2
  MaxWires = 3
  MaxHandlers = 2
INVARIANT HeardAlongEachWay
INVARIANT NothingEscapes
PROPERTY EmissionEnds
CHECK_DEADLOCK FALSE
