CONSTANTS
  spare = spare
  vital = vital
  p1 = p1
  p2 = p2
  Nobody = Nobody
  Modules <- MCModules
  Optional <- MCOptional
  Order <- MCOrder
  Callers <- MCCallers
SYMMETRY Symmetric
SPECIFICATION Spec
INVARIANTS
  RunningIsLive
  SweepsReachAll
PROPERTIES
  DisabledUntilEnabled
