SPECIFICATION Spec
CONSTANTS
  Client = {c1}
  Emitter = {e1}
  Request = {r1}
  MaxLoads = 2
  MaxInstances = 2
  MaxSignals = 2
INVARIANTS ReadersManaged ExitLeavesNothing RestartFindsPortFree RequestsReleased
PROPERTIES TermEnds TunnelEnds
CHECK_DEADLOCK FALSE
