SPECIFICATION Spec
CONSTANTS
  MaxGen = 1
  i1 = i1
  p1 = p1
  p2 = p2
  Image = {i1}
  Pod = {p1}
  PodOf <- PodOfGen
  MaxEvents = 1
  Phases <- AllPhases
  Faults <- NoFaults
INVARIANT CancelIsThere
CHECK_DEADLOCK FALSE
