SPECIFICATION SchedSpec
CONSTANTS
  MaxGen = 2
  i1 = i1
  p1 = p1
  p2 = p2
  Image = {i1}
  Pod = {p1, p2}
  PodOf <- PodOfGen
  MaxEvents = 1
  Phases <- UpAndDown
  Faults <- CloseOnly
PROPERTIES ReadyServed UnreadyRemoved
CHECK_DEADLOCK FALSE
