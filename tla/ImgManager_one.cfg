SPECIFICATION FairSpec
CONSTANTS
  MaxGen = 1
  i1 = i1
  p1 = p1
  p2 = p2
  Image = {i1}
  Pod = {p1}
  PodOf <- PodOfGen
  MaxEvents = 2
  Phases <- AllPhases
  Faults <- AllFaults
INVARIANTS IInv ClientMatchesPod
PROPERTIES ManagersLive ReadyServed UnreadyRemoved ServiceRestored
CHECK_DEADLOCK FALSE
