SPECIFICATION MFairSpec
CONSTANTS
  Routine <- CacheAndController
  Faults <- AllFaults
  LeaderElection = TRUE
  PartFaults <- AllPartFaults
INVARIANTS MInv OneServes
PROPERTIES IsCtrlLife FailureEndsProcess EndTogether
CHECK_DEADLOCK FALSE
