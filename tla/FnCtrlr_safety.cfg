SPECIFICATION Spec
CONSTANTS
  MaxConfig = 3
  MaxEvents = 2
  Valid <- ValidConfigs
  UserOps <- NoRecreate
  Faults <- AllFaults
INVARIANTS IInv ProtectedWhileRunning
PROPERTIES NoOrphanOnceGood OrphanNeedsFailure FinalizerRemovedLast
CHECK_DEADLOCK FALSE
