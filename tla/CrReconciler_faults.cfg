SPECIFICATION FairSpec
CONSTANTS
  o1 = o1
  o2 = o2
  Output = {o1, o2}
  MaxGen = 2
  MaxUserOps = 3
  MaxFailures = 1
  Self = Self
INVARIANTS IInv Settled
PROPERTIES AppliedUnderFinalizer Released Converges
CHECK_DEADLOCK FALSE
