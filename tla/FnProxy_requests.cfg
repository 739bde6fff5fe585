SPECIFICATION FairSpec
CONSTANTS
  e1 = e1
  h1 = h1
  w1 = w1
  Exec = {e1}
  Check = {h1}
  Watch = {w1}
  Unknown = {}
  MaxRPC = 1
INVARIANT PermitInv
PROPERTY Returns
CHECK_DEADLOCK FALSE
