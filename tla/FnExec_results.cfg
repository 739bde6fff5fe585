SPECIFICATION Spec
CONSTANTS
  a = a
  b = b
  x = x
  y = y
  Item = {a, b}
  Null = Null
  VALUE = VALUE
  Root = Root
  Ref = Ref
  Types <- AllTypes
  Ranges <- UpToTwo
  Conditions <- AllConditions
  Locals <- AllLocals
  Faults = {"jq", "run"}
INVARIANTS IInv RangeResult LocalsFresh RightRuns
CHECK_DEADLOCK FALSE
