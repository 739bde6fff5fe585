SPECIFICATION Spec
CONSTANTS
  a = a
  b = b
  x = x
  y = y
  Item = {a, b}
  Null = Null
  VALUE = VALUE
  Root = Root
  Ref = Ref
  Types <- ImageOnly
  Ranges <- UpToThree
  Conditions <- NoCondition
  Locals <- FlatLocals
  Faults = {}
INVARIANT EveryItemRecorded
CHECK_DEADLOCK FALSE
