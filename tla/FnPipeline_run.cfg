SPECIFICATION FairSpec
CONSTANTS
  root = root
  query = query
  other = other
  block = block
  last = last
  root1 = root1
  first = first
  deep = deep
  root2 = root2
  second = second
  Vertex <- AllVertices
  Root = {root, root1, root2}
  Block = {block, deep}
  Image = {second, last}
  Top = "top"
  Parent <- ParentOf
  Edge <- Edges
  Var <- Names
  Outputs <- OutputsOf
  References <- ReferencesOf
  Final <- Results
  Callers = {"reconcile", "event"}
INVARIANTS IInv SeesFinal NothingInBackground
PROPERTIES AsIfSequential BlockContainsFailure Terminates
CHECK_DEADLOCK FALSE
