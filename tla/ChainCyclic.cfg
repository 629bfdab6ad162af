SPECIFICATION Spec
CONSTANTS
  Nodes = {n1, n2, n3, n4}
  Nil = Nil
  MaxDepth = 3
INVARIANT RollbackIsComplete
