SPECIFICATION Spec
CONSTANTS
  Conns = {c1, c2, c3, c4}
  MaxCalls = 2
INVARIANTS
  ListsExact
  ReadsOwn
PROPERTIES
  Leaves
  Implements
\* All connections may have come and gone.
CHECK_DEADLOCK FALSE
