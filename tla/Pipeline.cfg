SPECIFICATION Spec
CONSTANTS
  N = 3
  Resends = 2
INVARIANTS
  OrderCauses
  LostCauses
PROPERTY Implements
\* A closed connection stays closed.
CHECK_DEADLOCK FALSE
