SPECIFICATION Spec
CONSTANTS
  Chunks <- MCChunks
  MaxChunks = 2
  MaxCalls = 3
INVARIANTS
  OpenIsUsable
  ClosedIsForgotten
  FaultCauses
PROPERTY ClosingCompletes
\* A connection ends, and so does a program that meets a fault.
CHECK_DEADLOCK FALSE
