SPECIFICATION Spec
CONSTANTS
  Chunks <- MCChunks
  MaxChunks = 3
INVARIANTS
  OwnedOnce
  TimerOwned
  KeptAliveIsTimed
  UntimedIsUnfinished
  FaultCauses
PROPERTIES
  KeptAliveEnds
\* A connection ends, and so does a program that meets a fault.
CHECK_DEADLOCK FALSE
