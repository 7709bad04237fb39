SPECIFICATION Spec
CONSTANTS
  BufSize = 4
  MaxBufs = 6
INVARIANTS
  WholeUnlessShort
  LeakCauses
  BuffersOutliveWrite
  StaleCauses
PROPERTY ImplementsFileResult
\* The reader ends, and so does a program that meets a fault.
CHECK_DEADLOCK FALSE
