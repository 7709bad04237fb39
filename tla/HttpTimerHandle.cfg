SPECIFICATION Spec
CONSTANTS
  Chunks <- OneRequest
  MaxChunks = 1
INVARIANT TimerClosedFirst
CHECK_DEADLOCK FALSE
