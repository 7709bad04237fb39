SPECIFICATION Spec
CONSTANTS
  MaxFrames = 3
  PayloadLens = {0, 2, 5}
  LimitPayloadLen = 300
  Streams <- MCStreams
  Xor <- MCXor
INVARIANTS
  DeliveredInOrder
  DeliveredPromptly
  RefusesOversizeOnly
  HeaderUnderstood
  MaskAligned
\* The peer's bytes end, and the parser then has nothing to do.
CHECK_DEADLOCK FALSE
