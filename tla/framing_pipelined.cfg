CONSTANTS
  HeaderSize = 2
  Radix = 3
  HeaderLimit = 3
  BufferSize = 5
  Capacity = 6
  Sizes = {0, 2}
  Garbage = {1, 9}
  Window = 3
  MaxFrames = 3
  MaxCalls = 5
SPECIFICATION Spec
INVARIANTS BufferBounds IntactInOrder
CHECK_DEADLOCK FALSE
