CONSTANTS
  HeaderSize = 2
  Radix = 3
  HeaderLimit = 3
  BufferSize = 5
  Capacity = 20
  Sizes = {0, 1}
  Garbage = {0, 1, 9}
  Window = 2
  MaxFrames = 3
  MaxCalls = 5
SPECIFICATION Spec
INVARIANT InOrder
CHECK_DEADLOCK FALSE
