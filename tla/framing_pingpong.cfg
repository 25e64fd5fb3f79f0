CONSTANTS
  HeaderSize = 2
  Radix = 3
  HeaderLimit = 3
  BufferSize = 5
  Capacity = 3
  Sizes = {0, 1, 2}
  Garbage = {0, 1, 9}
  Window = 1
  MaxFrames = 3
  MaxCalls = 5
SPECIFICATION ExchangeSpec
INVARIANTS TypeOK InOrder HangupLosesNothing Alternates
PROPERTIES EventuallyDelivered NoBusyLoop ImplementsChannel GoesOn
CHECK_DEADLOCK FALSE
