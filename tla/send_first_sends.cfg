CONSTANTS
  MaxFd = 2
  Thread = {t1, t2}
  Loop = loop
  Address <- Addresses
  Remote <- Here1
  Client <- None
  Local = "here"
  Events = {}
  FirstAlone = FALSE
  MaxCalls = 3
  MaxAccepts = 0
SPECIFICATION Spec
INVARIANT FramesWhole
CHECK_DEADLOCK FALSE
