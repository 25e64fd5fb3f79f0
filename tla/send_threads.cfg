CONSTANTS
  MaxFd = 3
  Thread = {t1, t2}
  Loop = loop
  Address <- Addresses
  Remote <- HerePorts
  Client <- None
  Local = "here"
  Events = {"refuse"}
  FirstAlone = TRUE
  MaxCalls = 4
  MaxAccepts = 0
SPECIFICATION Spec
SYMMETRY Symmetric
INVARIANTS TypeOK FramesWhole RightPeer HasBuffer
PROPERTY ImplementsStreams
CHECK_DEADLOCK FALSE
