CONSTANTS
  MaxFd = 2
  Thread = {}
  Loop = loop
  Address <- Addresses
  Remote <- None
  Client <- HerePorts
  Local = "here"
  Events = {"hangup"}
  FirstAlone = FALSE
  MaxCalls = 3
  MaxAccepts = 4
SPECIFICATION Spec
INVARIANTS SocketIsKnown MapMatches
CHECK_DEADLOCK FALSE
