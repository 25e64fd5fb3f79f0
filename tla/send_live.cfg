CONSTANTS
  MaxFd = 2
  Thread = {t1, t2}
  Loop = loop
  Address <- Addresses
  Remote <- Here1
  Client <- Here1
  Local = "here"
  Events = {"hangup", "refuse", "register"}
  FirstAlone = FALSE
  MaxCalls = 2
  MaxAccepts = 1
SPECIFICATION FairSpec
INVARIANT OnlyFailuresLeak
PROPERTY SendReturns
CHECK_DEADLOCK FALSE
