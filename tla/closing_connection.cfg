CONSTANTS
  MaxFd = 2
  Local = {l1}
  Remote = {r1}
  Peer = {p1}
  MaxFiles = 2
SPECIFICATION FairSpec
PROPERTY ConnectionClosed
CHECK_DEADLOCK FALSE
