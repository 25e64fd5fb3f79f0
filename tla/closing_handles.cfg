CONSTANTS
  MaxFd = 3
  Local = {l1, l2}
  Remote = {r1}
  Peer = {p1}
  MaxFiles = 5
SPECIFICATION Spec
SYMMETRY Symmetric
INVARIANTS TypeOK ListenersKnown OnlyFailuresLeak NothingLeft
PROPERTY ClosesOwn
CHECK_DEADLOCK FALSE
