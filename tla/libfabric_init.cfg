CONSTANTS
  Handle <- Handles
  Modes = {"TCP", "RDMA"}
  MaxRaised = 2
SPECIFICATION Spec
INVARIANTS TypeOK WatchedIsComplete
PROPERTY ImplementsRegistration
CHECK_DEADLOCK FALSE
