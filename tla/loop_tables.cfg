CONSTANTS
  MaxFd = 2
  Thread = {t1, t2}
  MaxEvents = 2
  Made = {"listen", "client", "once", "signal"}
  Removing = {"listen", "signal"}
  MaxFiles = 3
  MaxInputs = 1
SPECIFICATION Spec
SYMMETRY Symmetric
INVARIANTS TypeOK Bookkeeping
CHECK_DEADLOCK FALSE
