CONSTANTS
  MaxFd = 3
  Thread = {t1}
  MaxEvents = 2
  Made = {"listen", "client", "once"}
  Removing = {}
  MaxFiles = 3
  MaxInputs = 1
SPECIFICATION FairSpec
INVARIANTS OwnContext ToldOnce
PROPERTIES HangupRemoved RequestsServed OnceExecuted StopEnds
CHECK_DEADLOCK FALSE
