CONSTANTS
  None = None
  Threads = {th1, th2}
  TimedWait = FALSE
SPECIFICATION Spec
INVARIANTS TypeOK
