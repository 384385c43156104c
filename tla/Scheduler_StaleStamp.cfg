CONSTANTS
  None = None
  Threads = {th1, th2}
  TimedWait = TRUE
SPECIFICATION Spec
INVARIANT ScheduledOnce
