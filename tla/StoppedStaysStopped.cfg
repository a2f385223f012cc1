CONSTANTS
  Limit = 1
  Execs = {e1}
  Watched = {e1}
  MaxEvents = 1
  None = None
SPECIFICATION Spec
INVARIANT StoppedStaysStopped
CHECK_DEADLOCK FALSE
