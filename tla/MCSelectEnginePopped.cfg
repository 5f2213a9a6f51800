SPECIFICATION Spec
CONSTANTS
  Fds = {1}
  Hows = {"forever", "once"}
  Callers = {"blive"}
  Delays = {1, 3}
  UsecPerSec = 10
  ClockWaits = FALSE
  PRI_QUEUE_SIZE = 2
  PipeSize = 2
  MaxEvents = 2
  StartTime = 0
  MaxTime = 4
  MaxChanges = 0
  MaxArrivals = 0
  None = None
CHECK_DEADLOCK FALSE
PROPERTIES
  FiredIsPopped
