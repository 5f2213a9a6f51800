SPECIFICATION Spec
CONSTANTS
  Fds = {1}
  Hows = {"forever", "once"}
  Callers = {}
  Delays = {1}
  UsecPerSec = 10
  ClockWaits = TRUE
  PRI_QUEUE_SIZE = 2
  PipeSize = 4
  MaxEvents = 2
  StartTime = 0
  MaxTime = 2
  MaxChanges = 1
  MaxArrivals = 1
  None = None
CHECK_DEADLOCK FALSE
INVARIANTS
  FiredOnce
PROPERTIES
  EventuallyFires
  FiredIsPopped
  EventuallyRead
  EventuallyEnds
