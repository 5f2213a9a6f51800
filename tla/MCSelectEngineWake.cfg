SPECIFICATION Spec
CONSTANTS
  Fds = {1, 2}
  Hows = {"forever"}
  Callers = {"blive"}
  Delays = {1, 2}
  UsecPerSec = 3
  ClockWaits = FALSE
  PRI_QUEUE_SIZE = 2
  PipeSize = 1
  MaxEvents = 3
  StartTime = 2
  MaxTime = 4
  MaxChanges = 2
  MaxArrivals = 0
  None = None
CHECK_DEADLOCK FALSE
INVARIANTS
  TypeOK
  NoLostWakeup
  EarlyForWantOfCarry
