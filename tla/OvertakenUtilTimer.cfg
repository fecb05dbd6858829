\* Two tasks, one of which may be scheduled while cancel() purges the other.
CONSTANTS
  OneShot = {a, b}
  Periodic = {}
  FixedRate = {}
  Cancels = {c1}
  Stop = Stop
  Times = {0, 1}
  Interval = 1
  MaxTime = 1
  None = None
SPECIFICATION Spec
INVARIANT CancelPurges
CHECK_DEADLOCK FALSE
