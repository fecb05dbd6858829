CONSTANTS
  \* UtilTimer
  OneShot = {a}
  Periodic = {}
  FixedRate = {f}
  Cancels = {1, 2}
  Stop = Stop
  Times = {0, 1}
  Interval = 1
  MaxTime = 1
  None = None
  \* Timer
  Controllers = {k1, k2}
  StartIntervals = {0, 1}
  Period = 2
  Intervals = {0, 1}
  PerMs = 2
  MaxLate = 10
  MaxSkipped = 2
SPECIFICATION MCSpec
INVARIANTS
  PaidPurge
  CancelStopsTask
  CallbackAlive
PROPERTIES
  CancelCompletes
  StopObeyed
  SkipsWhatPassed
  StopReturns
\* UtilTimer's thread ends with the timer.
CHECK_DEADLOCK FALSE
