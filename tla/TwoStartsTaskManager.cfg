\* Two threads start the same task.
CONSTANTS
  Tasks = {t1}
  Starters = {s1, s2}
  Cancellers = {}
  Null = Null
SPECIFICATION TaskSpec
INVARIANT FinishedIsReleased
CHECK_DEADLOCK FALSE
