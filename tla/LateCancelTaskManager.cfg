\* One thread starts a task, another cancels it.
CONSTANTS
  Tasks = {t1}
  Starters = {s1}
  Cancellers = {c1}
  Null = Null
SPECIFICATION TaskSpec
INVARIANT CancelledNeverRuns
CHECK_DEADLOCK FALSE
