CONSTANTS
  NoMessage = NoMessage
  \* Two threads log a message each; the attached channel does not throw.
  Loggers = {l1, l2}
  PerLogger = 1
  queueSize = 0
  CanThrow = FALSE
SPECIFICATION FairSpec
PROPERTY CloseStops
\* Every thread may stop calling.
CHECK_DEADLOCK FALSE
