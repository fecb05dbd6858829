CONSTANTS
  \* ActiveThreadPool
  Clients = {c1, c2}
  Threads = {t1, t2}
  Targets = {1, 2, 3}
  Priorities = {0}
  Capacity = 2
  Nothing = Nothing
  \* TCPServer
  Workers = {w1, w2}
  Connections = {1, 2, 3}
  Stops = {s1, s2}
  MaxThreads = 2
  MaxQueued = 1
  MaxOthers = 1
  None = None
SPECIFICATION MCSpec
INVARIANTS
  NobodyStranded
  ActiveThreadsCounts
  RcCounts
  NotStranded
PROPERTIES
  JoinAllWaits
  JoinAllReturns
  ServedUnlessNoThread
  StopDrains
\* joinAll() waits for ever once the operating system has refused to start a thread,
\* and the TCP server ends when it has been destroyed.
CHECK_DEADLOCK FALSE
