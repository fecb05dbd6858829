CONSTANTS
  None = None
  r = r
  w = w
  k1 = k1
  k2 = k2
  Chosen = {"SocketReactor"}
  \* The other components.
  Objects = {o1}
  Borrowers = {b1}
  capacity = 1
  peakCapacity = 1
  Sessions = {s1}
  Users = {u1}
  minSessions = 1
  maxSessions = 1
  Loggers = {l1}
  PerLogger = 1
  queueSize = 1
  CanThrow = TRUE
  Controllers = {c1}
  MaxStarts = 1
  \* SocketReactor: two threads, each with an observer of its own; epoll_ctl() works.
  KindOf <- MCKindOf
  Clients = {k1, k2}
  Uses <- UseOne
  Removers = {}
  Notifiers = {n1, n2, n3}
  CtlFails = FALSE
  MaxAdds = 2
SPECIFICATION Spec
INVARIANT RegisteredIsPolled
\* The clients may stop calling.
CHECK_DEADLOCK FALSE
