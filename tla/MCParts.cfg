CONSTANTS
  None = None
  r = r
  w = w
  k1 = k1
  k2 = k2
  Chosen = {"ObjectPool", "SessionPool", "AsyncChannel", "Activity", "SocketReactor"}
  \* ObjectPool: one object is pooled, two can be lent; three threads.
  Objects = {o1, o2, o3}
  Borrowers = {b1, b2, b3}
  capacity = 1
  peakCapacity = 2
  \* SessionPool: two sessions at most, one is kept; two users.
  Sessions = {s1, s2, s3}
  Users = {u1, u2}
  minSessions = 1
  maxSessions = 2
  \* AsyncChannel: two threads log two messages each; one fits into the queue.
  Loggers = {l1, l2}
  PerLogger = 2
  queueSize = 1
  CanThrow = TRUE
  \* Activity: two threads, three starts.
  Controllers = {k1, k2}
  MaxStarts = 3
  \* SocketReactor: two threads, one of which also removes; two calls of
  \* addEventHandler(); epoll_ctl() can fail.
  KindOf <- MCKindOf
  Clients = {k1, k2}
  Uses <- UseShared
  Removers = {k1}
  Notifiers = {n1, n2, n3}
  CtlFails = TRUE
  MaxAdds = 2
SPECIFICATION FairSpec
INVARIANTS
  PoolAccounts
  SignalsReach
  
  CloseFlushes
  RunningIsTrue
PROPERTIES
  CloseReturns
  NoLateCall
\* Every thread may stop calling.
CHECK_DEADLOCK FALSE
