CONSTANTS
  \* NotificationQueue
  Threads = {t1, t2, t3}
  Notifications = {n1, n2}
  NoNf = NoNf
  \* ThreadPool
  Clients = {c1, c2}
  Workers = {w1, w2, w3}
  Targets = {r1, r2}
  None = None
  MinCapacity = 1
  MaxCapacity = 2
  AgeLimit = 2
  Deltas <- Shrink
SPECIFICATION MCSpec
INVARIANTS
  ExactlyOnce
  NoLostWakeup
  HandOutExclusive
  JoinAllWaits
PROPERTIES
  ImplementsContract
  WaitReturns
  CallsReturn
  QueuedRuns
