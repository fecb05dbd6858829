CONSTANTS
  \* TimedNotificationQueue
  Notifications = {n1, n2}
  Latest = 3
  MaxTime = 5
  Timeouts <- AnyTimeout
  Ms = 2
  MaxSleep = 2
  None = None
  \* TaskManager
  Tasks = {t1}
  Starters = {s1, s2}
  Cancellers = {k1}
  Null = Null
  \* ReplicaSetConnection
  Servers = {a, b}
  a = a
  b = b
  Configs <- MCConfigs
  Roles = {"RsPrimary", "RsSecondary"}
  Clients = {c}
  Monitor = Monitor
  Main = Main
  Name = Name
  OtherName = OtherName
  NoName = NoName
  MaxChanges = 1
  NoServer = NoServer
  Modes = {"Primary"}
  Sick = {}
  lowExecuteRetryThreshold = 2
  serverReconnectRetries = 1
SPECIFICATION MCSpec
INVARIANTS
  IteratorValid
  NoOversleep
  CancelledRunsOnlyIfOverwritten
  ListIsInFlight
  TopologyConsistent
PROPERTIES
  ImplementsTimedDelivery
  WaitReturns
  Converges
  CallsReturn
