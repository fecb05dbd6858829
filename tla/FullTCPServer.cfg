\* One connection, a pool of one thread that another user may hold for a while.
CONSTANTS
  Workers = {w1}
  Connections = {k1}
  Stops = {s1}
  MaxThreads = 1
  MaxQueued = 1
  MaxOthers = 1
  None = None
SPECIFICATION FairSpec
PROPERTY AcceptedIsServed
CHECK_DEADLOCK FALSE
