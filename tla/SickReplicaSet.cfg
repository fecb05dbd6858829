\* A server that reports to be well and fails every request.
CONSTANTS
  Servers = {a, b}
  a = a
  b = b
  Configs <- MCConfigs
  Roles = {"RsPrimary", "RsSecondary"}
  Clients = {c}
  Monitor = Monitor
  Main = Main
  Name = Name
  OtherName = OtherName
  NoName = NoName
  MaxChanges = 0
  NoServer = NoServer
  Modes = {"Primary"}
  Sick = {a}
  lowExecuteRetryThreshold = 2
  serverReconnectRetries = 1
SPECIFICATION FairConnSpec
PROPERTIES
  RetriesEnd
