SPECIFICATION Spec
CONSTANTS
  Servers = {1, 2}
  Nobody = 0
  Ip <- MCIp
  ServerId <- MCOneCluster
  NEGOTIATE_MAX_COUNT = 1
  MAX_HEARTBEAT_ERROR_COUNT = 0
  InboxBound = 2
  PingBound = 1
  MaxStarts = 1
  MaxFaults = 0
  MaxCrashes = 0
  MaxKeys = 1
PROPERTY NormalQuitIsReported
\* Processes may all have ended, with no start left.
CHECK_DEADLOCK FALSE
