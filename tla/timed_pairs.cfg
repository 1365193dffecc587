SPECIFICATION TimedFairSpec
CONSTANTS
  Servers = {1, 2}
  Nobody = 0
  Ip <- MCIp
  ServerId <- MCOneCluster
  NEGOTIATE_MAX_COUNT = 6
  MAX_HEARTBEAT_ERROR_COUNT = 1
  InboxBound = 3
  PingBound = 1
  MaxStarts = 2
  MaxFaults = 0
  MaxCrashes = 1
  MaxKeys = 1
  StartGap = 4
ACTION_CONSTRAINT KilledOrQuit
PROPERTIES
  Decides
  UninitEnds
  Pairs
  TakesOver
\* Processes may all have ended, with no start left.
CHECK_DEADLOCK FALSE
