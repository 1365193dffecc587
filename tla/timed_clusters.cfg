SPECIFICATION TimedSpec
CONSTANTS
  Servers = {1, 2, 3}
  Nobody = 0
  Ip <- MCIp
  ServerId <- MCTwoClusters
  NEGOTIATE_MAX_COUNT = 6
  MAX_HEARTBEAT_ERROR_COUNT = 1
  InboxBound = 4
  PingBound = 1
  MaxStarts = 1
  MaxFaults = 0
  MaxCrashes = 0
  MaxKeys = 0
  StartGap = 4
INVARIANT PairedKnowsMate
\* Processes may all have ended, with no start left.
CHECK_DEADLOCK FALSE
