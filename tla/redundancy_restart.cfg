SPECIFICATION Spec
CONSTANTS
  Servers = {1, 2}
  Nobody = 0
  Ip <- MCIp
  ServerId <- MCOneCluster
  NEGOTIATE_MAX_COUNT = 1
  MAX_HEARTBEAT_ERROR_COUNT = 0
  InboxBound = 2
  PingBound = 1
  MaxStarts = 2
  MaxFaults = 1
  MaxCrashes = 1
  MaxKeys = 1
CONSTRAINT OneMishap
ACTION_CONSTRAINT BetweenDatagrams
VIEW LiveState
INVARIANTS
  TypeOK
  NeverMutualBackups
PROPERTIES
  RoleSteps
\* Processes may all have ended, with no start left.
CHECK_DEADLOCK FALSE
