SPECIFICATION ServerFairSpec
CONSTANTS
  Msg = {a}
  Node = {n1, n2}
  NULL = null
  Consumers = {heartbeat}
  SEM_MAX = 2
  MAXRECVCHAN = 3
  MAXSENDCHAN = 2
  Conn = {k1, k2, k3, k4}
  MaxMessages = 2
INVARIANTS
  ServerTypeOK
  FreeListLinked
  NoUseAfterDelete
PROPERTIES
  OneConnectionPerSlot
  RefusesOnlyWhenFull
  UninitEnds
\* uninit ends, and the server with it.
CHECK_DEADLOCK FALSE
