SPECIFICATION TunnelFairSpec
CONSTANTS
  RcvBufSize = 4
  SndBufSize = 6
  FirstMss = 1
  Mss <- MCMss
  MaxXmit = 4
  MaxXmitOpening = 5
  Patience = 3
  DupsBound = 4
  End = {here, there}
  Initiator = here
  Plans <- MCPlans
  Chunks = {4}
  here = here
  there = there
INVARIANTS
  TunnelTypeOK
  InOrder
  SegmentsCover
  WindowKept
  TimerArmed
  AbortsOnlyTheDead
ACTION_CONSTRAINT LossFirst
PROPERTIES
  FlushedBeforeEnd
  Delivers
  CloseEnds
CHECK_DEADLOCK FALSE
