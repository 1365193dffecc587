SPECIFICATION TelFairSpec
CONSTANTS
  Lines = {l1}
  CountSpace = 4
  MaxCalls = 4
  MaxAlarms = 1
  MaxFatal = 1
  MaxEvents = 3
INVARIANTS
  LineTypeOK
  Accounted
  OutboundHeard
  ActiveHasCall
PROPERTIES
  EndedIsReleased
\* A line whose calls have been used up may stay as it is.
CHECK_DEADLOCK FALSE
