SPECIFICATION ChannelFairSpec
CONSTANTS
  EndOfHeader = 2
  ParamDataStart_Offset = 1
  DEF_MSG_LENGTH = 3
  IdSpace = 2
  CountSpace = 4
  Data = {0}
  DataLength <- MCDataLength
  WireBytes = 3
  MaxConns = 2
  MaxMessages = 2
  MaxParams = 2
  MaxFaults = 1
  StrayLengths = {0, 2}
INVARIANTS
  ChannelTypeOK
  InFrame
  NeverTwice
PROPERTIES
  Arrives
  SendReturns
\* The caller stops after its last message.
CHECK_DEADLOCK FALSE
