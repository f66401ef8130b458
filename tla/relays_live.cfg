CONSTANTS
  ctl = ctl
  a = a
  b = b
  None = None
  Controllers <- OneController
  Clients <- TwoClients
  Bytes <- BothWaysBytes
  Room = 1
  MaxAsk = 1
  MaxRelay = 2
  MaxCtrl = 2
  L = 2
SPECIFICATION FairSpec
CHECK_DEADLOCK FALSE
PROPERTY LoopReturns
PROPERTY HalfWrittenGoesOut
PROPERTY StartAnswered
