CONSTANTS
  ctl = ctl
  a = a
  b = b
  None = None
  Controllers <- OneController
  Clients <- TwoClients
  Bytes <- TwoEach
  Room = 1
  MaxAsk = 2
  MaxRelay = 2
  MaxCtrl = 2
  L = 2
SPECIFICATION Spec
CHECK_DEADLOCK FALSE
INVARIANT LatePeerRefused
