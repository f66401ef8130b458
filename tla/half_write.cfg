CONSTANTS
  ctl = ctl
  a = a
  b = b
  None = None
  Controllers <- OneController
  Clients <- TwoClients
  Bytes <- BothWaysBytes
  Room = 1
  MaxAsk = 1
  MaxRelay = 2
  MaxCtrl = 2
  L = 2
SPECIFICATION Spec
CHECK_DEADLOCK FALSE
PROPERTY FlushedWhenWritable
