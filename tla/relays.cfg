CONSTANTS
  ctl = ctl
  a = a
  b = b
  None = None
  Controllers <- OneController
  Clients <- TwoClients
  Bytes <- TwoEach
  Room = 1
  MaxAsk = 2
  MaxRelay = 2
  MaxCtrl = 2
  L = 2
SPECIFICATION Spec
SYMMETRY SymmetricClients
CHECK_DEADLOCK FALSE
INVARIANT Nio2TypeOK
INVARIANT PoolsKept
INVARIANT SocketsOwned
INVARIANT BytesInOrder
INVARIANT NothingLostWhileUp
