SPECIFICATION Spec
CONSTANTS
  Queues <- RequestOnly
  QueueSize = 2
  IdxMod = 4
  MaxRequests = 4
  Nil = Nil
  Setup <- BaseThenAddr
  KickFds = "eventfd"
  DrainBuf = 2
  MaxInbox = 8
  MaxStarts = 2
  MayClose = TRUE
INVARIANTS TypeOK KickPending CallPending BaseExact
PROPERTY ServedOnceInOrder
CHECK_DEADLOCK FALSE
