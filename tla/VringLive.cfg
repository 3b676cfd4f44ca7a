SPECIFICATION FairSpec
CONSTANTS
  Queues <- HiprioAndRequest
  QueueSize = 1
  IdxMod = 2
  MaxRequests = 1
  Nil = Nil
  Setup <- AddrThenBase
  KickFds = "eventfd"
  DrainBuf = 2
  MaxInbox = 2
  MaxStarts = 2
  MayClose = FALSE
PROPERTIES Answered
CHECK_DEADLOCK FALSE
