SPECIFICATION Spec
CONSTANTS
  BellCap = 2
  ReadBuf = 1
  WordLen = 2
  Slots = {0, 1}
  Scripts <- DisableFirst
  HeaderLen = 2
  MaxPayload = 2
  MaxFd = 5
  MaxFiles = 1
  MaxStream = 2
INVARIANTS TypeOK Framed DoorbellsCurrent FdsOwned OneOwner DrainsOwnKick TableCurrent
CHECK_DEADLOCK FALSE
