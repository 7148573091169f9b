CONSTANTS
  table <- SomeTable
  RESEND_TIMEOUT = 1
  MAX_ATTEMPTS = 2
  INT_MAX = 99
  WORD = 4
  KEEP_ALIVE = 3
  STARTUP = 1
  ContactWrites <- NoPackets
  IdleWrites <- NoWrites
  InputWrites <- NoWrites
  SrvPackets <- MessagesAndBusy
  ORDERED = TRUE
  StartTime = 1
  LATENCY = 1
  MaxSrv = 2
  MaxDeliveries = 2
  MaxSeq = 3
  DeadBy = 2
  MaxTime = 9
SPECIFICATION FairSpec
INVARIANT HandledOnce
PROPERTY DeadServerNoticed
CHECK_DEADLOCK FALSE
