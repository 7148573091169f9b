CONSTANTS
  table <- SomeTable
  RESEND_TIMEOUT = 2
  MAX_ATTEMPTS = 2
  INT_MAX = 99
  WORD = 16
  KEEP_ALIVE = 9
  STARTUP = 1
  ContactWrites <- NoPackets
  IdleWrites <- NoWrites
  InputWrites <- NoWrites
  SrvPackets <- Services
  ORDERED = FALSE
  StartTime = 2
  LATENCY = 1
  MaxSrv = 2
  MaxDeliveries = 2
  MaxSeq = 0
  DeadBy = 0
  MaxTime = 7
SPECIFICATION Spec
INVARIANT HandledOnce
CHECK_DEADLOCK FALSE
