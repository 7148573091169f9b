CONSTANTS
  table <- SomeTable
  RESEND_TIMEOUT = 2
  MAX_ATTEMPTS = 2
  INT_MAX = 99
  WORD = 16
  KEEP_ALIVE = 9
  STARTUP = 1
  ContactWrites <- NoPackets
  IdleWrites <- NoWrites
  InputWrites <- Messages
  SrvPackets <- BusyServer
  ORDERED = FALSE
  StartTime = 2
  LATENCY = 1
  MaxSrv = 1
  MaxDeliveries = 1
  MaxSeq = 4
  DeadBy = 0
  MaxTime = 7
SPECIFICATION Spec
INVARIANT UniqueSEQ
CHECK_DEADLOCK FALSE
