CONSTANTS
  table <- SomeTable
  RESEND_TIMEOUT = 2
  MAX_ATTEMPTS = 2
  INT_MAX = 99
  WORD = 16
  KEEP_ALIVE = 2
  STARTUP = 1
  ContactWrites <- ContactList
  IdleWrites <- Messages
  InputWrites <- Messages
  SrvPackets <- Services
  ORDERED = FALSE
  StartTime = 2
  LATENCY = 1
  MaxSrv = 1
  MaxDeliveries = 2
  MaxSeq = 3
  DeadBy = 0
  MaxTime = 6
SPECIFICATION Spec
INVARIANTS UniqueSEQ AckedWasReceived DeliveriesAnswered
PROPERTY ImplementsLedger
CHECK_DEADLOCK FALSE
