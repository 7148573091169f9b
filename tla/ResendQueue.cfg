CONSTANTS
  RESEND_TIMEOUT = 1
  MAX_ATTEMPTS = 2
  INT_MAX = 30
  Seqs = {1, 2, 3}
  Cmds = {"CMD_LOGIN", "CMD_SENDM"}
  FatalCmds = {"CMD_LOGIN"}
  StartTime = 1
  STARTUP = 1
  LATENCY = 2
  LastWrite = 4
  MaxTime = 28
SPECIFICATION FairSpec
INVARIANTS
  TypeOK
  TimerNeverLate
  QueueIsPending
  AttemptsSpent
PROPERTIES
  ImplementsLedger
  EveryPacketResolved
  FatalPacketAckedOrQuit
CHECK_DEADLOCK FALSE
