CONSTANTS
  RESEND_TIMEOUT = 4
  MAX_ATTEMPTS = 2
  INT_MAX = 99
  Seqs = {1, 2, 3}
  Cmds = {"CMD_SENDM"}
  FatalCmds = {}
  StartTime = 1
  STARTUP = 1
  LATENCY = 0
  LastWrite = 8
  MaxTime = 12
SPECIFICATION Spec
INVARIANT RetransmittedInTime
CHECK_DEADLOCK FALSE
