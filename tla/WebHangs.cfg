CONSTANTS
  Clients = {c1, c2, c3}
  NoClient = NoClient
  NoWords <- NoText
  Requests <- Words
  BACKLOG = 2
  MAXRETRY = 2
SPECIFICATION FairSpec

PROPERTY ShutsDown
CHECK_DEADLOCK FALSE
