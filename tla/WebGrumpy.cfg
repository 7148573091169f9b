CONSTANTS
  Clients = {c1, c2, c3}
  NoClient = NoClient
  NoWords <- NoText
  Requests <- Words
  BACKLOG = 2
  MAXRETRY = 2
SPECIFICATION FairSpec
INVARIANTS AnswersItsWords PagesContinue
PROPERTY ServedInTurn
CHECK_DEADLOCK FALSE
