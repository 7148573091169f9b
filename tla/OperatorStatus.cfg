CONSTANTS
  FirstContacts <- TheContacts
  Uins <- TheUins
  MAX_CONTS_PACKET = 2
  set_status = "INVISIBLE"
  Others <- TheOthers
  Sessions <- TheSessions
  Lines <- TheLines
  LineLength <- TheLengths
  LIMIT = 7
  Names <- TheNames
  Numeric <- TheNumbers
  NewNick = "N"
  Places = 5
SPECIFICATION Spec
PROPERTY OwnStatusKept
CHECK_DEADLOCK FALSE
