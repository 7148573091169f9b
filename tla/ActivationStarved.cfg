CONSTANTS
  Responses = 3
  MaxResponses = 3
  ALPHA = 4
  INHIBIT = 200
  ACT_INITIAL = 50
  INHIBITED <- NoDraws
  MaxRelax = 0
SPECIFICATION FairSpec
PROPERTY EveryResponseUttered
