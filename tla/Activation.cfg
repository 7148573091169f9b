CONSTANTS
  Responses = 2
  MaxResponses = 3
  ALPHA = 4
  INHIBIT = 200
  ACT_INITIAL = 50
  INHIBITED <- ThreeDraws
  MaxRelax = 1
SPECIFICATION FairSpec
INVARIANTS
  NoQuickRepeat
PROPERTY SpeaksAgain
