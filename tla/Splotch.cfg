SPECIFICATION Spec
CONSTANTS
  MainDict <- MCMainDict
  SynDict <- MCSynDict
  Lines <- MCLines
  Entries <- MCEntries
  Outputs <- MCOutputs
  NAME = "grumpy"
  Lemma <- MCLemma
  NRESPONSE_MAX = 5
  HISTORY = 1
  NTEMPL_MAX = 7
  MAXPRIOR_TOPIC = 9
  SERIOUS_TOPIC = 5
  TOLD_ENOUGH = 3
  ANSWERS_SINCE = 1
  SUSPICION = 0
  CERTAINTY = 1
  MaxLines = 3
INVARIANTS
  NoBetterTemplate
  MemoryKept
  RobotOnlyIfRepeated
PROPERTIES
  TurnedOnce
CHECK_DEADLOCK FALSE
