CONSTANTS
  Users = {1, 2, 3}
  NO_UIN = 0
  SEC_PER_MIN = 2
  READ_CTL = 5
  CtlFiles <- CtlInStep
  DELTA = 1
  MINUTES = 5
  CYCLE = 30
SPECIFICATION RunSpec
INVARIANTS
  GreetedOnce
  GreetedByName
PROPERTY RequestedAgain
