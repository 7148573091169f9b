CONSTANTS
  Names = {x, y, z, w}
  MAXVAR = 4
  YYMAXDEPTH = 3
SPECIFICATION SumSpec
INVARIANTS NoCircle TableSound ShownWasTyped
SYMMETRY SameNames
