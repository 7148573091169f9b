CONSTANTS
  Nodes = {n1, n2, n3, n4}
  Seqs = {1, 2}
  Tags = {1, 2}
  NULL = NULL
  FREED = FREED
SPECIFICATION Spec
INVARIANT ListIntact
PROPERTY ImplementsFifo
