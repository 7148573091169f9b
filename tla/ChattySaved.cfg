CONSTANTS
  Humans = {h1, h2}
  NOBODY = NOBODY
  Topics = {t1, t2}
  NOTOPIC = NOTOPIC
  HISTORY = 2
  TABOO_LIMIT = 4
  FRESH = 3
  HOT = 2
  MaxTaboo = 4
  MaxRemarks = 1
SPECIFICATION Spec
INVARIANT SavedPerHuman
