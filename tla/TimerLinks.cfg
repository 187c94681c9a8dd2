CONSTANTS
  NULL = NULL
  Timers = {t1, t2, t3, t4}
  Deadlines = {0, 1, 2}

SPECIFICATION ListFairSpec

INVARIANTS
  Linked
  PlaceKept

PROPERTY AddReturns
