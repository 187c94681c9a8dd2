CONSTANTS
  NULL = NULL
  Timers = {t1, t2, t3}
  Timeouts = {0, 1}
  Intervals = {0, 2}
  MaxTick = 2
  IntMax = 1
  RearmsInCallback = TRUE

SPECIFICATION Spec

INVARIANTS
  TypeOK
  QueueOrdered
  CursorOnQueue
  ReadyOnlyWhileRunning
  WakeInTime

SYMMETRY Symmetry
