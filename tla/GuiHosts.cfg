CONSTANTS
  NULL = NULL
  t1 = t1
  t2 = t2
  t3 = t3
  Timers = {t1, t2}
  Timeouts = {0, 1}
  Intervals = {1}
  MaxTick = 2
  IntMax = 2
  RearmsInCallback = FALSE
  Platforms = {"win32", "apple", "android", "loop"}
  MaxMessages = 2

SPECIFICATION GuiFairSpec

INVARIANTS
  OnePassToCome

PROPERTIES
  Contract
  PassEnds
  OverdueServed
