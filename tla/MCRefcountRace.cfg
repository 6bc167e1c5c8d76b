CONSTANTS
  Threads = {t1, t2}
  RC_MAX = 7
  STICKY_SPAN = 2
  DROP_SPAN = 4
  MaxRefs = 4
SPECIFICATION SpecMarkedUnique
INVARIANT
  UnsharedExact
CHECK_DEADLOCK FALSE
