CONSTANTS
  Threads = {t1, t2, t3}
  RC_MAX = 8
  STICKY_SPAN = 3
  DROP_SPAN = 6
  MaxRefs = 10
SPECIFICATION Spec
SYMMETRY Symmetry
INVARIANTS
  TypeOK
  SharedLosesAtMostOne
  SharedFreedWithAtMostOneLeft
  ReuseIsExclusive
  SaturatedNeverFreed
  LeaksOnlyWhenSticky
\* the life of a block ends when it is freed
CHECK_DEADLOCK FALSE
