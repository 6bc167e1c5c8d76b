CONSTANTS
  Workers = {w1, w2}
  Main = main
  a = a
  b = b
  c = c
  d = d
  Tasks = {a, b, c, d}
  Root = root
  Programs <- All
  Spurious = TRUE
SPECIFICATION FairSpec
INVARIANTS
  TaskRunsOnce
  WorkNeverStranded
  AwaitsSatisfied
PROPERTIES
  ForkJoinReturns
\* the process ends with its main thread
CHECK_DEADLOCK FALSE
