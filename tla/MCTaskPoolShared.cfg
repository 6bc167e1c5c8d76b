CONSTANTS
  Workers = {w1, w2}
  Main = main
  a = a
  b = b
  c = c
  d = d
  Tasks = {a, b, c, d}
  Root = root
  Programs <- SharedOnly
  Spurious = FALSE
SPECIFICATION FairSpec
PROPERTIES
  MainReturns
\* the process ends with its main thread
CHECK_DEADLOCK FALSE
