CONSTANTS
  a = a
  b = b
  c = c
  Modules = {a, b, c}
  Imports <- Chain
  Pub <- Private
  Rank <- Order
  Roots = {c}
  Entries = {c}
  Inlined = {b}
  Texts = {1, 2, 3}
  Unlexable = {3}
  Original = 1
  CleanRestarts = TRUE
  MaxEdits = 1
  MaxBuilds = 3
  MaxFailures = 1
SPECIFICATION FairSpec
INVARIANTS
  Fresh
  LinkedHasInterface
PROPERTIES
  LinkReadsMatchingCode
  OutcomeReported
  BuildReturns
\* the bounds of the model end every behaviour
CHECK_DEADLOCK FALSE
