SPECIFICATION Spec
CONSTANTS
  Labels = {1, 2}
  CONT_MAX = 2
  Styles <- MCStyles
  DIRECT = FALSE
  MAX_USES = 2
  MAX_HANDLERS = 2
  FUEL = 5
INVARIANTS
  EvidenceExact
  Finalized
PROPERTIES
  Delimited
\* the program ends
CHECK_DEADLOCK FALSE
