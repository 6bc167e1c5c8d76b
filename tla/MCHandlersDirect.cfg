SPECIFICATION Spec
CONSTANTS
  Labels = {1, 2}
  CONT_MAX = 2
  Styles <- MCStyles
  DIRECT = TRUE
  MAX_USES = 2
  MAX_HANDLERS = 2
  FUEL = 6
INVARIANTS
  EvidenceExact
CHECK_DEADLOCK FALSE
