SPECIFICATION ValuesSpec
CONSTANTS
  TEN = 2
  LOG_BASE = 3
  HEX = 2
  LOG_BASE_HEX = 2
  DIGIT_RANGE = 32
  SMALLINT_MAX = 15
  ARITHMETIC = "OVF"
  KARATSUBA_MIN = 3
  KARATSUBA_LEN = 4
  Seeds <- MCSeeds
  Others <- MCOthers
  Exponents = {0, 1, 2, 3, 4, 5, 8, 9, 17}
  LeadingZeros = {0}
  MIN_BY_MINUS_ONE = FALSE
  MAX_STEPS = 2
  MAX_DECIMALS = 22
  Widths = {32, 64}
  Singles <- MCSingles
  Pairs <- MCPairs
  Narrow <- MCNarrow
  Externals <- MCExternals
  Externals16 <- MCExternals16
  Literals <- MCLiterals
  Counts <- MCCounts
  MAX_ACTS = 2
  MAX_BYTES = 8
INVARIANTS
  WidesExact
\* programs stop after MAX_STEPS or MAX_ACTS operations
CHECK_DEADLOCK FALSE
