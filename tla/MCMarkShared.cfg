CONSTANTS
  Blocks = {1, 2, 3, 4}
  Slots <- MCSlots
  Heaps <- MCHeaps
  Extra <- MCExtra
  BigExtra = {5, 13}
  Entries = {1, 2}
  MAX_RECURSE_DEPTH = 1
  IDX_SPAN = 4
  KK_RC_MARK_MAX = 3
  RC_STICKY <- MCSticky
  RC_STICKY_DROP <- MCStickyDrop
  MaxCalls = 6
  Null = Null
  Val = Val
  Length = Length
SPECIFICATION FairSpec
INVARIANTS
  MarkedExactly
  ReversalConsistent
PROPERTIES
  MarkReturns
\* the owner stops when it has marked every block
CHECK_DEADLOCK FALSE
