CONSTANTS
  Blocks = {1, 2, 3, 4}
  Slots <- MCSlots
  Heaps <- MCVectorHeaps
  Extra <- MCExtra
  BigExtra = {}
  Entries = {1}
  MAX_RECURSE_DEPTH = 1
  IDX_SPAN = 4
  KK_RC_MARK_MAX = 3
  RC_STICKY <- MCSticky
  RC_STICKY_DROP <- MCStickyDrop
  MaxCalls = 6
  Null = Null
  Val = Val
  Length = Length
SPECIFICATION FairSpec
PROPERTIES
  MarkReturns
\* the owner stops when it has marked every block
CHECK_DEADLOCK FALSE
