CONSTANTS
  Blocks = {1, 2, 3, 4}
  Slots <- MCSlots
  Heaps <- MCHeaps
  RootSets = {{1}, {1, 3, 4}}
  Statics = {{}, {2}}
  Null = Null
  Val = Val
  Length = Length
SPECIFICATION FairSpec
INVARIANTS
  NoUseAfterFree
  StackBounded
  NothingLeftBehind
PROPERTIES
  DropReturns
  DropsLikeRecursion
\* the program stops when it has dropped its references
CHECK_DEADLOCK FALSE
