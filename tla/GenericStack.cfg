CONSTANTS
  Blocks = {b1, b2}
  Values = {v1}
  NULL = NULL
  FREE = FREE
  Index <- MCIndex
  Indices <- MCIndices
  ElementSizes <- MCElementSizes
  PtrSize = 2
  MaxSize = 5
SPECIFICATION FairSpec
INVARIANTS SizeFitsBuffer SlotsOwnBlocks NoLeak BufferHoldsSlots
PROPERTIES ImplementsArray CallsReturn
CHECK_DEADLOCK FALSE
