CONSTANTS
  Blocks = {b1, b2}
  Values = {v1}
  NULL = NULL
  FREE = FREE
  Index <- MCIndex
  Indices <- MCIndices
  ElementSizes <- SmallElementSizes
  PtrSize = 2
  MaxSize = 5
SPECIFICATION Spec
INVARIANTS BufferHoldsSlots
CHECK_DEADLOCK FALSE
