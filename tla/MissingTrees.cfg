SPECIFICATION ParseSpec
CONSTANTS
  IntBits = 6
  Cases <- MCNullCases
INVARIANT FullSetOfParses
CHECK_DEADLOCK FALSE
