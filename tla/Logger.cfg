CONSTANTS
  Levels = {0, 4, 5}
  WARNING = 4
  ERROR = 5
  Lengths = {1, 3}
  MaxErrors = 3
SPECIFICATION LoggerSpec
INVARIANTS BuffersReleased LineWhole
PROPERTIES LogReturns
