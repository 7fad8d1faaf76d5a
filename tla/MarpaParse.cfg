SPECIFICATION ParseSpec
CONSTANTS
  IntBits = 6
  Cases <- MCCases
INVARIANTS
  ExpectedExact
  EventsExact
  ProgressExact
  TreesExact
  HighRanked
  MetricExact
CHECK_DEADLOCK FALSE
