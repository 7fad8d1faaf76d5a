CONSTANTS
  FirstSize = 2
  Capacities <- MCCapacities
  MaxSymbols = 2
  MaxRules = 2
  Options <- OrderOptions
  Rules <- MCRules
  WrapperOptions <- OneWrapperOption
  TokenValues = {1}
  TokenLengths = {1}
  EventSets = {}
  MaxEarleme = 1
SPECIFICATION RecSpec
INVARIANTS EventsSorted
CHECK_DEADLOCK FALSE
