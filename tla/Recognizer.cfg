CONSTANTS
  FirstSize = 2
  Capacities <- MCCapacities
  MaxSymbols = 2
  MaxRules = 1
  Options <- MCOptions
  Rules <- MCRules
  WrapperOptions <- MCWrapperOptions
  TokenValues = {0, 1}
  TokenLengths = {0, 1, 2}
  EventSets <- MCEventSets
  MaxEarleme = 2
SPECIFICATION RecSpec
INVARIANTS PendingAhead DeliveredOnce
PROPERTIES NoTokenLost FailureIsAtomic
CHECK_DEADLOCK FALSE
