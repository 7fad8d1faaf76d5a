CONSTANTS
  FirstSize = 2
  Capacities <- MCCapacities
  MaxSymbols = 3
  MaxRules = 1
  Options <- MCOptions
  Rules <- MCRules
  WrapperOptions <- MCWrapperOptions
  TokenValues = {0, 1}
  TokenLengths = {1, 2}
  EventSets = {}
  MaxEarleme = 2
  SymbolHints <- MCSymbolHints
  Matches = {1, 3}
  ReaderOptions <- MCReaderOptions
SPECIFICATION ReaderSpec
INVARIANTS ExpectedArraysSound LongestPushed
PROPERTIES OnlyBadTokensRefused
CHECK_DEADLOCK FALSE
