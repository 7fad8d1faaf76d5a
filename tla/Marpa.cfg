SPECIFICATION MCSpec
CONSTANTS
  IntBits = 5
  MaxSymbols = 4
  RuleMenu <- MCRuleMenu
  SequenceMenu <- MCSequenceMenu
  StartChoices = {1, 3}
  OptionSymbols = {2}
  MaxCalls = 4
  MaxOptions = 1
  Ranks = {3, 4}
  Grammars <- MCGrammars
  Bocages <- MCBocages
  MaxPaused = 1
INVARIANTS
  MarpaGrammarTypeOK
  CensusExact
  LanguagePreserved
  LoopsAreCycles
  RuleTreeSound
  CensusRight
  NooksSound
  TreesOnceEach
PROPERTIES
  RefusedLeavesGrammar
  CallReturns
CHECK_DEADLOCK FALSE
