CONSTANTS
  FirstSize = 1
  Capacities <- MCCapacities
  MaxSymbols = 3
  MaxRules = 3
  Options <- MCOptions
  Rules <- MCRules
  Reports <- MCReports
  MaxSets = 2
SPECIFICATION MCSpec
INVARIANTS IdsKnown DamageNeedsBacklog ProgressWhole
PROPERTIES FrozenOncePrecomputed
CHECK_DEADLOCK FALSE
