CONSTANTS
  Parses <- MCParses
  Index <- MCIndex
  NULL = NULL
  GARBAGE = GARBAGE
SPECIFICATION Spec
INVARIANTS FreesOnlyOutputs
