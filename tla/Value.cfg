CONSTANTS
  Parses <- MCParses
  Index <- MCIndex
  NULL = NULL
  GARBAGE = GARBAGE
SPECIFICATION FairSpec
INVARIANTS AllReleased ResultsAreTreeValues SuccessIsComplete
PROPERTIES VbReturns
