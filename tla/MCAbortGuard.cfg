SPECIFICATION Spec
CONSTANTS
  P = 3
  MaxCrashes = 1
INVARIANTS
  VerdictKnown
  BlameIsTrue
PROPERTIES
  AbortReachesAll
  FinishTogether
