SPECIFICATION Spec
CONSTANTS
  PR = 3
  N = 2
  B = 3
  C = 2
  np_sz = 18
  First <- SmallFirst
  Later <- SmallLater
  Inputs <- SmallInputs
  MaxCalls = 3
INVARIANTS
  WrongByBuckets
  MasksFresh
  ConversionsExact
  HonestPasses
