SPECIFICATION Spec
CONSTANTS
  N = 2
  Batch = 2
  CHECK_SZ = 2
  Programs <- ShortPrograms
INVARIANTS
  StreamsAligned
  MasksFresh
  AllChecked
  DriftBounded
PROPERTIES
  ProofCompletes
CHECK_DEADLOCK FALSE
