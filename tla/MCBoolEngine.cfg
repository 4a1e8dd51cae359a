SPECIFICATION Spec
CONSTANTS
  Programs <- SmallPrograms
  Modes = {"stream", "prepaid", "background"}
  N = 2
  Batch = 3
  PerRound = 2
  CHECK_SZ = 2
  F2K_SZ = 2
  POLY_SZ = 2
  RAM_SZ = 1
  OPE = 2
  LIMB = 1
INVARIANTS
  StreamsAligned
  CutsAgree
  ChallengesBind
  AllChecked
PROPERTIES
  ProofCompletes
CHECK_DEADLOCK FALSE
