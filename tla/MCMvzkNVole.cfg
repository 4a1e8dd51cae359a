SPECIFICATION Spec
CONSTANTS
  n = 4
  peer_par <- Mixed
  Extends = 1
INVARIANTS
  PairsGoOn
  SecretsFilled
