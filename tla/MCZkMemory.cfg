SPECIFICATION Spec
CONSTANTS
  Ts = {1, 2}
  n = 2
  MaxIndex = 2
  Val = {0, 1}
  Kinds = {"ram", "rom"}
  MaxAccesses = 2
INVARIANTS
  ReadsLatest
  HonestAccepted
