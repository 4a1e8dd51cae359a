SPECIFICATION Spec
CONSTANTS
  Ts = {3}
  n = 1
  MaxIndex = 0
  Val = {0, 1}
  Kinds = {"ram"}
  MaxAccesses = 3
INVARIANTS
  MemoryIsPlain
