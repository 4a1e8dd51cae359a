SPECIFICATION Spec
CONSTANTS
  N = 2
  Batch = 2
  CHECK_SZ = 1
  Programs <- NoCalls
PROPERTIES
  TeardownCompletes
CHECK_DEADLOCK FALSE
