SPECIFICATION Spec
CONSTANTS
  N = 3
  Batch = 2
  MaxDraw = 9
INVARIANTS
  SlotExclusive
  SleeperHasWaker
PROPERTIES
  CloseCompletes
  ImplementsStream
