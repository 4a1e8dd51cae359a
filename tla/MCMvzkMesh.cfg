SPECIFICATION Spec
CONSTANTS
  n = 3
  q = 3
  Cap = 1
  Pieces <- Lengths
  Coins = {1, 2}
  Dealt <- Ones
  MaxCrashes = 1
  Cases <- Inputs
INVARIANTS
  NoStall
  SameExchange
  CommittedFirst
  VerdictExact
  NobodyCut
