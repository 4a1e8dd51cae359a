SPECIFICATION Spec
CONSTANTS
  n = 2
  k = 2
  CompressParam = 2
  MultGateBufSz = 2
  PreAuthSharingNum = 4
  Usable = 5
  Calls <- Kinds
  MaxCalls = 5
CONSTRAINT
  Longest
INVARIANTS
  ReadyIsRight
  PendingAlive
  NobodyStuck
  HonestAccepted
  EachProductOnce
  MasksFresh
  BufferSuffices
