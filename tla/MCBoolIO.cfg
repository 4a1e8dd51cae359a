SPECIFICATION Spec
CONSTANTS
  STAGE = 3
  MaxCalls = 6
INVARIANTS
  StreamsOrdered
  SeedsAgree
