SPECIFICATION MCSpec
CONSTANTS
  N = 3
  Backends = {"repository", "reactorlab"}
  Limit <- TwoBackends
  GlobalLimit = 1
  MaxPieces = 3
  MaxReads = 3
  NoSource = NoSource
  Plans <- AllPlans
CHECK_DEADLOCK FALSE
INVARIANTS
  SlotsInv
PROPERTIES
  NoReadAfterCancel
  ReadsSpec
  ExecuteReturns
  KeepsExchange
