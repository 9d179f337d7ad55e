SPECIFICATION Spec
CONSTANTS
  N = 2
  Levels = {"low", "balance", "full"}
  Low = "low"
  Tunings <- MixedTunings
  NoLease = NoLease
  Callers = {"service", "operator"}
  Service = "service"
  Operator = "operator"
  Requests = {r1, r2}
  Free = Free
  MaxFaults = 0
  MaxCrashes = 0
  MaxOperatorCalls = 1
SYMMETRY RequestSymmetry
CHECK_DEADLOCK FALSE
INVARIANTS
  RestoredAfterInference
