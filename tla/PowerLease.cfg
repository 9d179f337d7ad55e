SPECIFICATION FairSpec
CONSTANTS
  N = 2
  Levels = {"low", "balance", "full"}
  Low = "low"
  Tunings <- MixedTunings
  NoLease = NoLease
  Callers = {"service", "operator"}
  Service = "service"
  Operator = "operator"
  Requests = {r1, r2}
  Free = Free
  MaxFaults = 1
  MaxCrashes = 1
  MaxOperatorCalls = 1
CHECK_DEADLOCK FALSE
INVARIANTS
  OriginalsKept
  InferenceAtLowPower
  OpenMeansRestored
PROPERTIES
  EveryRequestAnswered
  NoSilentLease
