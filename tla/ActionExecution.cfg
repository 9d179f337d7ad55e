SPECIFICATION Spec
CONSTANTS
  a1 = a1
  a2 = a2
  r1 = r1
  r2 = r2
  r3 = r3
  r4 = r4
  app1 = app1
  app2 = app2
  h1 = h1
  ActionIDs = {a1}
  LegacyIDs = {a1}
  Targets = {app1}
  Histories = {h1}
  Times = {1, 2}
  NoRow = NoRow
  NoHistory = NoHistory
  NoRequest = NoRequest
  Requests = {r1, r2, r3, r4}
  Calls <- RestartCalls
  MaxCrashes = 1
  MaxFaults = 1
SYMMETRY RequestSymmetry
CHECK_DEADLOCK FALSE
INVARIANTS
  AuditTrailIntact
  AtMostOneRestart
  OutcomeIsTrue
  ExecutionAnswersTrue
  OnlyWarranted
PROPERTIES
  LifecycleSpec
