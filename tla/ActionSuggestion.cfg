SPECIFICATION FairSpec
CONSTANTS
  a1 = a1
  a2 = a2
  r1 = r1
  r2 = r2
  r3 = r3
  r4 = r4
  app1 = app1
  app2 = app2
  h1 = h1
  ActionIDs = {a1, a2}
  LegacyIDs = {}
  Targets = {app1, app2}
  Histories = {h1}
  Times = {1}
  NoRow = NoRow
  NoHistory = NoHistory
  NoRequest = NoRequest
  Requests = {r1, r2, r3}
  Calls <- SuggestionCalls
  MaxCrashes = 1
  MaxFaults = 1
CHECK_DEADLOCK FALSE
INVARIANTS
  OneSuggestionPerHistory
  AssistantNeverActsAlone
PROPERTIES
  EveryRequestAnswered
