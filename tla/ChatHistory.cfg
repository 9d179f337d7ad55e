SPECIFICATION FairSpec
CONSTANTS
  r1 = r1
  r2 = r2
  c1 = c1
  Requests = {r1, r2}
  Chats = {c1}
  NoChat = NoChat
  NoMessage = NoMessage
  NoEntry = NoEntry
  NoCapture = NoCapture
  MaxFaults = 1
  MaxCrashes = 1
CHECK_DEADLOCK FALSE
INVARIANTS
  ReferencesInv
  WorkIsRecorded
  AnswersAreLinked
PROPERTIES
  FinalForever
  ExecutionEnds
