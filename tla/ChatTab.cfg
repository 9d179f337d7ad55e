SPECIFICATION FairTabSpec
CONSTANTS
  s1 = s1
  s2 = s2
  c1 = c1
  c2 = c2
  c3 = c3
  Sessions = {s1, s2}
  Chats = {c1, c2}
  NoSession = NoSession
  NoChat = NoChat
  MaxRestarts = 1
CHECK_DEADLOCK FALSE
INVARIANTS
  InFlightInv
PROPERTIES
  UnloadsWhenQuiet
  ReapsOnlyForgotten
  ClosingEnds
  LeavesNothingBehind
  UnnamedSessionsEnd
