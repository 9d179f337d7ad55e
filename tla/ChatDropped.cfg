SPECIFICATION Spec
CONSTANTS
  s1 = s1
  s2 = s2
  c1 = c1
  c2 = c2
  c3 = c3
  Sessions = {s1, s2}
  Chats = {c1, c2, c3}
  NoSession = NoSession
  MaxRestarts = 1
SYMMETRY SessionSymmetry
CHECK_DEADLOCK FALSE
PROPERTIES
  NoRunningChatDropped
