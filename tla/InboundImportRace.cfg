SPECIFICATION Spec
CONSTANTS
  c1 = c1
  LastMsg = 2
  Incoming = {1, 2}
  Chats = {c1}
  ChatOf <- MCOneChat
  Requests = {r1}
  Imports = {i1}
  None = None
  MaxTries = 2
  MaxUser = 0
INVARIANT
  SuccessMeansHandled
CHECK_DEADLOCK FALSE
