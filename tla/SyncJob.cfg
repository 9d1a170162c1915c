SPECIFICATION FairSpec
CONSTANTS
  s = s
  None = None
  Sessions = {s}
  MaxUser = 1
  MaxRemote = 1
  Jobs = {1, 2}
  SessionOf <- MCSessionOf
  WantsContacts <- MCWantsContacts
  WantsMessages <- MCWantsMessages
  ChatsPerRun <- MCChatsPerRun
  ChatCount <- MCChatCount
  MaxEdits = 2
  MaxFaults = 1
INVARIANTS
  TypeOK
  Resumable
PROPERTIES
  CancelHolds
  StatusConverges
  JobsEnd
CHECK_DEADLOCK FALSE
