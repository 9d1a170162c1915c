SPECIFICATION FairSpec
CONSTANTS
  Msgs <- MCTwoMsgs
  AllowCommit = {TRUE, FALSE}
  CronEnabled = TRUE
  Limit = 2
  MaxCrash = 2
  MaxRequeue = 2
INVARIANTS
  TypeOK
  AtMostOneReply
  OneMissedPerError
PROPERTIES
  ImplementsReplyOnce
  FlagIsTaken
CHECK_DEADLOCK FALSE
