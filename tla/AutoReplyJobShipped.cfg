SPECIFICATION FairSpec
CONSTANTS
  Msgs <- MCTwoMsgs
  AllowCommit = {FALSE}
  CronEnabled = FALSE
  Limit = 2
  MaxCrash = 0
  MaxRequeue = 1
PROPERTY
  JobReplies
CHECK_DEADLOCK FALSE
