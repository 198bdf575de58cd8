SPECIFICATION FairSpec
CONSTANTS
  Threads = {t1, t2}
  NoThread = NoThread
  MaxMsgs = 2
  TooLong = {1}
  NoConns = 3
  Throws = 0
  LostReplies = 0
PROPERTIES
  InsertReturns
CHECK_DEADLOCK FALSE
