SPECIFICATION FairSpec
CONSTANTS
  Threads = {t1, t2}
  NoThread = NoThread
  MaxMsgs = 3
  TooLong = {}
  NoConns = 4
  Throws = 1
  LostReplies = 1
INVARIANTS
  TypeOK
  ReturnedIsKept
  DoubledOnlyByLostReplies
  OrderKept
PROPERTIES
  ImplementsMessageStore
  InsertReturns
CHECK_DEADLOCK FALSE
