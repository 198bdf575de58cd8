SPECIFICATION FairSpec
CONSTANTS
  Threads = {t1, t2}
  Connections = {k1, k2, k3}
  Calls = {"both", "success", "never"}
  TornReads = TRUE
  NoConn = NoConn
  NoCall = NoCall
INVARIANTS
  TypeOK
  Exclusive
  UndefinedNeedsLeaks
PROPERTIES
  BorrowedComesBack
CHECK_DEADLOCK FALSE
