SPECIFICATION FairSpec
CONSTANTS
  Users = {u1, u2}
  Names = {name}
  NoUser = NoUser
  BufferPieces = 4
  MaxRequests = 5
  MaxPushes = 1
INVARIANTS
  TypeOK
  AnswerMeetsWait
  HandledInOrder
  MenuUserHasEntry
  EntryExplained
  ShownToOwner
PROPERTIES
  WaitEnds
  QuitForgets
CHECK_DEADLOCK FALSE
