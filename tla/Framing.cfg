SPECIFICATION Spec
CONSTANTS
  Users = {u1, u2}
  Names = {name}
  NoUser = NoUser
  BufferPieces = 4
  MaxRequests = 5
  MaxPushes = 1
INVARIANTS
  NothingLost
CHECK_DEADLOCK FALSE
