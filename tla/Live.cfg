SPECIFICATION FairSpec
CONSTANTS
  n1 = n1
  n2 = n2
  c1 = c1
  c2 = c2
  NoConn = NoConn
  NoUser = NoUser
  Always = Always
  Nodes <- OneNode
  Conns <- OneConn
  NodeOf <- AloneOnN1
  Users = {1, 2}
  Groups = {1}
  FriendRows <- OneFriendship
  GroupRows = {}
  Accounts <- AllAccounts
  Requests = {"oneChat", "createGroup", "joinGroup", "groupChat"}
  MaxMsgs = 1
  MaxTasks = 1
  Budget <- LiveBudget
INVARIANTS
  TypeOK
  NoMisdelivery
PROPERTIES
  SubscribeTakesEffect
  ReachesLocalMember
  HandlersReturn
  BrokenIsForgotten
CHECK_DEADLOCK FALSE
