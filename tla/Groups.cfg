SPECIFICATION Spec
CONSTANTS
  n1 = n1
  n2 = n2
  c1 = c1
  c2 = c2
  NoConn = NoConn
  NoUser = NoUser
  Always = Always
  Nodes <- TwoNodes
  Conns <- TwoConns
  NodeOf <- OneOnEach
  Users = {1, 2}
  Groups = {1}
  FriendRows = {}
  GroupRows <- OneMember
  Accounts <- OwnAccount
  Requests = {"addFriend", "joinGroup", "groupChat"}
  MaxMsgs = 2
  MaxTasks = 1
  Budget <- GroupBudget
INVARIANTS
  GroupOrder
CHECK_DEADLOCK FALSE
