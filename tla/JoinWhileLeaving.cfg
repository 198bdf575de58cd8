SPECIFICATION Spec
CONSTANTS
  n1 = n1
  n2 = n2
  c1 = c1
  c2 = c2
  NoConn = NoConn
  NoUser = NoUser
  Always = Always
  Nodes <- OneNode
  Conns <- TwoConns
  NodeOf <- BothOnN1
  Users = {1, 2}
  Groups = {1}
  FriendRows = {}
  GroupRows = {}
  Accounts <- AllAccounts
  Requests = {"joinGroup"}
  MaxMsgs = 0
  MaxTasks = 2
  Budget <- Calm
INVARIANTS
  MemberIsSubscribed
