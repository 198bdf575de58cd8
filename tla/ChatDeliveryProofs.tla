--------------------------- MODULE ChatDeliveryProofs ---------------------------
(***************************************************************************)
(* Type correctness of ChatService and that no message is written to the   *)
(* connection of another user.  The invariant is DeliveryInv: SessionInv,  *)
(* the types, and what the position of a handler says about its locals (a  *)
(* handler on its way to a send has a message and, in oneChat, a peer).    *)
(***************************************************************************)
EXTENDS ChatServiceProofs, FiniteSetTheorems

WithPeer == {"route", "store", "drain", "own", "queue"}
WithMsg == WithPeer \cup {"lookup", "load", "fill", "publish"}

RequestInv ==
  /\ req \in [Conns -> Req]
  /\ \A c \in Conns : pc[c] \in WithMsg => req[c].msg \in Msgs
  /\ \A c \in Conns : pc[c] \in WithPeer => req[c].peer \in Users

GroupType ==
  /\ groupEntries \in [Nodes -> SUBSET GroupIds]
  /\ groupMembers \in [Nodes -> [GroupIds -> SUBSET Users]]
  /\ deliverTo \in [Nodes -> SUBSET Users]

TableType ==
  /\ failedQueue \in [Nodes -> Seq(Item)] /\ offlineMessage \in Seq(Row)
  /\ allGroup \subseteq Groups /\ groupUser \subseteq Groups \X Users
  /\ friendTable \subseteq Users \X Users

HistoryType ==
  /\ nextMsg \in 1..(MaxMsgs + 1) /\ published \in Seq(Msgs)
  /\ sent \in [Conns -> Seq(Copy)]
  /\ acked \subseteq Msgs /\ forgotten \subseteq Msgs

BudgetType == budget \in [Events -> Nat \cup {Always}]
FriendListType == friendList \in [Conns -> SUBSET Users]
KeyType == presence \in [Users -> Hash] /\ friendsCache \in [Users -> SUBSET Users]

\* While the inbox callback runs, the message it delivers is at the head.
ChannelInv ==
  /\ subTasks \in [Nodes -> Seq(Task)] /\ batch \in [Nodes -> Seq(Task)]
  /\ subGroupSet \in [Nodes -> SUBSET GroupIds]
  /\ subAt \in [Nodes -> {"consume", "deliver", "swap", "run", "dead"}]
  /\ channel \in [Nodes -> Seq([msg: Msgs, group: GroupIds])]
  /\ \A n \in Nodes : subAt[n] = "deliver" => channel[n] # <<>>

DeliveryInv ==
  /\ SessionInv /\ RequestInv /\ GroupType /\ TableType /\ HistoryType
  /\ BudgetType /\ FriendListType /\ KeyType /\ ChannelInv

\* The invariant contains the types of all variables.
LEMMA DeliveryInvTypes == DeliveryInv => TypeOK
BY DEF DeliveryInv, SessionInv, SessionType, RequestInv, GroupType, TableType, HistoryType,
       BudgetType, FriendListType, KeyType, ChannelInv, TypeOK

\* Head and tail of a queue that is not empty.
LEMMA HeadTailType ==
  ASSUME NEW S, NEW q \in Seq(S), q # <<>>
  PROVE  Head(q) \in S /\ Tail(q) \in Seq(S)
OBVIOUS

\* Every connection is on a node.
LEMMA NodeType == \A c \in Conns : Node(c) \in Nodes
BY ConnAssumption DEF Node

-----------------------------------------------------------------------------
(* The locals of a handler.                                                *)

\* The locals a handler starts with.
LEMMA ReqFacts ==
  /\ NoReq \in Req
  /\ \A g \in GroupIds : [NoReq EXCEPT !.group = g] \in Req
  /\ \A g \in GroupIds, m \in Msgs :
       LET r == [NoReq EXCEPT !.group = g, !.msg = m] IN r \in Req /\ r.msg = m
  /\ \A u \in Users, m \in Msgs :
       LET r == [NoReq EXCEPT !.peer = u, !.msg = m] IN r \in Req /\ r.msg = m /\ r.peer = u
<1>1. 0 \in 0..MaxMsgs /\ Msgs \subseteq 0..MaxMsgs /\ NoId \in GroupIds
  BY BoundAssumption DEF Msgs, GroupIds
<1> QED  BY <1>1 DEF NoReq, Req

\* Assigning to one of the locals of a handler.
LEMMA ReqUpdates ==
  ASSUME NEW r \in Req
  PROVE  /\ \A g \in GroupIds : [r EXCEPT !.group = g] \in Req
         /\ \A S \in SUBSET GroupIds : [r EXCEPT !.groups = S] \in Req
         /\ \A g \in GroupIds : [r EXCEPT !.group = g, !.groups = @ \ {g}] \in Req
         /\ \A S \in SUBSET Users : /\ [r EXCEPT !.users = S] \in Req
                                    /\ [r EXCEPT !.users = S].msg = r.msg
BY DEF Req

\* A handler of c comes to label l with locals r.
Goes(c, l, r) ==
  /\ pc' = [pc EXCEPT ![c] = l] /\ req' = [req EXCEPT ![c] = r]
  /\ l \in WithMsg => r.msg \in Msgs
  /\ l \in WithPeer => r.peer \in Users

\* A handler that comes to a label with the locals the label needs.
LEMMA GoesKeepsRequestInv ==
  ASSUME RequestInv, SessionType, NEW c \in Conns, NEW l \in Labels, NEW r \in Req, Goes(c, l, r)
  PROVE  RequestInv'
<1>1. req' \in [Conns -> Req]
  BY DEF Goes, RequestInv
<1>2. \A d \in Conns : pc'[d] = IF d = c THEN l ELSE pc[d]
  BY DEF Goes, SessionType
<1>3. \A d \in Conns : req'[d] = IF d = c THEN r ELSE req[d]
  BY DEF Goes, RequestInv
<1> QED  BY <1>1, <1>2, <1>3 DEF RequestInv, Goes

\* A step that leaves the locals of c alone and comes to a label that needs no
\* more of them than the one it leaves.
LEMMA JumpKeepsRequestInv ==
  ASSUME RequestInv, SessionType, NEW c \in Conns, NEW l \in Labels,
         pc' = [pc EXCEPT ![c] = l], UNCHANGED req,
         l \in WithMsg => pc[c] \in WithMsg, l \in WithPeer => pc[c] \in WithPeer
  PROVE  RequestInv'
<1>1. \A d \in Conns : pc'[d] = IF d = c THEN l ELSE pc[d]
  BY DEF SessionType
<1> QED  BY <1>1 DEF RequestInv

\* A handler that returns needs nothing.
LEMMA ReturnKeepsRequestInv ==
  ASSUME RequestInv, SessionType, NEW c \in Conns, Return(c)
  PROVE  RequestInv'
<1>1. Goes(c, "idle", NoReq)
  BY DEF Return, Goes, WithMsg, WithPeer
<1> QED  BY <1>1, ReqFacts, Phases, GoesKeepsRequestInv

\* The steps of login, logout and quit take no message along.
LEMMA QuietJumpKeepsRequestInv ==
  ASSUME RequestInv, SessionType, NEW c \in Conns, NEW l \in Labels \ WithMsg, Jump(c, l)
  PROVE  RequestInv'
BY JumpKeepsRequestInv DEF Jump, WithMsg, WithPeer

\* The steps of login and logout carry neither message nor peer.
LEMMA LoginKeepsRequestInv ==
  ASSUME RequestInv, SessionType, GroupType, TableType, NEW c \in Conns, LoginStep(c) \/ LogoutStep(c)
  PROVE  RequestInv'
<1> USE Phases
<1>1. {"idle", "insert", "on_node", "on_conn", "on_expire", "friends", "query_friends", "cache_friends",
       "groups", "entry", "entry_sub", "ack", "on_online", "off_online", "off_conn", "off_node", "leave"}
        \subseteq Labels \ WithMsg
  BY DEF Labels, BeforeInsert, AfterInsert, AfterErase, OnlineSteps, OfflineSteps, WithMsg, WithPeer
<1>2. req[c] \in Req
  BY DEF RequestInv
<1>3. ASSUME NEW r \in Req, NEW l \in Labels \ WithMsg, JumpWith(c, l, r) PROVE RequestInv'
  BY <1>3, GoesKeepsRequestInv DEF JumpWith, Goes, WithMsg, WithPeer
<1>4. CASE CheckOnline(c)
  BY <1>1, <1>4, ReturnKeepsRequestInv, QuietJumpKeepsRequestInv DEF CheckOnline
<1>5. CASE InsertConn(c) \/ EraseConn(c) \/ LoginGroupSubscribe(c) \/ CacheFriends(c) \/ FriendsCached(c)
  BY <1>1, <1>5, QuietJumpKeepsRequestInv
     DEF InsertConn, EraseConn, LoginGroupSubscribe, CacheFriends, FriendsCached
<1>6. CASE setUserOnline(c) \/ setUserOffline(c)
  BY <1>1, <1>6, QuietJumpKeepsRequestInv DEF setUserOnline, setUserOffline
<1>7. CASE QueryFriends(c)
  <2>1. friendQuery(uid[c]) \in SUBSET Users
    BY DEF friendQuery
  <2>2. [req[c] EXCEPT !.users = friendQuery(uid[c])] \in Req
    BY <1>2, <2>1, ReqUpdates
  <2> QED  BY <1>1, <1>3, <1>7, <2>2, QuietJumpKeepsRequestInv DEF QueryFriends
<1>8. CASE QueryGroups(c)
  <2>1. queryGroups(uid[c]) \in SUBSET GroupIds
    BY DEF queryGroups, GroupIds
  <2>2. [req[c] EXCEPT !.groups = queryGroups(uid[c])] \in Req
    BY <1>2, <2>1, ReqUpdates
  <2> QED  BY <1>1, <1>3, <1>8, <2>2, QuietJumpKeepsRequestInv DEF QueryGroups
<1>9. CASE LoginGroupEntry(c)
  <2>1. ASSUME NEW g \in req[c].groups PROVE [req[c] EXCEPT !.group = g, !.groups = @ \ {g}] \in Req
    <3>1. g \in GroupIds
      BY <1>2 DEF Req
    <3> QED  BY <1>2, <3>1, ReqUpdates
  <2> QED  BY <1>1, <1>3, <1>9, <2>1, QuietJumpKeepsRequestInv DEF LoginGroupEntry
<1>10. CASE LoginAck(c) \/ LeaveGroups(c)
  BY <1>10, ReturnKeepsRequestInv DEF LoginAck, LeaveGroups
<1> QED  BY <1>4, <1>5, <1>6, <1>7, <1>8, <1>9, <1>10 DEF LoginStep, LogoutStep

\* The steps of chat and group handlers hand the message and the peer on.
LEMMA ChattingKeepsRequestInv ==
  ASSUME RequestInv, SessionType, GroupType, TableType, NEW c \in Conns, GroupStep(c) \/ ChatStep(c)
  PROVE  RequestInv'
<1>1. {"create", "join", "member", "subscribe"} \subseteq Labels \ WithMsg /\ WithMsg \subseteq Labels
  BY DEF Labels, Chatting, WithMsg, WithPeer
<1>2. req[c] \in Req
  BY DEF RequestInv
<1>3. CASE createGroupRow(c)
  <2>1. ASSUME NEW g \in Groups, JumpWith(c, "join", [req[c] EXCEPT !.group = g]) PROVE RequestInv'
    <3>1. [req[c] EXCEPT !.group = g] \in Req
      BY <1>2, ReqUpdates DEF GroupIds
    <3>2. Goes(c, "join", [req[c] EXCEPT !.group = g])
      BY <2>1 DEF JumpWith, Goes, WithMsg, WithPeer
    <3> QED  BY <1>1, <3>1, <3>2, GoesKeepsRequestInv
  <2> QED  BY <1>1, <1>3, <2>1, QuietJumpKeepsRequestInv DEF createGroupRow
<1>4. CASE joinGroupRow(c) \/ AddLocalMember(c)
  BY <1>1, <1>4, QuietJumpKeepsRequestInv DEF joinGroupRow, AddLocalMember
<1>5. CASE SubscribeGroup(c) \/ PublishGroup(c) \/ QueueChat(c)
  BY <1>5, ReturnKeepsRequestInv DEF SubscribeGroup, PublishGroup, QueueChat, Answer
<1>6. CASE LookupGroup(c) \/ FillGroup(c)
  <2>1. PICK l \in {"publish", "load"} : Jump(c, l) /\ pc[c] \in WithMsg
    BY <1>6 DEF LookupGroup, FillGroup, At, WithMsg
  <2>2. l \in Labels /\ l \notin WithPeer
    BY DEF Labels, Chatting, WithPeer
  <2> QED  BY <2>1, <2>2, JumpKeepsRequestInv DEF Jump
<1>7. CASE LoadGroup(c)
  <2> DEFINE S == queryGroupUsers(uid[c], req[c].group)
  <2>1. S \in SUBSET Users /\ pc[c] = "load" /\ "fill" \in Labels
    BY <1>7 DEF queryGroupUsers, LoadGroup, At, Labels, Chatting
  <2>2. req[c].msg \in Msgs
    BY <2>1 DEF RequestInv, WithMsg
  <2>3. [req[c] EXCEPT !.users = S] \in Req /\ [req[c] EXCEPT !.users = S].msg = req[c].msg
    BY <1>2, <2>1, ReqUpdates
  <2>4. CASE JumpWith(c, "fill", [req[c] EXCEPT !.users = S])
    <3>1. Goes(c, "fill", [req[c] EXCEPT !.users = S])
      BY <2>2, <2>3, <2>4 DEF JumpWith, Goes, WithPeer
    <3> QED  BY <2>1, <2>3, <3>1, GoesKeepsRequestInv
  <2>5. CASE Jump(c, "fill")
    BY <2>1, <2>5, JumpKeepsRequestInv DEF Jump, WithMsg, WithPeer
  <2> QED  BY <1>7, <2>4, <2>5 DEF LoadGroup
<1>8. CASE RouteChat(c)
  <2>1. pc[c] = "route" /\ "store" \in Labels
    BY <1>8 DEF RouteChat, At, Labels, Chatting
  <2>2. CASE Jump(c, "store")
    BY <2>1, <2>2, JumpKeepsRequestInv DEF Jump, WithMsg, WithPeer
  <2> QED  BY <1>8, <2>2, ReturnKeepsRequestInv DEF RouteChat
<1>9. ASSUME NEW l \in WithPeer, pc[c] \in WithPeer, Jump(c, l) PROVE RequestInv'
  BY <1>1, <1>9, JumpKeepsRequestInv DEF Jump, WithMsg
<1>10. CASE StoreChat(c) \/ DrainQueue(c)
  <2>1. pc[c] \in WithPeer /\ (UNCHANGED threadVars \/ \E l \in WithPeer : Jump(c, l))
    BY <1>10 DEF StoreChat, DrainQueue, InsertThrows, At, WithPeer
  <2>2. CASE UNCHANGED threadVars
    BY <2>2 DEF threadVars, RequestInv
  <2> QED  BY <1>9, <2>1, <2>2
<1>11. CASE InsertOwn(c)
  <2>1. pc[c] \in WithPeer /\ "store" \in WithPeer /\ (Return(c) \/ Jump(c, "store"))
    BY <1>11 DEF InsertOwn, InsertThrows, Answer, At, WithPeer
  <2> QED  BY <1>9, <2>1, ReturnKeepsRequestInv
<1> QED  BY <1>3, <1>4, <1>5, <1>6, <1>7, <1>8, <1>10, <1>11 DEF GroupStep, ChatStep

\* A request of the client starts with the locals its handler needs.
LEMMA RequestKeepsRequestInv ==
  ASSUME RequestInv, SessionType, HistoryType, NEW c \in Conns, Request(c)
  PROVE  RequestInv'
<1>1. {"check", "erase", "create", "join"} \subseteq Labels \ WithMsg /\ WithMsg \subseteq Labels
  BY DEF Labels, BeforeInsert, Chatting, WithMsg, WithPeer
<1>2. ASSUME NEW u, NEW l \in Labels \ WithMsg, NEW r \in Req, Start(c, l, u, r) PROVE RequestInv'
  BY <1>2, GoesKeepsRequestInv DEF Start, Goes, WithMsg, WithPeer
<1>3. nextMsg <= MaxMsgs => nextMsg \in Msgs
  BY BoundAssumption DEF HistoryType, Msgs
<1>4. ASSUME NEW u \in Users, Login(c, u) PROVE RequestInv'
  BY <1>1, <1>2, <1>4, ReqFacts DEF Login
<1>5. CASE Logout(c) \/ CreateGroup(c)
  BY <1>1, <1>2, <1>5, ReqFacts DEF Logout, CreateGroup
<1>6. ASSUME NEW g \in Groups, JoinGroup(c, g) PROVE RequestInv'
  <2>1. [NoReq EXCEPT !.group = g] \in Req
    BY ReqFacts DEF GroupIds
  <2> QED  BY <1>1, <1>2, <1>6, <2>1 DEF JoinGroup
<1>7. ASSUME NEW g \in Groups, GroupChat(c, g) PROVE RequestInv'
  <2> DEFINE r == [NoReq EXCEPT !.group = g, !.msg = nextMsg]
  <2>1. nextMsg \in Msgs /\ "lookup" \in Labels
    BY <1>3, <1>7 DEF GroupChat, Labels, Chatting
  <2>2. r \in Req /\ r.msg = nextMsg
    BY <2>1, ReqFacts DEF GroupIds
  <2> HIDE DEF r
  <2>3. Goes(c, "lookup", r)
    BY <1>7, <2>1, <2>2 DEF GroupChat, Start, Goes, WithPeer, r
  <2> QED  BY <2>1, <2>2, <2>3, GoesKeepsRequestInv
<1>8. ASSUME NEW v \in Users, OneChat(c, v) PROVE RequestInv'
  <2> DEFINE r == [NoReq EXCEPT !.peer = v, !.msg = nextMsg]
  <2>1. nextMsg \in Msgs /\ "route" \in Labels
    BY <1>3, <1>8 DEF OneChat, Labels, Chatting
  <2>2. r \in Req /\ r.msg = nextMsg /\ r.peer = v
    BY <2>1, ReqFacts
  <2> HIDE DEF r
  <2>3. CASE Start(c, "route", session[c], r)
    <3>1. Goes(c, "route", r)
      BY <2>1, <2>2, <2>3 DEF Start, Goes
    <3> QED  BY <2>1, <2>2, <3>1, GoesKeepsRequestInv
  <2>4. CASE UNCHANGED threadVars
    BY <2>4 DEF threadVars, RequestInv
  <2> QED  BY <1>8, <2>3, <2>4 DEF OneChat, r
<1>9. ASSUME NEW v \in Users, AddFriend(c, v) PROVE RequestInv'
  BY <1>9 DEF AddFriend, threadVars, RequestInv
<1> QED  BY <1>4, <1>5, <1>6, <1>7, <1>8, <1>9 DEF Request

\* Every step keeps the invariant of the locals.
LEMMA RequestInvNext ==
  ASSUME DeliveryInv, Next
  PROVE  RequestInv'
<1>1. RequestInv /\ SessionType /\ GroupType /\ TableType /\ HistoryType
  BY DEF DeliveryInv, SessionInv
<1>2. ASSUME UNCHANGED threadVars PROVE RequestInv'
  BY <1>1, <1>2 DEF RequestInv, threadVars
<1>3. ASSUME NEW c \in Conns, Connect(c) \/ ClientClose(c) PROVE RequestInv'
  BY <1>2, <1>3 DEF Connect, ClientClose
<1>4. ASSUME NEW c \in Conns, clientQuitEcption(c) PROVE RequestInv'
  <2>1. ASSUME NEW u \in Users, Start(c, "off_online", u, NoReq) PROVE RequestInv'
    <3>1. Goes(c, "off_online", NoReq) /\ "off_online" \in Labels
      BY <2>1 DEF Start, Goes, WithMsg, WithPeer, Labels, AfterErase, OfflineSteps
    <3> QED  BY <1>1, <3>1, ReqFacts, GoesKeepsRequestInv
  <2> QED  BY <1>2, <1>4, <2>1 DEF clientQuitEcption
<1>5. ASSUME NEW n \in Nodes, Deliver(n) \/ SubscriberLoop(n) PROVE RequestInv'
  BY <1>2, <1>5 DEF Deliver, Dispatch, DeliverToMember, DispatchDone, SubscriberLoop
<1>6. ASSUME NEW u \in Users, PresenceExpires(u) \/ FriendsExpire(u) PROVE RequestInv'
  BY <1>2, <1>6 DEF PresenceExpires, FriendsExpire
<1>7. ASSUME NEW n \in Nodes, Crash(n) PROVE RequestInv'
  <2> DEFINE gone == {c \in Conns : Node(c) = n}
  <2>1. pc' = Override(pc, gone, "idle") /\ req' = Override(req, gone, NoReq)
    BY <1>7 DEF Crash
  <2> HIDE DEF gone
  <2>2. \A c \in Conns : pc'[c] = IF c \in gone THEN "idle" ELSE pc[c]
    BY <1>1, <2>1 DEF Override, SessionType
  <2>4. \A c \in Conns : req'[c] = IF c \in gone THEN NoReq ELSE req[c]
    BY <1>1, <2>1 DEF Override, RequestInv
  <2>3. req' \in [Conns -> Req]
    BY <1>1, <2>1, ReqFacts DEF Override, RequestInv
  <2> QED  BY <1>1, <2>2, <2>3, <2>4 DEF RequestInv, WithMsg, WithPeer
<1> QED  BY <1>1, <1>3, <1>4, <1>5, <1>6, <1>7, LoginKeepsRequestInv, ChattingKeepsRequestInv,
            RequestKeepsRequestInv DEF Next, Environment, HandlerStep

-----------------------------------------------------------------------------
(* The sets, the tables and the history.                                   *)

\* The actions that touch any of them.
HandlerWrites(c) ==
  \/ LoginGroupEntry(c) \/ LeaveGroups(c) \/ createGroupRow(c) \/ joinGroupRow(c)
  \/ AddLocalMember(c) \/ FillGroup(c) \/ PublishGroup(c)
  \/ RouteChat(c) \/ DrainQueue(c) \/ InsertOwn(c) \/ QueueChat(c)
RequestWrites(c) ==
  \/ \E v \in Users : OneChat(c, v) \/ AddFriend(c, v)
  \/ \E g \in Groups : GroupChat(c, g)
Writers ==
  \/ \E c \in Conns : HandlerWrites(c) \/ RequestWrites(c)
  \/ \E n \in Nodes : Dispatch(n) \/ DeliverToMember(n) \/ Crash(n)

\* Every step that is not one of the writers leaves groups, tables and history alone.
LEMMA WritersOrQuiet ==
  ASSUME Next
  PROVE  UNCHANGED quietVars \/ Writers
<1>1. ASSUME NEW c \in Conns, Connect(c) \/ ClientClose(c) \/ clientQuitEcption(c) PROVE UNCHANGED quietVars
  BY <1>1 DEF Connect, ClientClose, clientQuitEcption
<1>2. ASSUME NEW c \in Conns, LoginStep(c) PROVE UNCHANGED quietVars \/ Writers
  BY <1>2 DEF LoginStep, CheckOnline, InsertConn, setUserOnline, FriendsCached, QueryFriends,
              CacheFriends, QueryGroups, LoginGroupSubscribe, LoginAck, Writers, HandlerWrites
<1>3. ASSUME NEW c \in Conns, LogoutStep(c) \/ GroupStep(c) \/ ChatStep(c) PROVE UNCHANGED quietVars \/ Writers
  BY <1>3 DEF LogoutStep, GroupStep, ChatStep, EraseConn, setUserOffline, SubscribeGroup,
              LookupGroup, LoadGroup, StoreChat, Writers, HandlerWrites
<1>4. ASSUME NEW c \in Conns, Request(c) PROVE UNCHANGED quietVars \/ Writers
  <2>1. ASSUME NEW u \in Users, Login(c, u) PROVE UNCHANGED quietVars
    BY <2>1 DEF Login
  <2>2. CASE Logout(c) \/ CreateGroup(c)
    BY <2>2 DEF Logout, CreateGroup
  <2>3. ASSUME NEW g \in Groups, JoinGroup(c, g) PROVE UNCHANGED quietVars
    BY <2>3 DEF JoinGroup
  <2>4. ASSUME NEW v \in Users, OneChat(c, v) \/ AddFriend(c, v) PROVE Writers
    <3>1. RequestWrites(c)
      BY <2>4 DEF RequestWrites
    <3> QED  BY <3>1 DEF Writers
  <2>5. ASSUME NEW g \in Groups, GroupChat(c, g) PROVE Writers
    <3>1. RequestWrites(c)
      BY <2>5 DEF RequestWrites
    <3> QED  BY <3>1 DEF Writers
  <2> QED  BY <1>4, <2>1, <2>2, <2>3, <2>4, <2>5 DEF Request
<1>5. ASSUME NEW n \in Nodes, Deliver(n) \/ SubscriberLoop(n) PROVE UNCHANGED quietVars \/ Writers
  BY <1>5 DEF Deliver, DispatchDone, SubscriberLoop, Writers
<1>6. ASSUME Environment PROVE UNCHANGED quietVars \/ Writers
  BY <1>6 DEF Environment, PresenceExpires, FriendsExpire, Writers
<1> QED  BY <1>1, <1>2, <1>3, <1>4, <1>5, <1>6 DEF Next, HandlerStep

\* Every step keeps the types of the group sets of a node.
LEMMA GroupTypeNext ==
  ASSUME DeliveryInv, Next
  PROVE  GroupType'
<1>0. /\ GroupType /\ ChannelInv /\ \A c \in Conns : Node(c) \in Nodes
      /\ \A c \in Conns : req[c].group \in GroupIds /\ req[c].groups \subseteq GroupIds /\ req[c].users \subseteq Users
      /\ \A c \in Conns : pc[c] # "idle" => uid[c] \in Users
  <2>1. \A c \in Conns : req[c] \in Req
    BY DEF DeliveryInv, RequestInv
  <2> QED  BY <2>1, NodeType DEF DeliveryInv, SessionInv, HandlerHasUser, Req
<1>1. ASSUME UNCHANGED <<groupVars, deliverTo>> PROVE GroupType'
  BY <1>0, <1>1 DEF GroupType, groupVars
<1>2. ASSUME NEW c \in Conns, LoginGroupEntry(c) PROVE GroupType'
  <2>1. UNCHANGED <<groupMembers, deliverTo>>
    BY <1>2 DEF LoginGroupEntry
  <2>2. \/ \E g \in req[c].groups : groupEntries' = [groupEntries EXCEPT ![Node(c)] = @ \cup {g}]
        \/ UNCHANGED groupEntries
    BY <1>2 DEF LoginGroupEntry
  <2>3. groupEntries' \in [Nodes -> SUBSET GroupIds]
    BY <1>0, <2>2 DEF GroupType
  <2> QED  BY <1>0, <2>1, <2>3 DEF GroupType
<1>3. ASSUME NEW c \in Conns, LeaveGroups(c) PROVE GroupType'
  BY <1>0, <1>3 DEF LeaveGroups, GroupType
<1>4. ASSUME NEW c \in Conns, AddLocalMember(c) PROVE GroupType'
  <2>1. /\ groupEntries' = [groupEntries EXCEPT ![Node(c)] = @ \cup {req[c].group}]
        /\ groupMembers' = [groupMembers EXCEPT ![Node(c)][req[c].group] = @ \cup {uid[c]}]
        /\ UNCHANGED deliverTo /\ uid[c] \in Users
    BY <1>0, <1>4 DEF AddLocalMember, At
  <2> QED  BY <1>0, <2>1 DEF GroupType
<1>5. ASSUME NEW c \in Conns, FillGroup(c) PROVE GroupType'
  <2>1. /\ groupEntries' \in {groupEntries, [groupEntries EXCEPT ![Node(c)] = @ \cup {req[c].group}]}
        /\ groupMembers' = [groupMembers EXCEPT ![Node(c)][req[c].group] = @ \cup req[c].users]
        /\ UNCHANGED deliverTo
    BY <1>0, <1>5 DEF FillGroup, GroupType
  <2> QED  BY <1>0, <2>1 DEF GroupType
<1>6. ASSUME NEW n \in Nodes, Dispatch(n) PROVE GroupType'
  <2>0. /\ channel[n] # <<>> /\ UNCHANGED groupVars
        /\ deliverTo' = [deliverTo EXCEPT ![n] =
             IF Head(channel[n]).group \in groupEntries[n] THEN groupMembers[n][Head(channel[n]).group] ELSE {}]
    BY <1>6 DEF Dispatch
  <2>1. Head(channel[n]).group \in GroupIds
    <3>1. Head(channel[n]) \in [msg: Msgs, group: GroupIds]
      BY <1>0, <2>0, HeadTailType DEF ChannelInv
    <3> QED  BY <3>1
  <2>2. deliverTo' \in [Nodes -> SUBSET Users]
    BY <1>0, <2>0, <2>1 DEF GroupType
  <2> QED  BY <1>0, <2>0, <2>2 DEF GroupType, groupVars
<1>7. ASSUME NEW n \in Nodes, DeliverToMember(n) PROVE GroupType'
  <2>1. UNCHANGED groupVars
    BY <1>7 DEF DeliverToMember
  <2>2. PICK u : deliverTo' = [deliverTo EXCEPT ![n] = @ \ {u}]
    BY <1>7 DEF DeliverToMember
  <2> QED  BY <1>0, <2>1, <2>2 DEF GroupType, groupVars
<1>8. ASSUME NEW n \in Nodes, Crash(n) PROVE GroupType'
  BY <1>0, <1>8 DEF Crash, GroupType
<1>9. ASSUME NEW c \in Conns,
             \/ createGroupRow(c) \/ joinGroupRow(c) \/ PublishGroup(c) \/ RouteChat(c)
             \/ DrainQueue(c) \/ InsertOwn(c) \/ QueueChat(c)
      PROVE  GroupType'
  BY <1>1, <1>9 DEF createGroupRow, joinGroupRow, PublishGroup, RouteChat, DrainQueue, InsertOwn, QueueChat
<1>10. ASSUME NEW c \in Conns, NEW v, OneChat(c, v) \/ AddFriend(c, v) \/ GroupChat(c, v) PROVE GroupType'
  BY <1>1, <1>10 DEF OneChat, AddFriend, GroupChat
<1>11. CASE UNCHANGED quietVars
  BY <1>1, <1>11 DEF quietVars
<1> QED  BY <1>2, <1>3, <1>4, <1>5, <1>6, <1>7, <1>8, <1>9, <1>10, <1>11, WritersOrQuiet
         DEF Writers, HandlerWrites, RequestWrites

\* Every step keeps the types of the tables and of failedQueue_.
LEMMA TableTypeNext ==
  ASSUME DeliveryInv, Next
  PROVE  TableType'
<1>0. /\ TableType /\ \A c \in Conns : Node(c) \in Nodes
      /\ \A c \in Conns : pc[c] # "idle" => uid[c] \in Users
      /\ \A c \in Conns : pc[c] \in WithPeer => ItemOf(c) \in Item
      /\ \A c \in Conns : session[c] # NoUser => session[c] \in Users
  BY NodeType DEF DeliveryInv, SessionInv, SessionType, HandlerHasUser, RequestInv, WithMsg, ItemOf, Item
<1>1. ASSUME UNCHANGED <<failedQueue, dbVars>> PROVE TableType'
  BY <1>0, <1>1 DEF TableType, dbVars
<1>2. ASSUME NEW c \in Conns, createGroupRow(c) PROVE TableType'
  <2>1. /\ allGroup' \subseteq Groups
        /\ UNCHANGED <<failedQueue, groupUser, friendTable, offlineMessage>>
    BY <1>0, <1>2 DEF createGroupRow, TableType
  <2> QED  BY <1>0, <2>1 DEF TableType
<1>3. ASSUME NEW c \in Conns, joinGroupRow(c) PROVE TableType'
  <2>1. /\ uid[c] \in Users
        /\ groupUser' \in {groupUser, groupUser \cup ({req[c].group} \cap allGroup) \X {uid[c]}}
        /\ UNCHANGED <<failedQueue, allGroup, friendTable, offlineMessage>>
    BY <1>0, <1>3 DEF joinGroupRow, At
  <2>2. groupUser' \subseteq Groups \X Users
    BY <1>0, <2>1 DEF TableType
  <2> QED  BY <1>0, <2>1, <2>2 DEF TableType
<1>4. ASSUME NEW c \in Conns, DrainQueue(c) \/ InsertOwn(c) \/ QueueChat(c) PROVE TableType'
  <2>1. UNCHANGED <<allGroup, groupUser, friendTable>> /\ Node(c) \in Nodes
    BY <1>0, <1>4 DEF DrainQueue, InsertOwn, QueueChat, dbVars
  <2>2. failedQueue \in [Nodes -> Seq(Item)] /\ failedQueue[Node(c)] \in Seq(Item) /\ offlineMessage \in Seq(Row)
    BY <1>0, <2>1 DEF TableType
  <2>3. ASSUME NEW x \in Item, NEW b \in BOOLEAN, InsertRow(x, b) PROVE offlineMessage' \in Seq(Row)
    <3> DEFINE new == [user |-> x.user, msg |-> x.msg, answered |-> b]
    <3>1. new \in Row /\ offlineMessage' = Append(offlineMessage, new)
      BY <2>3 DEF InsertRow, Item, Row
    <3> HIDE DEF new
    <3> QED  BY <2>2, <3>1
  <2>4. ASSUME NEW x \in Item, InsertThrows(c, x) PROVE offlineMessage' \in Seq(Row)
    BY <2>2, <2>3, <2>4 DEF InsertThrows
  <2>5. CASE DrainQueue(c)
    <3>1. failedQueue[Node(c)] # <<>> => Head(failedQueue[Node(c)]) \in Item /\ Tail(failedQueue[Node(c)]) \in Seq(Item)
      BY <2>2, HeadTailType
    <3>2. offlineMessage' \in Seq(Row)
      BY <2>2, <2>3, <2>4, <2>5, <3>1 DEF DrainQueue
    <3>3. /\ failedQueue[Node(c)] # <<>> /\ failedQueue' = [failedQueue EXCEPT ![Node(c)] = Tail(failedQueue[Node(c)])]
          \/ UNCHANGED failedQueue
      BY <2>5 DEF DrainQueue
    <3>4. failedQueue' \in [Nodes -> Seq(Item)]
      BY <2>1, <2>2, <3>1, <3>3
    <3> QED  BY <1>0, <2>1, <3>2, <3>4 DEF TableType
  <2>6. CASE InsertOwn(c)
    <3>1. ItemOf(c) \in Item
      BY <1>0, <2>6 DEF InsertOwn, At, WithPeer
    <3>2. offlineMessage' \in Seq(Row) /\ UNCHANGED failedQueue
      BY <2>3, <2>4, <2>6, <3>1 DEF InsertOwn
    <3> QED  BY <1>0, <2>1, <3>2 DEF TableType
  <2>7. CASE QueueChat(c)
    <3>1. ItemOf(c) \in Item
      BY <1>0, <2>7 DEF QueueChat, At, WithPeer
    <3>2. failedQueue' = [failedQueue EXCEPT ![Node(c)] = Append(failedQueue[Node(c)], ItemOf(c))]
          /\ UNCHANGED offlineMessage
      BY <2>7 DEF QueueChat, dbVars
    <3>3. Append(failedQueue[Node(c)], ItemOf(c)) \in Seq(Item)
      BY <2>2, <3>1
    <3>4. failedQueue' \in [Nodes -> Seq(Item)]
      BY <2>1, <2>2, <3>2, <3>3
    <3> QED  BY <1>0, <2>1, <3>2, <3>4 DEF TableType
  <2> QED  BY <1>4, <2>5, <2>6, <2>7
<1>5. ASSUME NEW c \in Conns, NEW v \in Users, AddFriend(c, v) PROVE TableType'
  <2>1. session[c] \in Users /\ UNCHANGED <<failedQueue, allGroup, groupUser, offlineMessage>>
    BY <1>0, <1>5 DEF AddFriend, LoggedIn
  <2>2. friendTable' \in {friendTable \cup {<<session[c], v>>}, friendTable \cup {<<v, session[c]>>}}
    BY <1>5 DEF AddFriend, friendRow
  <2>3. friendTable' \subseteq Users \X Users
    BY <1>0, <2>1, <2>2 DEF TableType
  <2> QED  BY <1>0, <2>1, <2>3 DEF TableType
<1>6. ASSUME NEW n \in Nodes, Crash(n) PROVE TableType'
  <2>1. failedQueue' = [failedQueue EXCEPT ![n] = <<>>] /\ UNCHANGED dbVars
    BY <1>6 DEF Crash
  <2>2. failedQueue' \in [Nodes -> Seq(Item)]
    BY <1>0, <2>1 DEF TableType
  <2> QED  BY <1>0, <2>1, <2>2 DEF TableType, dbVars
<1>7. ASSUME NEW c \in Conns, \/ LoginGroupEntry(c) \/ LeaveGroups(c) \/ AddLocalMember(c)
                              \/ FillGroup(c) \/ PublishGroup(c) \/ RouteChat(c)
      PROVE  TableType'
  BY <1>1, <1>7 DEF LoginGroupEntry, LeaveGroups, AddLocalMember, FillGroup, PublishGroup, RouteChat
<1>8. ASSUME NEW c \in Conns, NEW v, OneChat(c, v) \/ GroupChat(c, v) PROVE TableType'
  BY <1>1, <1>8 DEF OneChat, GroupChat
<1>9. ASSUME NEW n \in Nodes, Dispatch(n) \/ DeliverToMember(n) PROVE TableType'
  BY <1>1, <1>9 DEF Dispatch, DeliverToMember
<1>10. CASE UNCHANGED quietVars
  BY <1>1, <1>10 DEF quietVars
<1> QED  BY <1>2, <1>3, <1>4, <1>5, <1>6, <1>7, <1>8, <1>9, <1>10, WritersOrQuiet
         DEF Writers, HandlerWrites, RequestWrites

\* conn->send() on the connection stored for user v writes a copy for v, under
\* the session of v or under none.
LEMMA SendFacts ==
  ASSUME DeliveryInv, NEW n \in Nodes, NEW v \in Users, NEW m \in Msgs,
         userConnMap[n][v] # NoConn, Send(userConnMap[n][v], m, v)
  PROVE  /\ sent' \in [Conns -> Seq(Copy)]
         /\ NoMisdelivery => NoMisdelivery'
<1> DEFINE d == userConnMap[n][v]
           new == [msg |-> m, for |-> v, as |-> session[d]]
<1>1. d \in Conns /\ session[d] \in {v, NoUser} /\ sent \in [Conns -> Seq(Copy)]
  BY DEF DeliveryInv, SessionInv, SessionType, EntryIsBacked, Backs, HistoryType
<1>2. new \in Copy /\ new.as \in {new.for, NoUser}
  BY <1>1 DEF Copy
<1>3. sent' = [sent EXCEPT ![d] = Append(sent[d], new)]
  BY <1>1 DEF Send
<1> HIDE DEF d, new
<1>4. sent[d] \in Seq(Copy) /\ Append(sent[d], new) \in Seq(Copy)
  BY <1>1, <1>2
<1>5. sent' \in [Conns -> Seq(Copy)]
  BY <1>1, <1>3, <1>4
<1>6. ASSUME NoMisdelivery, NEW c \in Conns, NEW i \in DOMAIN sent'[c]
      PROVE  sent'[c][i].as \in {sent'[c][i].for, NoUser}
  <2>1. CASE c # d
    BY <1>1, <1>3, <1>6, <2>1 DEF NoMisdelivery
  <2>2. CASE c = d
    <3>1. sent'[d] = Append(sent[d], new) /\ i \in 1..(Len(sent[d]) + 1) /\ Len(sent[d]) \in Nat
      BY <1>1, <1>3, <1>4, <1>6, <2>2
    <3>2. CASE i = Len(sent[d]) + 1
      BY <1>2, <1>4, <2>2, <3>1, <3>2
    <3>3. CASE i \in 1..Len(sent[d])
      BY <1>1, <1>4, <1>6, <2>2, <3>1, <3>3 DEF NoMisdelivery
    <3> QED  BY <3>1, <3>2, <3>3
  <2> QED  BY <2>1, <2>2
<1> QED  BY <1>5, <1>6 DEF NoMisdelivery

\* Every step keeps the types of the history and writes only to the right user.
LEMMA HistoryTypeNext ==
  ASSUME DeliveryInv, Next
  PROVE  HistoryType' /\ (NoMisdelivery => NoMisdelivery')
<1>0. /\ HistoryType /\ \A c \in Conns : Node(c) \in Nodes
      /\ \A c \in Conns : pc[c] \in WithMsg => req[c].msg \in Msgs
      /\ \A c \in Conns : pc[c] \in WithPeer => req[c].peer \in Users
      /\ \A c \in Conns : session[c] # NoUser => session[c] \in Users
  BY NodeType DEF DeliveryInv, SessionInv, SessionType, RequestInv
<1>1. ASSUME UNCHANGED histVars PROVE HistoryType' /\ (NoMisdelivery => NoMisdelivery')
  BY <1>0, <1>1 DEF HistoryType, histVars, NoMisdelivery
<1>2. ASSUME UNCHANGED sent PROVE NoMisdelivery => NoMisdelivery'
  BY <1>2 DEF NoMisdelivery
<1>3. nextMsg <= MaxMsgs => nextMsg + 1 \in 1..(MaxMsgs + 1)
  BY <1>0, BoundAssumption DEF HistoryType
<1>4. ASSUME NEW c \in Conns, NEW g \in Groups, GroupChat(c, g)
      PROVE  HistoryType' /\ (NoMisdelivery => NoMisdelivery')
  <2>1. nextMsg' \in 1..(MaxMsgs + 1) /\ UNCHANGED <<published, sent, acked, forgotten>>
    BY <1>3, <1>4 DEF GroupChat
  <2> QED  BY <1>0, <1>2, <2>1 DEF HistoryType
<1>5. ASSUME NEW c \in Conns, NEW v \in Users, OneChat(c, v)
      PROVE  HistoryType' /\ (NoMisdelivery => NoMisdelivery')
  <2>1. nextMsg' \in 1..(MaxMsgs + 1) /\ UNCHANGED <<published, sent, acked, forgotten>>
    BY <1>3, <1>5 DEF OneChat
  <2> QED  BY <1>0, <1>2, <2>1 DEF HistoryType
<1>6. ASSUME NEW c \in Conns, PublishGroup(c)
      PROVE  HistoryType' /\ (NoMisdelivery => NoMisdelivery')
  <2>1. /\ published' \in {published, Append(published, req[c].msg)} /\ req[c].msg \in Msgs
        /\ UNCHANGED <<nextMsg, sent, acked, forgotten>>
    BY <1>0, <1>6 DEF PublishGroup, At, WithMsg
  <2>2. published' \in Seq(Msgs)
    <3>1. published \in Seq(Msgs)
      BY <1>0 DEF HistoryType
    <3>2. Append(published, req[c].msg) \in Seq(Msgs)
      BY <2>1, <3>1
    <3> QED  BY <2>1, <3>1, <3>2
  <2> QED  BY <1>0, <1>2, <2>1, <2>2 DEF HistoryType
<1>7. ASSUME NEW c \in Conns, InsertOwn(c) \/ QueueChat(c)
      PROVE  HistoryType' /\ (NoMisdelivery => NoMisdelivery')
  <2>1. /\ acked' \in {acked, acked \cup {req[c].msg}} /\ req[c].msg \in Msgs
        /\ UNCHANGED <<nextMsg, published, sent, forgotten>>
    BY <1>0, <1>7 DEF InsertOwn, QueueChat, Answer, At, WithMsg, WithPeer
  <2> QED  BY <1>0, <1>2, <2>1 DEF HistoryType
<1>8. ASSUME NEW c \in Conns, RouteChat(c)
      PROVE  HistoryType' /\ (NoMisdelivery => NoMisdelivery')
  <2> DEFINE d == userConnMap[Node(c)][req[c].peer]
  <2>1. /\ req[c].msg \in Msgs /\ req[c].peer \in Users /\ Node(c) \in Nodes
        /\ UNCHANGED <<nextMsg, published, forgotten>>
        /\ acked' \in {acked, acked \cup {req[c].msg}}
        /\ \/ d # NoConn /\ Send(d, req[c].msg, req[c].peer)
           \/ UNCHANGED sent
    BY <1>0, <1>8 DEF RouteChat, At, WithMsg, WithPeer
  <2>2. sent' \in [Conns -> Seq(Copy)] /\ (NoMisdelivery => NoMisdelivery')
    BY <1>0, <1>2, <2>1, SendFacts DEF HistoryType
  <2> QED  BY <1>0, <2>1, <2>2 DEF HistoryType
<1>9. ASSUME NEW n \in Nodes, DeliverToMember(n)
      PROVE  HistoryType' /\ (NoMisdelivery => NoMisdelivery')
  <2>1. PICK u \in deliverTo[n] :
          /\ subAt[n] = "deliver"
          /\ IF userConnMap[n][u] # NoConn THEN Send(userConnMap[n][u], Head(channel[n]).msg, u) ELSE UNCHANGED sent
          /\ UNCHANGED <<nextMsg, published, acked, forgotten>>
    BY <1>9 DEF DeliverToMember
  <2>2. u \in Users /\ channel[n] \in Seq([msg: Msgs, group: GroupIds]) /\ channel[n] # <<>>
    BY <2>1 DEF DeliveryInv, GroupType, ChannelInv
  <2>3. Head(channel[n]) \in [msg: Msgs, group: GroupIds]
    BY <2>2, HeadTailType
  <2>4. Head(channel[n]).msg \in Msgs
    BY <2>3
  <2>5. sent' \in [Conns -> Seq(Copy)] /\ (NoMisdelivery => NoMisdelivery')
    BY <1>0, <1>2, <2>1, <2>2, <2>4, SendFacts DEF HistoryType
  <2> QED  BY <1>0, <2>1, <2>5 DEF HistoryType
<1>10. ASSUME NEW c \in Conns, \/ LoginGroupEntry(c) \/ LeaveGroups(c) \/ AddLocalMember(c)
                               \/ FillGroup(c) \/ createGroupRow(c) \/ joinGroupRow(c) \/ DrainQueue(c)
       PROVE  UNCHANGED histVars
  BY <1>10 DEF LoginGroupEntry, LeaveGroups, AddLocalMember, FillGroup, createGroupRow, joinGroupRow, DrainQueue
<1>11. ASSUME NEW c \in Conns, NEW v \in Users, AddFriend(c, v) PROVE UNCHANGED histVars
  BY <1>11 DEF AddFriend
<1>12. ASSUME NEW n \in Nodes, Dispatch(n) PROVE UNCHANGED histVars
  BY <1>12 DEF Dispatch
<1>14. ASSUME NEW n \in Nodes, Crash(n) PROVE HistoryType' /\ (NoMisdelivery => NoMisdelivery')
  <2>1. failedQueue[n] \in Seq(Item)
    BY DEF DeliveryInv, TableType
  <2>2. \A i \in DOMAIN failedQueue[n] : failedQueue[n][i] \in Item
    BY <2>1
  <2>3. forgotten' = forgotten \cup {failedQueue[n][i].msg : i \in DOMAIN failedQueue[n]}
        /\ UNCHANGED <<nextMsg, published, sent, acked>>
    BY <1>14 DEF Crash
  <2>4. {failedQueue[n][i].msg : i \in DOMAIN failedQueue[n]} \subseteq Msgs
    BY <2>2 DEF Item
  <2> QED  BY <1>0, <1>2, <2>3, <2>4 DEF HistoryType
<1>13. CASE UNCHANGED quietVars
  BY <1>1, <1>13 DEF quietVars
<1> QED  BY <1>1, <1>4, <1>5, <1>6, <1>7, <1>8, <1>9, <1>10, <1>11, <1>12, <1>13, <1>14, WritersOrQuiet
         DEF Writers, HandlerWrites, RequestWrites

-----------------------------------------------------------------------------
(* The bounds, and what the clients show.                                  *)

\* Spending keeps a budget typed.
LEMMA SpendType ==
  ASSUME BudgetType, NEW k \in Events, Spend(k)
  PROVE  BudgetType'
<1>1. CASE UNCHANGED budget
  BY <1>1 DEF BudgetType
<1>2. CASE budget[k] \in Nat \ {0} /\ budget' = [budget EXCEPT ![k] = @ - 1]
  <2>1. budget[k] - 1 \in Nat
    BY <1>2
  <2> QED  BY <1>2, <2>1 DEF BudgetType
<1> QED  BY <1>1, <1>2 DEF Spend

Spends == UNCHANGED budget \/ \E k \in Events : Spend(k)

\* Whatever happens, a budget is left alone or spent.
LEMMA NextSpends ==
  ASSUME Next
  PROVE  Spends
<1> USE DEF Spends, NoFault, Fault, Events
<1>1. ASSUME NEW c \in Conns, Connect(c) \/ ClientClose(c) \/ clientQuitEcption(c) PROVE Spends
  BY <1>1 DEF Connect, ClientClose, clientQuitEcption
<1>2. ASSUME NEW c \in Conns, CheckOnline(c) \/ InsertConn(c) \/ setUserOnline(c) \/ FriendsCached(c)
                              \/ QueryFriends(c) PROVE Spends
  BY <1>2 DEF CheckOnline, InsertConn, setUserOnline, FriendsCached, QueryFriends
<1>3. ASSUME NEW c \in Conns, \/ CacheFriends(c) \/ QueryGroups(c) \/ LoginGroupEntry(c)
                              \/ LoginGroupSubscribe(c) \/ LoginAck(c) PROVE Spends
  BY <1>3 DEF CacheFriends, QueryGroups, LoginGroupEntry, LoginGroupSubscribe, LoginAck
<1>4. ASSUME NEW c \in Conns, LogoutStep(c) \/ ChatStep(c) PROVE Spends
  BY <1>4 DEF LogoutStep, ChatStep, EraseConn, setUserOffline, LeaveGroups, RouteChat, StoreChat,
              DrainQueue, InsertThrows, InsertOwn, QueueChat
<1>5. ASSUME NEW c \in Conns, GroupStep(c) PROVE Spends
  BY <1>5 DEF GroupStep, createGroupRow, joinGroupRow, AddLocalMember, SubscribeGroup, LookupGroup,
              LoadGroup, FillGroup, PublishGroup
<1>6. ASSUME NEW c \in Conns, Request(c) PROVE Spends
  BY <1>6 DEF Request, Logout, Login, OneChat, AddFriend, CreateGroup, JoinGroup, GroupChat
<1>7. ASSUME NEW n \in Nodes, Deliver(n) \/ SubscriberLoop(n) PROVE Spends
  BY <1>7 DEF Deliver, Dispatch, DeliverToMember, DispatchDone, SubscriberLoop
<1>8. ASSUME Environment PROVE Spends
  BY <1>8 DEF Environment, PresenceExpires, FriendsExpire, Crash
<1> QED  BY <1>1, <1>2, <1>3, <1>4, <1>5, <1>6, <1>7, <1>8 DEF Next, HandlerStep, LoginStep

\* The budgets stay natural numbers or Always.
LEMMA BudgetTypeNext ==
  ASSUME BudgetType, Next
  PROVE  BudgetType'
BY NextSpends, SpendType DEF Spends, BudgetType

\* The lists of the clients name users.
LEMMA FriendListTypeNext ==
  ASSUME DeliveryInv, Next
  PROVE  FriendListType'
<1>0. FriendListType /\ \A c \in Conns : req[c] \in Req
  BY DEF DeliveryInv, RequestInv
<1> USE DEF clientVars
<1>1. ASSUME UNCHANGED friendList PROVE FriendListType'
  BY <1>0, <1>1 DEF FriendListType
<1>2. ASSUME NEW c \in Conns, Connect(c) \/ clientQuitEcption(c) PROVE UNCHANGED friendList
  BY <1>2 DEF Connect, clientQuitEcption
<1>3. ASSUME NEW c \in Conns, ClientClose(c) PROVE FriendListType'
  <2>1. friendList' = [friendList EXCEPT ![c] = {}]
    BY <1>3 DEF ClientClose
  <2> QED  BY <1>0, <2>1 DEF FriendListType
<1>4. ASSUME NEW c \in Conns, LoginAck(c) PROVE FriendListType'
  <2>1. req[c].users \in SUBSET Users
    BY <1>0 DEF Req
  <2>2. \/ friendList' = [friendList EXCEPT ![c] = req[c].users]
        \/ friendList' = [friendList EXCEPT ![c] = @]
        \/ UNCHANGED friendList
    BY <1>4 DEF LoginAck, doLoginResponse
  <2> QED  BY <1>0, <2>1, <2>2 DEF FriendListType
<1>5. ASSUME NEW n \in Nodes, Crash(n) PROVE FriendListType'
  <2> DEFINE gone == {c \in Conns : Node(c) = n}
  <2>1. friendList' = Override(friendList, gone, {})
    BY <1>5 DEF Crash
  <2> HIDE DEF gone
  <2> QED  BY <1>0, <2>1 DEF FriendListType, Override
<1>6. ASSUME NEW c \in Conns, CheckOnline(c) \/ InsertConn(c) \/ setUserOnline(c) \/ FriendsCached(c)
                              \/ QueryFriends(c) PROVE UNCHANGED friendList
  BY <1>6 DEF CheckOnline, InsertConn, setUserOnline, FriendsCached, QueryFriends
<1>7. ASSUME NEW c \in Conns, CacheFriends(c) \/ QueryGroups(c) \/ LoginGroupEntry(c)
                              \/ LoginGroupSubscribe(c) PROVE UNCHANGED friendList
  BY <1>7 DEF CacheFriends, QueryGroups, LoginGroupEntry, LoginGroupSubscribe
<1>8. ASSUME NEW c \in Conns, LogoutStep(c) \/ ChatStep(c) PROVE UNCHANGED friendList
  BY <1>8 DEF LogoutStep, ChatStep, EraseConn, setUserOffline, LeaveGroups, RouteChat, StoreChat,
              DrainQueue, InsertOwn, QueueChat
<1>9. ASSUME NEW c \in Conns, GroupStep(c) PROVE UNCHANGED friendList
  BY <1>9 DEF GroupStep, createGroupRow, joinGroupRow, AddLocalMember, SubscribeGroup, LookupGroup,
              LoadGroup, FillGroup, PublishGroup
<1>10. ASSUME NEW c \in Conns, Request(c) PROVE UNCHANGED friendList
  BY <1>10 DEF Request, Logout, Login, OneChat, AddFriend, CreateGroup, JoinGroup, GroupChat
<1>11. ASSUME NEW n \in Nodes, Deliver(n) \/ SubscriberLoop(n) PROVE UNCHANGED friendList
  BY <1>11 DEF Deliver, Dispatch, DeliverToMember, DispatchDone, SubscriberLoop
<1>12. ASSUME NEW u \in Users, PresenceExpires(u) \/ FriendsExpire(u) PROVE UNCHANGED friendList
  BY <1>12 DEF PresenceExpires, FriendsExpire
<1> QED  BY <1>1, <1>2, <1>3, <1>4, <1>5, <1>6, <1>7, <1>8, <1>9, <1>10, <1>11, <1>12
         DEF Next, HandlerStep, LoginStep, Environment

-----------------------------------------------------------------------------
(* The keys of Redis.                                                      *)

\* hset, hdel and expire keep the hashes of Redis typed.
LEMMA HashOps ==
  ASSUME NEW u \in Users, presence \in [Users -> Hash]
  PROVE  /\ \A f \in Fields : hset(u, f) => presence' \in [Users -> Hash]
         /\ \A f \in Fields : hdel(u, f) => presence' \in [Users -> Hash]
         /\ expire(u) => presence' \in [Users -> Hash]
<1>0. presence[u] \in Hash /\ NoHash \in Hash
  BY DEF NoHash, Hash
<1>1. ASSUME NEW h \in Hash, presence' = [presence EXCEPT ![u] = h] PROVE presence' \in [Users -> Hash]
  BY <1>1
<1>2. ASSUME NEW f \in Fields, hset(u, f) PROVE presence' \in [Users -> Hash]
  <2>1. [presence[u] EXCEPT !.fields = @ \cup {f}] \in Hash
    BY <1>0 DEF Hash
  <2>2. presence' = [presence EXCEPT ![u] = [presence[u] EXCEPT !.fields = @ \cup {f}]]
    BY <1>2 DEF hset
  <2> QED  BY <1>1, <2>1, <2>2
<1>3. ASSUME NEW f \in Fields, hdel(u, f) PROVE presence' \in [Users -> Hash]
  <2>1. [fields |-> presence[u].fields \ {f}, ttl |-> presence[u].ttl] \in Hash
    BY <1>0 DEF Hash
  <2>2. \/ presence' = [presence EXCEPT ![u] = NoHash]
        \/ presence' = [presence EXCEPT ![u] = [fields |-> presence[u].fields \ {f}, ttl |-> presence[u].ttl]]
    BY <1>3 DEF hdel
  <2> QED  BY <1>0, <1>1, <2>1, <2>2
<1>4. ASSUME expire(u) PROVE presence' \in [Users -> Hash]
  <2>1. PICK b \in BOOLEAN : b = (presence[u].ttl \/ presence[u].fields # {})
    OBVIOUS
  <2>2. [presence[u] EXCEPT !.ttl = b] \in Hash
    BY <1>0 DEF Hash
  <2>3. presence' = [presence EXCEPT ![u] = [presence[u] EXCEPT !.ttl = b]]
    BY <1>4, <2>1 DEF expire
  <2> QED  BY <1>1, <2>2, <2>3
<1> QED  BY <1>2, <1>3, <1>4

\* Every step keeps the keys of Redis typed.
LEMMA KeyTypeNext ==
  ASSUME DeliveryInv, Next
  PROVE  KeyType'
<1>0. /\ KeyType /\ \A c \in Conns : req[c] \in Req
      /\ \A c \in Conns : pc[c] # "idle" => uid[c] \in Users
  BY DEF DeliveryInv, RequestInv, SessionInv, HandlerHasUser
<1> USE DEF redisVars
<1>1. ASSUME UNCHANGED <<presence, friendsCache>> PROVE KeyType'
  BY <1>0, <1>1 DEF KeyType
<1>2. ASSUME NEW c \in Conns, setUserOnline(c) PROVE KeyType'
  <2>1. uid[c] \in Users /\ UNCHANGED friendsCache
    BY <1>0, <1>2 DEF setUserOnline, At, OnlineSteps
  <2>2. \/ \E f \in Fields : hset(uid[c], f)
        \/ expire(uid[c]) \/ UNCHANGED presence
    BY <1>2 DEF setUserOnline, Fields
  <2>3. presence' \in [Users -> Hash]
    BY <1>0, <2>1, <2>2, HashOps DEF KeyType
  <2> QED  BY <1>0, <2>1, <2>3 DEF KeyType
<1>3. ASSUME NEW c \in Conns, setUserOffline(c) PROVE KeyType'
  <2>1. uid[c] \in Users /\ UNCHANGED friendsCache
    BY <1>0, <1>3 DEF setUserOffline, At, OfflineSteps
  <2>2. (\E f \in Fields : hdel(uid[c], f)) \/ UNCHANGED presence
    BY <1>3 DEF setUserOffline, Fields
  <2>3. presence' \in [Users -> Hash]
    BY <1>0, <2>1, <2>2, HashOps DEF KeyType
  <2> QED  BY <1>0, <2>1, <2>3 DEF KeyType
<1>4. ASSUME NEW c \in Conns, CacheFriends(c) PROVE KeyType'
  <2>1. req[c].users \in SUBSET Users /\ UNCHANGED presence
    BY <1>0, <1>4 DEF Req, CacheFriends
  <2>2. \/ friendsCache' = [friendsCache EXCEPT ![uid[c]] = req[c].users]
        \/ UNCHANGED friendsCache
    BY <1>4 DEF CacheFriends
  <2> QED  BY <1>0, <2>1, <2>2 DEF KeyType
<1>5. ASSUME NEW u \in Users, PresenceExpires(u) \/ FriendsExpire(u) PROVE KeyType'
  <2>1. NoHash \in Hash
    BY DEF NoHash, Hash
  <2>2. \/ presence' = [presence EXCEPT ![u] = NoHash] /\ UNCHANGED friendsCache
        \/ friendsCache' = [friendsCache EXCEPT ![u] = {}] /\ UNCHANGED presence
    BY <1>5 DEF PresenceExpires, FriendsExpire
  <2> QED  BY <1>0, <2>1, <2>2 DEF KeyType
<1>6. ASSUME NEW c \in Conns, Connect(c) \/ ClientClose(c) \/ clientQuitEcption(c)
      PROVE  UNCHANGED <<presence, friendsCache>>
  BY <1>6 DEF Connect, ClientClose, clientQuitEcption
<1>7. ASSUME NEW c \in Conns, CheckOnline(c) \/ InsertConn(c) \/ FriendsCached(c)
                              \/ QueryFriends(c) \/ QueryGroups(c)
      PROVE  UNCHANGED <<presence, friendsCache>>
  BY <1>7 DEF CheckOnline, InsertConn, FriendsCached, QueryFriends, QueryGroups
<1>8. ASSUME NEW c \in Conns, \/ LoginGroupEntry(c) \/ LoginGroupSubscribe(c) \/ LoginAck(c)
                              \/ EraseConn(c) \/ LeaveGroups(c) \/ ChatStep(c)
      PROVE  UNCHANGED <<presence, friendsCache>>
  BY <1>8 DEF LoginGroupEntry, LoginGroupSubscribe, LoginAck, EraseConn, LeaveGroups, ChatStep,
              RouteChat, StoreChat, DrainQueue, InsertOwn, QueueChat
<1>9. ASSUME NEW c \in Conns, GroupStep(c) PROVE UNCHANGED <<presence, friendsCache>>
  BY <1>9 DEF GroupStep, createGroupRow, joinGroupRow, AddLocalMember, SubscribeGroup, LookupGroup,
              LoadGroup, FillGroup, PublishGroup
<1>10. ASSUME NEW c \in Conns, Request(c) PROVE UNCHANGED <<presence, friendsCache>>
  BY <1>10 DEF Request, Logout, Login, OneChat, AddFriend, CreateGroup, JoinGroup, GroupChat
<1>11. ASSUME NEW n \in Nodes, Deliver(n) \/ SubscriberLoop(n) \/ Crash(n)
       PROVE  UNCHANGED <<presence, friendsCache>>
  BY <1>11 DEF Deliver, Dispatch, DeliverToMember, DispatchDone, SubscriberLoop, Crash
<1> QED  BY <1>1, <1>2, <1>3, <1>4, <1>5, <1>6, <1>7, <1>8, <1>9, <1>10, <1>11
         DEF Next, HandlerStep, LoginStep, LogoutStep, Environment

-----------------------------------------------------------------------------
(* Pub/sub.                                                                *)

\* The records a node queues are tasks.
LEMMA TaskFacts ==
  \A g \in GroupIds : /\ [type |-> "Subscribe", group |-> g] \in Task
                      /\ [type |-> "Unsubscribe", group |-> g] \in Task
BY DEF Task

\* Appending to the queue of one node.
LEMMA QueueGrows ==
  ASSUME NEW T, NEW q, q \in [Nodes -> Seq(T)], NEW n \in Nodes, NEW s \in Seq(T)
  PROVE  [q EXCEPT ![n] = @ \o s] \in [Nodes -> Seq(T)]
<1>1. q[n] \o s \in Seq(T)
  OBVIOUS
<1> QED  BY <1>1

\* A crash empties the queue of its node.
LEMMA QueueCleared ==
  ASSUME NEW T, NEW q, q \in [Nodes -> Seq(T)], NEW n \in Nodes
  PROVE  [q EXCEPT ![n] = <<>>] \in [Nodes -> Seq(T)]
OBVIOUS

\* subscribeGroupChannel queues tasks only.
LEMMA SubscribeKeepsType ==
  ASSUME subTasks \in [Nodes -> Seq(Task)], NEW n \in Nodes, NEW g \in GroupIds,
         subscribeGroupChannel(n, g)
  PROVE  subTasks' \in [Nodes -> Seq(Task)]
<1> DEFINE t == [type |-> "Subscribe", group |-> g]
<1>1. t \in Task
  BY TaskFacts
<1>2. subTasks' \in {subTasks, [subTasks EXCEPT ![n] = Append(@, t)]}
  BY DEF subscribeGroupChannel
<1> HIDE DEF t
<1>3. Append(subTasks[n], t) \in Seq(Task)
  BY <1>1
<1> QED  BY <1>2, <1>3

\* unsubscribeGroupChannels queues tasks only.
LEMMA UnsubscribeKeepsType ==
  ASSUME ChannelInv, NEW n \in Nodes, NEW S, unsubscribeGroupChannels(n, S)
  PROVE  subTasks' \in [Nodes -> Seq(Task)]
<1>1. PICK gone \in SetToSeqs(S \cap subGroupSet[n]) :
        subTasks' = [subTasks EXCEPT ![n] = @ \o [i \in DOMAIN gone |-> [type |-> "Unsubscribe", group |-> gone[i]]]]
  BY DEF unsubscribeGroupChannels
<1>2. subGroupSet[n] \subseteq GroupIds
  BY DEF ChannelInv
<1>3. IsFiniteSet(S \cap subGroupSet[n])
  <2>1. IsFiniteSet(GroupIds)
    BY IdAssumption, FS_AddElement DEF GroupIds
  <2> QED  BY <1>2, <2>1, FS_Subset
<1>4. Cardinality(S \cap subGroupSet[n]) \in Nat
  BY <1>3, FS_CardinalityType
<1>5. gone \in [1..Cardinality(S \cap subGroupSet[n]) -> S \cap subGroupSet[n]]
  BY DEF SetToSeqs
<1>6. [i \in DOMAIN gone |-> [type |-> "Unsubscribe", group |-> gone[i]]]
        \in [1..Cardinality(S \cap subGroupSet[n]) -> Task]
  BY <1>2, <1>5, TaskFacts
<1> DEFINE tasks == [i \in DOMAIN gone |-> [type |-> "Unsubscribe", group |-> gone[i]]]
<1>7. tasks \in Seq(Task)
  <2> HIDE DEF tasks
  <2>1. ASSUME NEW k \in Nat, NEW f \in [1..k -> Task] PROVE f \in Seq(Task)
    OBVIOUS
  <2> QED  BY <1>4, <1>6, <2>1 DEF tasks
<1> HIDE DEF tasks
<1>8. subTasks \in [Nodes -> Seq(Task)]
  BY DEF ChannelInv
<1> QED  BY <1>1, <1>7, <1>8, QueueGrows DEF tasks

\* The queues and sets of pub/sub keep their types, and only the subscriber
\* thread, which is in the callback, takes from the channel.
LEMMA ChannelInvNext ==
  ASSUME DeliveryInv, Next
  PROVE  ChannelInv'
<1>0. /\ ChannelInv /\ \A c \in Conns : Node(c) \in Nodes
      /\ \A c \in Conns : req[c] \in Req
      /\ \A c \in Conns : pc[c] = "publish" => req[c].msg \in Msgs
  BY NodeType DEF DeliveryInv, RequestInv, WithMsg
<1>1. \A c \in Conns : req[c].group \in GroupIds
  BY <1>0 DEF Req
<1> USE DEF redisVars
<1>2. ASSUME UNCHANGED subVars PROVE ChannelInv'
  BY <1>0, <1>2 DEF ChannelInv, subVars
<1>3. ASSUME subTasks' \in [Nodes -> Seq(Task)], UNCHANGED <<subGroupSet, batch, subAt, channel>>
      PROVE  ChannelInv'
  BY <1>0, <1>3 DEF ChannelInv
<1>4. ASSUME NEW c \in Conns, LoginGroupSubscribe(c) \/ SubscribeGroup(c) \/ FillGroup(c) PROVE ChannelInv'
  <2>1. /\ subscribeGroupChannel(Node(c), req[c].group)
        /\ UNCHANGED <<subGroupSet, batch, subAt, channel>>
    BY <1>4 DEF LoginGroupSubscribe, SubscribeGroup, FillGroup
  <2>2. subTasks' \in [Nodes -> Seq(Task)]
    BY <1>0, <1>1, <2>1, SubscribeKeepsType DEF ChannelInv
  <2> QED  BY <1>3, <2>1, <2>2
<1>5. ASSUME NEW c \in Conns, LeaveGroups(c) PROVE ChannelInv'
  <2>1. /\ \E S : unsubscribeGroupChannels(Node(c), S)
        /\ UNCHANGED <<subGroupSet, batch, subAt, channel>>
    BY <1>5 DEF LeaveGroups
  <2>2. subTasks' \in [Nodes -> Seq(Task)]
    BY <1>0, <2>1, UnsubscribeKeepsType
  <2> QED  BY <1>3, <2>1, <2>2
<1>6. ASSUME NEW c \in Conns, PublishGroup(c) PROVE ChannelInv'
  <2> DEFINE x == [msg |-> req[c].msg, group |-> req[c].group]
             Posts == [msg: Msgs, group: GroupIds]
  <2>1. x \in Posts /\ UNCHANGED <<subTasks, subGroupSet, batch, subAt>>
    BY <1>0, <1>1, <1>6 DEF PublishGroup, At
  <2>2. \/ channel' = [n \in Nodes |-> IF req[c].group \in subGroupSet[n] /\ subAt[n] # "dead"
                                   THEN Append(channel[n], x) ELSE channel[n]]
        \/ UNCHANGED channel
    BY <1>6 DEF PublishGroup, publishGroupMessage
  <2>3. channel \in [Nodes -> Seq(Posts)]
    BY <1>0 DEF ChannelInv
  <2> HIDE DEF x, Posts
  <2>4. \A n \in Nodes : channel[n] \in Seq(Posts) /\ Append(channel[n], x) \in Seq(Posts)
                          /\ Append(channel[n], x) # <<>>
    BY <2>1, <2>3
  <2>5. channel' \in [Nodes -> Seq(Posts)]
    BY <2>2, <2>3, <2>4
  <2>6. \A n \in Nodes : channel[n] # <<>> => channel'[n] # <<>>
    BY <2>2, <2>4
  <2> QED  BY <1>0, <2>1, <2>5, <2>6 DEF ChannelInv, Posts
<1>7. ASSUME NEW n \in Nodes, Dispatch(n) PROVE ChannelInv'
  <2>1. /\ subAt' = [subAt EXCEPT ![n] = "deliver"] /\ channel[n] # <<>>
        /\ UNCHANGED <<subTasks, subGroupSet, batch, channel>>
    BY <1>7 DEF Dispatch
  <2> QED  BY <1>0, <2>1 DEF ChannelInv
<1>8. ASSUME NEW n \in Nodes, DispatchDone(n) PROVE ChannelInv'
  <2>1. /\ subAt[n] = "deliver" /\ subAt' = [subAt EXCEPT ![n] = "swap"]
        /\ channel' = [channel EXCEPT ![n] = Tail(channel[n])]
        /\ UNCHANGED <<subTasks, subGroupSet, batch>>
    BY <1>8 DEF DispatchDone
  <2>2. Tail(channel[n]) \in Seq([msg: Msgs, group: GroupIds])
    BY <1>0, <2>1, HeadTailType DEF ChannelInv
  <2> QED  BY <1>0, <2>1, <2>2 DEF ChannelInv
<1>9. ASSUME NEW n \in Nodes, SubscriberLoop(n) PROVE ChannelInv'
  <2>1. CASE ConsumeNothing(n)
    BY <1>0, <2>1 DEF ConsumeNothing, ChannelInv
  <2>2. CASE SwapTasks(n)
    <3>1. /\ batch' = [batch EXCEPT ![n] = subTasks[n]] /\ subTasks' = [subTasks EXCEPT ![n] = <<>>]
          /\ subAt' = [subAt EXCEPT ![n] = "run"] /\ UNCHANGED <<subGroupSet, channel>>
      BY <2>2 DEF SwapTasks
    <3>2. subTasks' \in [Nodes -> Seq(Task)] /\ batch' \in [Nodes -> Seq(Task)]
      BY <1>0, <3>1 DEF ChannelInv
    <3> QED  BY <1>0, <3>1, <3>2 DEF ChannelInv
  <2>3. CASE TasksDone(n)
    BY <1>0, <2>3 DEF TasksDone, ChannelInv
  <2>4. ASSUME batch' = [batch EXCEPT ![n] = Tail(batch[n])], batch[n] # <<>>
        PROVE  batch' \in [Nodes -> Seq(Task)]
    <3>1. Tail(batch[n]) \in Seq(Task)
      BY <1>0, <2>4, HeadTailType DEF ChannelInv
    <3> QED  BY <1>0, <2>4, <3>1 DEF ChannelInv
  <2>5. CASE DropTask(n)
    BY <1>0, <2>4, <2>5 DEF DropTask, ChannelInv
  <2>6. CASE RunTask(n)
    <3>1. /\ batch[n] # <<>> /\ batch' = [batch EXCEPT ![n] = Tail(batch[n])]
          /\ subGroupSet' \in {[subGroupSet EXCEPT ![n] = @ \cup {Head(batch[n]).group}],
                               [subGroupSet EXCEPT ![n] = @ \ {Head(batch[n]).group}]}
          /\ UNCHANGED <<subTasks, subAt, channel>>
      BY <1>0, <2>6 DEF RunTask, ChannelInv
    <3>2. Head(batch[n]) \in Task
      BY <1>0, <3>1, HeadTailType DEF ChannelInv
    <3>3. Head(batch[n]).group \in GroupIds
      BY <3>2 DEF Task
    <3>4. subGroupSet' \in [Nodes -> SUBSET GroupIds]
      BY <1>0, <3>1, <3>3, ZenonT(30) DEF ChannelInv
    <3> QED  BY <1>0, <2>4, <3>1, <3>4 DEF ChannelInv
  <2>7. CASE DropAll(n)
    BY <1>0, <1>3, <2>7, QueueCleared DEF DropAll, ChannelInv
  <2>8. CASE SubscriberBreaks(n)
    <3>1. /\ subAt' = [subAt EXCEPT ![n] = "dead"] /\ channel' = [channel EXCEPT ![n] = <<>>]
          /\ UNCHANGED <<subTasks, subGroupSet, batch>>
      BY <2>8 DEF SubscriberBreaks
    <3>2. channel' \in [Nodes -> Seq([msg: Msgs, group: GroupIds])]
      BY <1>0, <3>1, QueueCleared DEF ChannelInv
    <3>3. subAt' \in [Nodes -> {"consume", "deliver", "swap", "run", "dead"}]
      BY <1>0, <3>1 DEF ChannelInv
    <3>4. \A k \in Nodes : subAt'[k] = "deliver" => channel'[k] # <<>>
      BY <1>0, <3>1 DEF ChannelInv
    <3> QED  BY <1>0, <3>1, <3>2, <3>3, <3>4 DEF ChannelInv
  <2> QED  BY <1>9, <2>1, <2>2, <2>3, <2>5, <2>6, <2>7, <2>8 DEF SubscriberLoop
<1>10. ASSUME NEW n \in Nodes, Crash(n) PROVE ChannelInv'
  <2>1. /\ subTasks' = [subTasks EXCEPT ![n] = <<>>] /\ subGroupSet' = [subGroupSet EXCEPT ![n] = {}]
        /\ batch' = [batch EXCEPT ![n] = <<>>] /\ subAt' = [subAt EXCEPT ![n] = "consume"]
        /\ channel' = [channel EXCEPT ![n] = <<>>]
    BY <1>10 DEF Crash
  <2>2. subTasks' \in [Nodes -> Seq(Task)] /\ batch' \in [Nodes -> Seq(Task)]
    BY <1>0, <2>1 DEF ChannelInv
  <2>3. channel' \in [Nodes -> Seq([msg: Msgs, group: GroupIds])]
    <3>1. channel \in [Nodes -> Seq([msg: Msgs, group: GroupIds])]
      BY <1>0 DEF ChannelInv
    <3> QED  BY <2>1, <3>1, QueueCleared
  <2>4. /\ subGroupSet' \in [Nodes -> SUBSET GroupIds]
        /\ subAt' \in [Nodes -> {"consume", "deliver", "swap", "run", "dead"}]
    BY <1>0, <2>1 DEF ChannelInv
  <2>5. \A k \in Nodes : subAt'[k] = "deliver" => channel'[k] # <<>>
    BY <1>0, <2>1 DEF ChannelInv
  <2> QED  BY <2>2, <2>3, <2>4, <2>5 DEF ChannelInv
<1>11. ASSUME NEW c \in Conns, Connect(c) \/ ClientClose(c) \/ clientQuitEcption(c) PROVE UNCHANGED subVars
  BY <1>11 DEF Connect, ClientClose, clientQuitEcption
<1>12. ASSUME NEW c \in Conns, CheckOnline(c) \/ InsertConn(c) \/ setUserOnline(c) \/ FriendsCached(c)
                               \/ QueryFriends(c) \/ CacheFriends(c) PROVE UNCHANGED subVars
  BY <1>12 DEF CheckOnline, InsertConn, setUserOnline, FriendsCached, QueryFriends, CacheFriends
<1>13. ASSUME NEW c \in Conns, \/ QueryGroups(c) \/ LoginGroupEntry(c) \/ LoginAck(c)
                               \/ EraseConn(c) \/ setUserOffline(c) \/ ChatStep(c) PROVE UNCHANGED subVars
  BY <1>13 DEF QueryGroups, LoginGroupEntry, LoginAck, EraseConn, setUserOffline, ChatStep, RouteChat, StoreChat,
               DrainQueue, InsertOwn, QueueChat
<1>14. ASSUME NEW c \in Conns, createGroupRow(c) \/ joinGroupRow(c) \/ AddLocalMember(c)
                               \/ LookupGroup(c) \/ LoadGroup(c) PROVE UNCHANGED subVars
  BY <1>14 DEF createGroupRow, joinGroupRow, AddLocalMember, LookupGroup, LoadGroup
<1>15. ASSUME NEW c \in Conns, Request(c) PROVE UNCHANGED subVars
  BY <1>15 DEF Request, Logout, Login, OneChat, AddFriend, CreateGroup, JoinGroup, GroupChat
<1>16. ASSUME NEW n \in Nodes, DeliverToMember(n) PROVE UNCHANGED subVars
  BY <1>16 DEF DeliverToMember
<1>17. ASSUME NEW u \in Users, PresenceExpires(u) \/ FriendsExpire(u) PROVE UNCHANGED subVars
  BY <1>17 DEF PresenceExpires, FriendsExpire
<1> QED  BY <1>2, <1>4, <1>5, <1>6, <1>7, <1>8, <1>9, <1>10, <1>11, <1>12, <1>13, <1>14, <1>15, <1>16, <1>17
         DEF Next, HandlerStep, LoginStep, LogoutStep, GroupStep, Deliver, Environment

-----------------------------------------------------------------------------
(* The invariant and the theorems.                                         *)

\* The servers start in the invariant.
LEMMA DeliveryInvInit == Init => DeliveryInv /\ NoMisdelivery
<1> SUFFICES ASSUME Init PROVE DeliveryInv /\ NoMisdelivery
  OBVIOUS
<1>1. SessionInv
  BY SessionInvInit
<1>2. RequestInv
  <2>1. pc = [c \in Conns |-> "idle"] /\ req = [c \in Conns |-> NoReq]
    BY DEF Init
  <2> QED  BY <2>1, ReqFacts DEF RequestInv, WithMsg, WithPeer
<1>3. GroupType
  BY DEF Init, GroupType
<1>4. TableType
  <2>1. /\ allGroup = {row[1] : row \in GroupRows} /\ groupUser = GroupRows /\ friendTable = FriendRows
        /\ failedQueue = [n \in Nodes |-> <<>>] /\ offlineMessage = <<>>
    BY DEF Init
  <2>2. allGroup \subseteq Groups
    BY <2>1, DataAssumption
  <2>3. failedQueue \in [Nodes -> Seq(Item)] /\ offlineMessage \in Seq(Row)
    BY <2>1
  <2> QED  BY <2>1, <2>2, <2>3, DataAssumption DEF TableType
<1>5. HistoryType
  <2>1. /\ nextMsg = 1 /\ published = <<>> /\ acked = {} /\ forgotten = {} /\ sent = [c \in Conns |-> <<>>]
    BY DEF Init
  <2>2. nextMsg \in 1..(MaxMsgs + 1)
    BY <2>1, BoundAssumption
  <2>3. sent \in [Conns -> Seq(Copy)] /\ published \in Seq(Msgs)
    BY <2>1
  <2> QED  BY <2>1, <2>2, <2>3 DEF HistoryType
<1>6. BudgetType /\ FriendListType
  BY BoundAssumption DEF Init, BudgetType, FriendListType
<1>7. KeyType
  BY DEF Init, RedisInit, KeyType, NoHash, Hash
<1>8. ChannelInv
  <2>1. /\ subTasks = [n \in Nodes |-> <<>>] /\ batch = [n \in Nodes |-> <<>>]
        /\ subGroupSet = [n \in Nodes |-> {}] /\ subAt = [n \in Nodes |-> "consume"]
        /\ channel = [n \in Nodes |-> <<>>]
    BY DEF Init, RedisInit
  <2>2. \A T : [n \in Nodes |-> <<>>] \in [Nodes -> Seq(T)]
    OBVIOUS
  <2> QED  BY <2>1, <2>2 DEF ChannelInv
<1>9. NoMisdelivery
  BY DEF Init, NoMisdelivery
<1> QED  BY <1>1, <1>2, <1>3, <1>4, <1>5, <1>6, <1>7, <1>8, <1>9 DEF DeliveryInv

\* Every step keeps the invariant.
LEMMA DeliveryInvNext ==
  ASSUME DeliveryInv, NoMisdelivery, [Next]_vars
  PROVE  DeliveryInv' /\ NoMisdelivery'
<1>1. SessionInv'
  BY SessionInvNext DEF DeliveryInv
<1>2. CASE Next
  <2>1. BudgetType'
    BY <1>2, BudgetTypeNext DEF DeliveryInv
  <2> QED  BY <1>1, <1>2, <2>1, RequestInvNext, GroupTypeNext, TableTypeNext, HistoryTypeNext,
              FriendListTypeNext, KeyTypeNext, ChannelInvNext DEF DeliveryInv
<1>3. CASE UNCHANGED vars
  <2> USE <1>3 DEF vars, DeliveryInv
  <2>1. RequestInv'
    BY DEF RequestInv, threadVars
  <2>2. GroupType' /\ TableType'
    BY DEF GroupType, TableType, quietVars, groupVars, dbVars
  <2>3. HistoryType' /\ NoMisdelivery'
    BY DEF HistoryType, NoMisdelivery, quietVars, histVars
  <2>4. BudgetType' /\ FriendListType' /\ KeyType'
    BY DEF BudgetType, FriendListType, KeyType, clientVars, redisVars
  <2>5. ChannelInv'
    BY DEF ChannelInv, redisVars, subVars
  <2> QED  BY <1>1, <2>1, <2>2, <2>3, <2>4, <2>5
<1> QED  BY <1>2, <1>3

\* Every variable of every node, of Redis and of the database keeps its type,
\* whatever the clients, the faults and the crashes do: no handler comes to a
\* step without the local it needs there.
THEOREM TypeCorrect == Spec => []TypeOK
<1>1. DeliveryInv /\ NoMisdelivery /\ [Next]_vars => (DeliveryInv /\ NoMisdelivery)'
  BY DeliveryInvNext
<1> QED  BY <1>1, DeliveryInvInit, DeliveryInvTypes, PTL DEF Spec

\* oneChat and the inbox callback never write a message to a connection on which
\* another user than the one it is meant for is logged in, as long as requests
\* arrive whole.
THEOREM NeverMisdelivered == Spec => []NoMisdelivery
<1>1. DeliveryInv /\ NoMisdelivery /\ [Next]_vars => (DeliveryInv /\ NoMisdelivery)'
  BY DeliveryInvNext
<1> QED  BY <1>1, DeliveryInvInit, PTL DEF Spec

-----------------------------------------------------------------------------
(* Presence.  A user has a lasting hash only when setUserOnline failed     *)
(* before its EXPIRE.                                                      *)

\* What is left of the budgets.
BudgetInv ==
  /\ Budget.redis # Always => budget.redis \in Nat
  /\ Budget.crash # Always => budget.crash \in Nat /\ budget.crash <= Budget.crash

PaidInv ==
  NoCrash /\ Budget.redis # Always =>
    IsFiniteSet(Lasting) /\ Cardinality(Lasting) <= Budget.redis - budget.redis

\* A login at one of these labels is on its way to EXPIRE.
Expiring == OnlineSteps \ {"on_online"}

\* A budget spent, seen from one of its kinds.
LEMMA SpendFacts ==
  ASSUME BudgetType, Spends, NEW k \in Events
  PROVE  /\ budget[k] \in Nat => budget'[k] \in Nat /\ budget'[k] <= budget[k]
         /\ budget[k] \in Nat /\ Spend(k) => budget'[k] = budget[k] - 1
<1>1. CASE UNCHANGED budget /\ ~Spend(k)
  BY <1>1
<1>2. ASSUME NEW j \in Events, Spend(j)
      PROVE  /\ budget[k] \in Nat => budget'[k] \in Nat /\ budget'[k] <= budget[k]
             /\ budget[k] \in Nat /\ j = k => budget'[k] = budget[k] - 1
  <2>1. CASE budget[j] = Always /\ UNCHANGED budget
    BY <2>1, BoundAssumption
  <2>2. CASE budget[j] \in Nat \ {0} /\ budget' = [budget EXCEPT ![j] = @ - 1]
    BY <2>2 DEF BudgetType
  <2> QED  BY <1>2, <2>1, <2>2 DEF Spend
<1> QED  BY <1>1, <1>2 DEF Spends

\* The thread of c moves, and c is not on its way to EXPIRE.
Passes(c) ==
  /\ pc[c] \notin Expiring
  /\ \E l : pc' = [pc EXCEPT ![c] = l]
  /\ UNCHANGED uid \/ \E u : uid' = [uid EXCEPT ![c] = u]

\* A step that leaves the hashes alone and moves no login on its way to EXPIRE.
LEMMA PassesKeepsLasting ==
  ASSUME SessionType, UNCHANGED presence,
         UNCHANGED <<pc, uid>> \/ \E c \in Conns : Passes(c)
  PROVE  Lasting' \subseteq Lasting
<1>1. \A c \in Conns : pc[c] \in Expiring => pc'[c] = pc[c] /\ uid'[c] = uid[c]
  BY DEF Passes, SessionType
<1> QED  BY <1>1 DEF Lasting, Expiring

\* The steps of a login but those of setUserOnline.
LEMMA LoginPasses ==
  ASSUME NEW c \in Conns, LoginStep(c)
  PROVE  (UNCHANGED presence /\ Passes(c)) \/ setUserOnline(c)
<1> USE DEF At, Jump, JumpWith, Return, Passes, Expiring, OnlineSteps, redisVars
<1>1. CASE CheckOnline(c) \/ InsertConn(c) \/ FriendsCached(c) \/ QueryFriends(c)
  BY <1>1 DEF CheckOnline, InsertConn, FriendsCached, QueryFriends
<1>2. CASE CacheFriends(c) \/ QueryGroups(c) \/ LoginAck(c)
  BY <1>2 DEF CacheFriends, QueryGroups, LoginAck
<1>3. CASE LoginGroupEntry(c) \/ LoginGroupSubscribe(c)
  BY <1>3 DEF LoginGroupEntry, LoginGroupSubscribe
<1> QED  BY <1>1, <1>2, <1>3 DEF LoginStep

\* The steps of the other handlers but those of setUserOffline.
LEMMA OtherPasses ==
  ASSUME NEW c \in Conns, LogoutStep(c) \/ GroupStep(c) \/ ChatStep(c)
  PROVE  \/ UNCHANGED presence /\ (UNCHANGED <<pc, uid>> \/ Passes(c))
         \/ setUserOffline(c)
<1> USE DEF At, Jump, JumpWith, Return, Passes, Expiring, OnlineSteps, redisVars
<1>1. CASE EraseConn(c) \/ LeaveGroups(c) \/ createGroupRow(c) \/ joinGroupRow(c)
  BY <1>1 DEF EraseConn, LeaveGroups, createGroupRow, joinGroupRow
<1>2. CASE AddLocalMember(c) \/ SubscribeGroup(c) \/ LookupGroup(c) \/ LoadGroup(c)
  BY <1>2 DEF AddLocalMember, SubscribeGroup, LookupGroup, LoadGroup
<1>3. CASE FillGroup(c) \/ PublishGroup(c) \/ RouteChat(c) \/ StoreChat(c)
  BY <1>3 DEF FillGroup, PublishGroup, RouteChat, StoreChat
<1>4. CASE DrainQueue(c) \/ InsertOwn(c) \/ QueueChat(c)
  BY <1>4 DEF DrainQueue, InsertOwn, QueueChat, InsertThrows, Answer, threadVars
<1> QED  BY <1>1, <1>2, <1>3, <1>4 DEF LogoutStep, GroupStep, ChatStep

\* A request starts the handler of an idle connection.
LEMMA RequestPasses ==
  ASSUME NEW c \in Conns, Request(c)
  PROVE  UNCHANGED presence /\ (UNCHANGED <<pc, uid>> \/ Passes(c))
<1> USE DEF Ready, LoggedIn, Start, Passes, Expiring, OnlineSteps, redisVars, threadVars
<1>1. ASSUME NEW u, Login(c, u) \/ OneChat(c, u) \/ AddFriend(c, u)
      PROVE  UNCHANGED presence /\ (UNCHANGED <<pc, uid>> \/ Passes(c))
  BY <1>1 DEF Login, OneChat, AddFriend
<1>2. ASSUME NEW g, JoinGroup(c, g) \/ GroupChat(c, g) \/ Logout(c) \/ CreateGroup(c)
      PROVE  UNCHANGED presence /\ (UNCHANGED <<pc, uid>> \/ Passes(c))
  BY <1>2 DEF JoinGroup, GroupChat, Logout, CreateGroup
<1> QED  BY <1>1, <1>2 DEF Request

\* A command of setUserOnline that succeeds adds nobody: either EXPIRE is still to
\* come, or the hash has its TTL.  One that fails adds its user at most.
LEMMA OnlineKeepsLasting ==
  ASSUME SessionType, KeyType, NEW c \in Conns, setUserOnline(c)
  PROVE  \/ Lasting' \subseteq Lasting
         \/ Lasting' \subseteq Lasting \cup {uid[c]} /\ Spend("redis")
<1>1. /\ UNCHANGED uid /\ \E l \in OnlineSteps \cup {"friends"} : pc' = [pc EXCEPT ![c] = l]
      /\ pc[c] \in OnlineSteps
  BY DEF setUserOnline, Jump, At, OnlineSteps
<1>2. \A d \in Conns : d # c => pc'[d] = pc[d] /\ uid'[d] = uid[d]
  BY <1>1 DEF SessionType
<1>3. ASSUME NEW u \in Users, u # uid[c], presence'[u] = presence[u], u \in Lasting' PROVE u \in Lasting
  <2>1. \A d \in Conns : uid[d] = u => d # c
    BY <1>3
  <2> QED  BY <1>2, <1>3, <2>1 DEF Lasting
<1>4. ASSUME NEW f, hset(uid[c], f) \/ expire(uid[c]) \/ UNCHANGED presence,
             NEW u \in Users, u # uid[c]
      PROVE  presence'[u] = presence[u]
  BY <1>4 DEF hset, expire, KeyType
<1>5. CASE \E l \in Expiring, f \in Fields : hset(uid[c], f) /\ pc' = [pc EXCEPT ![c] = l]
  <2>1. pc'[c] \in Expiring /\ uid'[c] = uid[c]
    BY <1>1, <1>5 DEF SessionType
  <2>2. uid[c] \notin Lasting'
    BY <2>1 DEF Lasting, Expiring
  <2> QED  BY <1>3, <1>4, <1>5, <2>2 DEF Lasting
<1>6. CASE expire(uid[c])
  <2>1. uid[c] \in Users => ~(presence'[uid[c]].fields # {} /\ ~presence'[uid[c]].ttl)
    BY <1>6 DEF expire, KeyType, Hash
  <2>2. uid[c] \notin Lasting'
    BY <2>1 DEF Lasting
  <2> QED  BY <1>3, <1>4, <1>6, <2>2 DEF Lasting
<1>7. CASE Fault("redis") /\ UNCHANGED presence
  <2>1. Lasting' \subseteq Lasting \cup {uid[c]}
    BY <1>3, <1>7 DEF Lasting
  <2> QED  BY <1>7, <2>1 DEF Fault
<1> QED  BY <1>5, <1>6, <1>7 DEF setUserOnline, Jump, Expiring, OnlineSteps, Fields

\* HDEL and the expiry of a hash give no TTL back and take none away.
LEMMA HashShrinks ==
  ASSUME SessionType, KeyType, NEW u \in Users,
         \/ \E f \in Fields : hdel(u, f)
         \/ presence' = [presence EXCEPT ![u] = NoHash]
         \/ UNCHANGED presence,
         UNCHANGED <<pc, uid>> \/ \E c \in Conns : Passes(c)
  PROVE  Lasting' \subseteq Lasting
<1>1. \A v \in Users : presence'[v].fields # {} /\ ~presence'[v].ttl
                        => presence[v].fields # {} /\ ~presence[v].ttl
  <2> SUFFICES ASSUME NEW v \in Users, presence'[v].fields # {}, ~presence'[v].ttl
               PROVE  presence[v].fields # {} /\ ~presence[v].ttl
    OBVIOUS
  <2>2. \/ presence'[v] = presence[v] \/ presence'[v] = NoHash
        \/ \E f \in Fields : presence'[v] = [fields |-> presence[v].fields \ {f}, ttl |-> presence[v].ttl]
    BY DEF hdel, KeyType
  <2>3. presence'[v] # NoHash
    BY DEF NoHash
  <2>4. ASSUME NEW f, presence'[v] = [fields |-> presence[v].fields \ {f}, ttl |-> presence[v].ttl]
        PROVE  presence[v].fields # {} /\ ~presence[v].ttl
    <3>1. presence'[v].fields = presence[v].fields \ {f} /\ presence'[v].ttl = presence[v].ttl
      BY <2>4
    <3> QED  BY <3>1
  <2> QED  BY <2>2, <2>3, <2>4
<1>2. \A c \in Conns : pc[c] \in Expiring => pc'[c] = pc[c] /\ uid'[c] = uid[c]
  BY DEF Passes, SessionType
<1> QED  BY <1>1, <1>2 DEF Lasting, Expiring

\* A step leaves no user with a lasting hash unless Redis fails or a node crashes.
LEMMA LastingStep ==
  ASSUME DeliveryInv, Next
  PROVE  \/ Lasting' \subseteq Lasting
         \/ Spend("redis") /\ \E u : Lasting' \subseteq Lasting \cup {u}
         \/ Spend("crash")
<1>0. SessionType /\ KeyType /\ \A c \in Conns : pc[c] # "idle" => uid[c] \in Users
  BY DEF DeliveryInv, SessionInv, HandlerHasUser
<1>1. ASSUME NEW c \in Conns, Connect(c) \/ ClientClose(c) \/ clientQuitEcption(c) PROVE Lasting' \subseteq Lasting
  <2>1. UNCHANGED presence /\ (UNCHANGED <<pc, uid>> \/ Passes(c))
    BY <1>1 DEF Connect, ClientClose, clientQuitEcption, At, Start, Passes, Expiring, OnlineSteps,
                threadVars, redisVars
  <2> QED  BY <1>0, <2>1, PassesKeepsLasting
<1>2. ASSUME NEW c \in Conns, Request(c) PROVE Lasting' \subseteq Lasting
  BY <1>0, <1>2, RequestPasses, PassesKeepsLasting
<1>3. ASSUME NEW c \in Conns, setUserOffline(c) PROVE Lasting' \subseteq Lasting
  <2>1. pc[c] \in OfflineSteps /\ Passes(c)
    BY <1>3 DEF setUserOffline, At, Jump, Passes, Expiring, OfflineSteps, OnlineSteps
  <2>2. uid[c] \in Users
    BY <1>0, <2>1 DEF OfflineSteps
  <2>3. (\E f \in Fields : hdel(uid[c], f)) \/ UNCHANGED presence
    BY <1>3 DEF setUserOffline, Fields
  <2> QED  BY <1>0, <2>1, <2>2, <2>3, HashShrinks
<1>4. ASSUME NEW c \in Conns, HandlerStep(c), ~setUserOffline(c), ~setUserOnline(c) PROVE Lasting' \subseteq Lasting
  BY <1>0, <1>4, LoginPasses, OtherPasses, PassesKeepsLasting DEF HandlerStep
<1>5. ASSUME NEW n \in Nodes, Deliver(n) \/ SubscriberLoop(n) PROVE Lasting' \subseteq Lasting
  <2>1. UNCHANGED <<presence, pc, uid>>
    BY <1>5 DEF Deliver, Dispatch, DeliverToMember, DispatchDone, SubscriberLoop, threadVars, redisVars
  <2> QED  BY <1>0, <2>1, PassesKeepsLasting
<1>6. ASSUME NEW u \in Users, PresenceExpires(u) \/ FriendsExpire(u) PROVE Lasting' \subseteq Lasting
  <2>1. /\ presence' = [presence EXCEPT ![u] = NoHash] \/ UNCHANGED presence
        /\ UNCHANGED <<pc, uid>>
    BY <1>6 DEF PresenceExpires, FriendsExpire, threadVars
  <2> QED  BY <1>0, <2>1, HashShrinks
<1>7. ASSUME NEW n \in Nodes, Crash(n) PROVE Spend("crash")
  BY <1>7 DEF Crash
<1> QED  BY <1>0, <1>1, <1>2, <1>3, <1>4, <1>5, <1>6, <1>7, OnlineKeepsLasting DEF Next, Environment

\* A set that gains at most one element.
LEMMA OneMore ==
  ASSUME NEW S, NEW T, NEW u, IsFiniteSet(S), T \subseteq S \cup {u}
  PROVE  /\ IsFiniteSet(T) /\ Cardinality(T) \in Nat /\ Cardinality(S) \in Nat
         /\ Cardinality(T) <= Cardinality(S) + 1
         /\ T \subseteq S => Cardinality(T) <= Cardinality(S)
<1>0. Cardinality(S) \in Nat
  BY FS_CardinalityType
<1>1. IsFiniteSet(S \cup {u}) /\ Cardinality(S \cup {u}) <= Cardinality(S) + 1 /\ Cardinality(S) \in Nat
  <2>1. /\ IsFiniteSet(S \cup {u})
        /\ Cardinality(S \cup {u}) = IF u \in S THEN Cardinality(S) ELSE Cardinality(S) + 1
    BY FS_AddElement
  <2> QED  BY <1>0, <2>1
<1>2. IsFiniteSet(T) /\ Cardinality(T) <= Cardinality(S \cup {u})
  BY <1>1, FS_Subset
<1>3. T \subseteq S => Cardinality(T) <= Cardinality(S)
  BY FS_Subset
<1>4. Cardinality(T) \in Nat /\ Cardinality(S \cup {u}) \in Nat
  BY <1>1, <1>2, FS_CardinalityType
<1> QED  BY <1>1, <1>2, <1>3, <1>4

\* A step keeps the account of failed calls.
LEMMA PaidInvNext ==
  ASSUME DeliveryInv, BudgetInv, PaidInv, Next
  PROVE  BudgetInv' /\ PaidInv'
<1>0. BudgetType /\ Spends /\ {"redis", "crash"} \subseteq Events
  BY NextSpends DEF DeliveryInv, Events
<1>1. BudgetInv'
  <2>1. /\ budget.redis \in Nat => budget'.redis \in Nat /\ budget'.redis <= budget.redis
        /\ budget.crash \in Nat => budget'.crash \in Nat /\ budget'.crash <= budget.crash
    BY <1>0, SpendFacts
  <2>2. Budget.crash # Always => Budget.crash \in Nat
    BY BoundAssumption DEF Events
  <2> QED  BY <2>1, <2>2 DEF BudgetInv
<1>2. ASSUME NoCrash', Budget.redis # Always
      PROVE  IsFiniteSet(Lasting)' /\ Cardinality(Lasting)' <= Budget.redis - budget'.redis
  <2>1. Budget.crash \in Nat /\ Budget.redis \in Nat /\ budget.redis \in Nat /\ budget.crash \in Nat
        /\ budget.crash <= Budget.crash /\ budget'.crash = Budget.crash
    BY <1>2, BoundAssumption DEF BudgetInv, NoCrash, Events
  <2>2. budget'.redis \in Nat /\ budget'.redis <= budget.redis /\ budget'.crash <= budget.crash
        /\ (Spend("redis") => budget'.redis = budget.redis - 1)
    BY <1>0, <2>1, SpendFacts
  <2>3. ~Spend("crash")
    BY <1>0, <2>1, SpendFacts
  <2>4. NoCrash
    BY <1>2, <2>1, <2>2 DEF NoCrash
  <2>5. IsFiniteSet(Lasting) /\ Cardinality(Lasting) <= Budget.redis - budget.redis
    BY <1>2, <2>4 DEF PaidInv
  <2>6. CASE Lasting' \subseteq Lasting
    <3>1. IsFiniteSet(Lasting') /\ Cardinality(Lasting') <= Cardinality(Lasting)
          /\ Cardinality(Lasting') \in Nat /\ Cardinality(Lasting) \in Nat
      BY <2>5, <2>6, OneMore
    <3> QED  BY <2>1, <2>2, <2>5, <3>1
  <2>7. ASSUME Spend("redis"), NEW u, Lasting' \subseteq Lasting \cup {u}
        PROVE  IsFiniteSet(Lasting') /\ Cardinality(Lasting') <= Budget.redis - budget'.redis
    <3>1. IsFiniteSet(Lasting') /\ Cardinality(Lasting') <= Cardinality(Lasting) + 1
          /\ Cardinality(Lasting') \in Nat /\ Cardinality(Lasting) \in Nat
      BY <2>5, <2>7, OneMore
    <3> QED  BY <2>1, <2>2, <2>5, <2>7, <3>1
  <2> QED  BY <2>3, <2>6, <2>7, LastingStep
<1> QED  BY <1>1, <1>2 DEF PaidInv

\* However the logins, logouts and quits of a user on the connections of all nodes
\* interleave with one another and with the expiry of hashes, a presence hash that
\* nothing will ever expire takes a failed call to Redis, one for each such user, or
\* the crash of a node: without either no account stays locked for ever.
THEOREM LastingIsPaid == Spec => []LastingNeedsFailure
<1> DEFINE I == DeliveryInv /\ NoMisdelivery /\ BudgetInv /\ PaidInv
<1>1. Init => I
  <2> SUFFICES ASSUME Init PROVE BudgetInv /\ PaidInv
    BY DeliveryInvInit
  <2>1. budget = Budget /\ Lasting = {}
    BY DEF Init, RedisInit, Lasting, NoHash
  <2>2. BudgetInv
    BY <2>1, BoundAssumption DEF BudgetInv, Events
  <2>3. IsFiniteSet({}) /\ Cardinality({}) = 0
    BY FS_EmptySet
  <2>4. PaidInv
    BY <2>1, <2>2, <2>3 DEF PaidInv, BudgetInv
  <2> QED  BY <2>2, <2>4
<1>2. I /\ [Next]_vars => I'
  <2> SUFFICES ASSUME I, [Next]_vars PROVE I'
    OBVIOUS
  <2>1. DeliveryInv' /\ NoMisdelivery'
    BY DeliveryInvNext
  <2>2. CASE Next
    BY <2>1, <2>2, PaidInvNext
  <2>3. CASE UNCHANGED vars
    <3>1. UNCHANGED <<budget, presence, uid, pc>>
      BY <2>3 DEF vars, redisVars, threadVars
    <3> QED  BY <2>1, <3>1 DEF BudgetInv, PaidInv, NoCrash, Lasting
  <2> QED  BY <2>2, <2>3
<1>3. I => LastingNeedsFailure
  BY DEF PaidInv, LastingNeedsFailure
<1> QED  BY <1>1, <1>2, <1>3, PTL DEF Spec

===============================================================================
