------------------------------ MODULE ChatService ------------------------------
(***************************************************************************)
(* ChatService (chatservice.cpp) on every node of a cluster that shares    *)
(* one Redis server and one MySQL database, driven by the connections      *)
(* ChatServer hands it.                                                    *)
(*                                                                         *)
(* A connection belongs to one IO thread of its node, which runs its       *)
(* handlers one after the other, so pc[c] is the position of the handler   *)
(* running for connection c.  A step is one command sent to Redis or       *)
(* MySQL or one section under user_conn_mutex_, group_mutex_ or            *)
(* sub_mutex_; between two steps every other thread may run.               *)
(*                                                                         *)
(* Requests come from the client program (client/main.cpp): it waits for   *)
(* the answer to a login, sends chat and group requests only while it is   *)
(* logged in, always with the id of its own user, and after a logout may   *)
(* log in again, as any user, on the same connection.  They arrive whole:  *)
(* what onMessage makes of a request that TCP cut in two or joined with    *)
(* the next one, a lost loginout above all, is module ClientSession.       *)
(***************************************************************************)
EXTENDS RedisClient

CONSTANTS
  Conns,       \* TCP connections (re-usable: a closed one may be opened again)
  NodeOf,      \* NodeOf[c]: the node connection c was accepted by
  NoConn,      \* no entry in userConnMap_
  NoUser,      \* no user
  FriendRows,  \* table Friend when the servers start
  GroupRows,   \* table GroupUser when the servers start, as pairs <<group, user>>
  Accounts,    \* Accounts[c]: users whose password is known at the client of c
  Requests,    \* kinds of request the clients send besides login and loginout
  MaxMsgs,     \* bound: chat and group messages the clients send
  MaxTasks,    \* bound: sub_tasks_ a node holds when it starts a new request
  Budget,      \* bounds: Budget[k] events of kind k happen at most
  Always       \* the budget of a kind of event without bound

ASSUME ConnAssumption ==
  /\ NodeOf \in [Conns -> Nodes]
  /\ NoConn \notin Conns
  /\ NoUser \notin Users

ASSUME DataAssumption ==
  /\ FriendRows \subseteq Users \X Users
  /\ GroupRows \subseteq Groups \X Users
  /\ Accounts \in [Conns -> SUBSET Users]
  /\ Requests \subseteq {"oneChat", "addFriend", "createGroup", "joinGroup", "groupChat"}

\* What the environment may do: fail a command on a key of Redis, fail a PUBLISH or
\* the subscriber ("pubsub"), fail a call to MySQL, lose the reply to an INSERT that
\* MySQL ran, crash a node, let a TTL run out, break a connection, send a login, and
\* add a friend or create or join a group ("member").
Events == {"redis", "pubsub", "mysql", "reply", "crash", "ttl", "close", "login", "member"}

ASSUME BoundAssumption ==
  /\ MaxMsgs \in Nat /\ MaxTasks \in Nat
  /\ Always \notin Nat
  /\ Budget \in [Events -> Nat \cup {Always}]

VARIABLES
  \* the clients and their connections
  link,           \* link[c]: "up", "closing" (the server has not seen it yet), "closed"
  session,        \* session[c]: currentUser of the client while it is logged in
  friendList,     \* friendList[c]: currentUserFriendList of the client
  \* the IO threads
  pc,             \* pc[c]: the next step of the handler running for c
  uid,            \* uid[c]: the user id the handler works for
  req,            \* req[c]: the other locals of the handler
  \* the fields of ChatService on every node
  userConnMap,    \* userConnMap[n][u]: the connection stored for u, or NoConn
  groupEntries,   \* groupEntries[n]: the keys of groupMembers_
  groupMembers,   \* groupMembers[n][g]: the set stored under key g
  deliverTo,      \* deliverTo[n]: members the inbox callback still has to serve
  failedQueue,    \* failedQueue[n]: failedQueue_ of OfflineMessage
  \* the tables of the database
  allGroup, groupUser, friendTable, offlineMessage,
  \* history
  nextMsg,        \* number of the next message a client sends
  published,      \* group messages in the order Redis published them
  sent,           \* sent[c]: chat and group messages written to connection c
  acked,          \* one-to-one messages whose sender was told errno 0
  forgotten,      \* messages that were in failedQueue_ of a node that crashed
  \* bounds
  budget          \* budget[k]: events of kind k that may still happen

clientVars == <<link, session, friendList>>
threadVars == <<pc, uid, req>>
groupVars == <<groupEntries, groupMembers>>
dbVars == <<allGroup, groupUser, friendTable, offlineMessage>>
histVars == <<nextMsg, published, sent, acked, forgotten>>
redisVars == <<presence, friendsCache, subVars>>
\* What signing on and off leaves alone.
quietVars == <<groupVars, deliverTo, failedQueue, dbVars, histVars>>
vars == <<clientVars, threadVars, userConnMap, quietVars, budget, redisVars>>

Node(c) == NodeOf[c]
Msgs == 1..MaxMsgs

Req == [group: GroupIds, peer: Users \cup {NoUser}, msg: 0..MaxMsgs,
        groups: SUBSET GroupIds, users: SUBSET Users]
NoReq == [group |-> NoId, peer |-> NoUser, msg |-> 0, groups |-> {}, users |-> {}]

Copy == [msg: Msgs, for: Users, as: Users \cup {NoUser}]
Item == [user: Users, msg: Msgs]
\* A row of table OfflineMessage; answered is history: its INSERT returned.
Row == [user: Users, msg: Msgs, answered: BOOLEAN]

-----------------------------------------------------------------------------
(* Control of a handler.                                                   *)

OnlineSteps == {"on_online", "on_node", "on_conn", "on_expire"}
OfflineSteps == {"off_online", "off_conn", "off_node"}
BeforeInsert == {"check", "insert"}
AfterInsert == OnlineSteps \cup {"friends", "query_friends", "cache_friends",
                                 "groups", "entry", "entry_sub", "ack"}
AfterErase == OfflineSteps \cup {"leave"}
Chatting == {"create", "join", "member", "subscribe", "lookup", "load", "fill",
             "publish", "route", "store", "drain", "own", "queue"}
Labels == {"idle", "erase"} \cup BeforeInsert \cup AfterInsert \cup AfterErase \cup Chatting

At(c, label) == pc[c] = label
Jump(c, to) == pc' = [pc EXCEPT ![c] = to] /\ UNCHANGED <<uid, req>>
JumpWith(c, to, r) ==
  pc' = [pc EXCEPT ![c] = to] /\ req' = [req EXCEPT ![c] = r] /\ UNCHANGED uid
Return(c) ==
  /\ pc' = [pc EXCEPT ![c] = "idle"]
  /\ uid' = [uid EXCEPT ![c] = NoUser]
  /\ req' = [req EXCEPT ![c] = NoReq]

\* A client issues its next request once the handler of the last one returned.
Ready(c) == link[c] = "up" /\ pc[c] = "idle"
LoggedIn(c) == Ready(c) /\ session[c] # NoUser
Start(c, to, u, r) ==
  /\ pc' = [pc EXCEPT ![c] = to]
  /\ uid' = [uid EXCEPT ![c] = u]
  /\ req' = [req EXCEPT ![c] = r]

\* The bound on queued subscription tasks, applied where a request starts.
TasksBounded(c) == Len(subTasks[Node(c)]) < MaxTasks

Spend(k) ==
  \/ budget[k] = Always /\ UNCHANGED budget
  \/ budget[k] \in Nat \ {0} /\ budget' = [budget EXCEPT ![k] = @ - 1]

\* A call that got no connection from its pool, or threw, leaves a log line and
\* no effect.
Fault(service) == Spend(service)
NoFault == UNCHANGED budget

\* group_mutex_ is free for a writer: the inbox callback reads groupMembers_
\* under a shared lock until it has served every member.
GroupMutexFree(n) == subAt[n] # "deliver"

\* queueMutex_ is free: it is held while a handler drains failedQueue_.
QueueMutexFree(n) == \A c \in Conns : Node(c) = n => pc[c] # "drain"

-----------------------------------------------------------------------------
(* Connections: ChatServer::onConnection and the ends of the TCP stream.   *)

\* A new client process connects (or the same descriptor is used again).
Connect(c) ==
  /\ link[c] = "closed" /\ At(c, "idle")
  /\ link' = [link EXCEPT ![c] = "up"]
  /\ UNCHANGED <<session, friendList, threadVars, userConnMap, quietVars, budget, redisVars>>

\* The client exits or its network fails, whatever the server is doing for it.
ClientClose(c) ==
  /\ link[c] = "up" /\ Spend("close")
  /\ link' = [link EXCEPT ![c] = "closing"]
  /\ session' = [session EXCEPT ![c] = NoUser]
  /\ friendList' = [friendList EXCEPT ![c] = {}]
  /\ UNCHANGED <<threadVars, userConnMap, quietVars, redisVars>>

\* Mutant: the entry that was found is not erased.
clientQuitEcptionKeepsEntry(c) ==
  /\ link[c] = "closing" /\ At(c, "idle")
  /\ link' = [link EXCEPT ![c] = "closed"]
  /\ \/ \E u \in Users :
          /\ userConnMap[Node(c)][u] = c
          /\ Start(c, "off_online", u, NoReq)
     \/ /\ \A u \in Users : userConnMap[Node(c)][u] # c
        /\ UNCHANGED threadVars
  /\ UNCHANGED <<session, friendList, userConnMap, quietVars, budget, redisVars>>

\* onConnection with a connection that is down calls clientQuitEcption: under
\* user_conn_mutex_ the first entry that holds this connection is erased; the
\* rest of the handler is that of loginOut.
clientQuitEcption(c) ==
  /\ link[c] = "closing" /\ At(c, "idle")
  /\ link' = [link EXCEPT ![c] = "closed"]
  /\ \/ \E u \in Users :
          /\ userConnMap[Node(c)][u] = c
          /\ userConnMap' = [userConnMap EXCEPT ![Node(c)][u] = NoConn]
          /\ Start(c, "off_online", u, NoReq)
     \/ /\ \A u \in Users : userConnMap[Node(c)][u] # c
        /\ UNCHANGED <<threadVars, userConnMap>>
  /\ UNCHANGED <<session, friendList, quietVars, budget, redisVars>>

-----------------------------------------------------------------------------
(* login.  An unknown id, a wrong password or a failed query is answered   *)
(* errno 1 and changes nothing; Login is the request that passes line 103. *)

Login(c, u) ==
  /\ Ready(c) /\ session[c] = NoUser /\ u \in Accounts[c] /\ TasksBounded(c)
  /\ Spend("login")
  /\ Start(c, "check", u, NoReq)
  /\ UNCHANGED <<clientVars, userConnMap, quietVars, redisVars>>

\* A failed isUserOnline answers false.
CheckOnline(c) ==
  /\ At(c, "check")
  /\ \/ isUserOnline(uid[c]) /\ Return(c) /\ NoFault
     \/ ~isUserOnline(uid[c]) /\ Jump(c, "insert") /\ NoFault
     \/ isUserOnline(uid[c]) /\ Jump(c, "insert") /\ Fault("redis")
  /\ UNCHANGED <<clientVars, userConnMap, quietVars, redisVars>>

\* unordered_map::insert keeps an entry that is already there.
InsertConn(c) ==
  /\ At(c, "insert") /\ Jump(c, "on_online")
  /\ userConnMap' = [userConnMap EXCEPT ![Node(c)][uid[c]] = IF @ = NoConn THEN c ELSE @]
  /\ UNCHANGED <<clientVars, quietVars, budget, redisVars>>

\* Mutant: EXPIRE comes first, when there may be no key yet.
setUserOnlineExpireFirst(c) ==
  /\ \/ At(c, "on_online") /\ expire(uid[c]) /\ Jump(c, "on_node")
     \/ At(c, "on_node") /\ hset(uid[c], "online") /\ Jump(c, "on_conn")
     \/ At(c, "on_conn") /\ hset(uid[c], "node") /\ Jump(c, "on_expire")
     \/ At(c, "on_expire") /\ hset(uid[c], "conn") /\ Jump(c, "friends")
  /\ NoFault /\ UNCHANGED <<clientVars, userConnMap, quietVars, friendsCache, subVars>>

\* Four commands; the first that fails ends setUserOnline.
setUserOnline(c) ==
  /\ \/ At(c, "on_online") /\ hset(uid[c], "online") /\ Jump(c, "on_node") /\ NoFault
     \/ At(c, "on_node") /\ hset(uid[c], "node") /\ Jump(c, "on_conn") /\ NoFault
     \/ At(c, "on_conn") /\ hset(uid[c], "conn") /\ Jump(c, "on_expire") /\ NoFault
     \/ At(c, "on_expire") /\ expire(uid[c]) /\ Jump(c, "friends") /\ NoFault
     \/ pc[c] \in OnlineSteps /\ Jump(c, "friends") /\ Fault("redis") /\ UNCHANGED presence
  /\ UNCHANGED <<clientVars, userConnMap, quietVars, friendsCache, subVars>>

\* popOfflineMessages finds nothing: "offline:<id>" is only written by the
\* branch of the inbox callback that serves node inboxes, to which nothing is
\* ever published.  A cached friend list is read into a local that is not put
\* in the response.
FriendsCached(c) ==
  /\ At(c, "friends")
  /\ \/ friendsCache[uid[c]] # {} /\ Jump(c, "groups") /\ NoFault
     \/ friendsCache[uid[c]] = {} /\ Jump(c, "query_friends") /\ NoFault
     \/ friendsCache[uid[c]] # {} /\ Jump(c, "query_friends") /\ Fault("redis")
  /\ UNCHANGED <<clientVars, userConnMap, quietVars, redisVars>>

\* FriendModel::query: the rows whose first column is the user.
friendQuery(u) == {v \in Users : <<u, v>> \in friendTable}

QueryFriends(c) ==
  /\ At(c, "query_friends")
  /\ \/ /\ friendQuery(uid[c]) # {}
        /\ JumpWith(c, "cache_friends", [req[c] EXCEPT !.users = friendQuery(uid[c])])
        /\ NoFault
     \/ friendQuery(uid[c]) = {} /\ Jump(c, "groups") /\ NoFault
     \/ friendQuery(uid[c]) # {} /\ Jump(c, "groups") /\ Fault("mysql")
  /\ UNCHANGED <<clientVars, userConnMap, quietVars, redisVars>>

CacheFriends(c) ==
  /\ At(c, "cache_friends") /\ Jump(c, "groups")
  /\ \/ friendsCache' = [friendsCache EXCEPT ![uid[c]] = req[c].users] /\ NoFault
     \/ UNCHANGED friendsCache /\ Fault("redis")
  /\ UNCHANGED <<clientVars, userConnMap, quietVars, presence, subVars>>

\* GroupModel::queryGroups.
queryGroups(u) == {g \in Groups : <<g, u>> \in groupUser}

QueryGroups(c) ==
  /\ At(c, "groups")
  /\ \/ JumpWith(c, "entry", [req[c] EXCEPT !.groups = queryGroups(uid[c])]) /\ NoFault
     \/ queryGroups(uid[c]) # {} /\ Jump(c, "entry") /\ Fault("mysql")
  /\ UNCHANGED <<clientVars, userConnMap, quietVars, redisVars>>

\* The loop over the groups.  queryGroups fills the members of a copy of each
\* Group, so getGroupUsers() is empty here and the body creates the key of the
\* group and inserts nobody.
LoginGroupEntry(c) ==
  LET n == Node(c) IN
  /\ At(c, "entry") /\ GroupMutexFree(n)
  /\ \/ \E g \in req[c].groups :
          /\ groupEntries' = [groupEntries EXCEPT ![n] = @ \cup {g}]
          /\ JumpWith(c, "entry_sub", [req[c] EXCEPT !.group = g, !.groups = @ \ {g}])
     \/ req[c].groups = {} /\ Jump(c, "ack") /\ UNCHANGED groupEntries
  /\ UNCHANGED <<clientVars, userConnMap, groupMembers, deliverTo, failedQueue, dbVars, histVars, budget, redisVars>>

LoginGroupSubscribe(c) ==
  /\ At(c, "entry_sub") /\ Jump(c, "entry")
  /\ subscribeGroupChannel(Node(c), req[c].group)
  /\ UNCHANGED <<clientVars, userConnMap, quietVars, budget, presence, friendsCache, subGroupSet, batch, subAt, channel>>

\* The client takes over the user and, if the response has one, the friend list.
doLoginResponse(c) ==
  /\ session' = [session EXCEPT ![c] = uid[c]]
  /\ friendList' = [friendList EXCEPT ![c] = IF req[c].users # {} THEN req[c].users ELSE @]

\* conn->send(response).
LoginAck(c) ==
  /\ At(c, "ack") /\ Return(c)
  /\ \/ link[c] = "up" /\ doLoginResponse(c)
     \/ link[c] = "closing" /\ UNCHANGED <<session, friendList>>
  /\ UNCHANGED <<link, userConnMap, quietVars, budget, redisVars>>

-----------------------------------------------------------------------------
(* loginOut, and what clientQuitEcption shares with it.  The client does   *)
(* not wait for an answer (there is none): it is logged out when it asks.  *)
(* A loginout that onMessage loses leaves entry and presence as they are;  *)
(* module ClientSession has it.                                            *)

Logout(c) ==
  /\ LoggedIn(c) /\ TasksBounded(c)
  /\ session' = [session EXCEPT ![c] = NoUser]
  /\ Start(c, "erase", session[c], NoReq)
  /\ UNCHANGED <<link, friendList, userConnMap, quietVars, budget, redisVars>>

\* Mutant: loginOut does not erase the entry.
EraseConnForgotten(c) ==
  /\ At(c, "erase") /\ Jump(c, "off_online")
  /\ UNCHANGED <<clientVars, userConnMap, quietVars, budget, redisVars>>

\* Mutant: the test of the iterator is inverted, loginOut returns at once.
EraseConnReturns(c) ==
  /\ At(c, "erase") /\ Return(c)
  /\ UNCHANGED <<clientVars, userConnMap, quietVars, budget, redisVars>>

\* Erases the entry of the user, whichever connection it holds.
EraseConn(c) ==
  /\ At(c, "erase") /\ Jump(c, "off_online")
  /\ userConnMap' = [userConnMap EXCEPT ![Node(c)][uid[c]] = NoConn]
  /\ UNCHANGED <<clientVars, quietVars, budget, redisVars>>

setUserOffline(c) ==
  /\ \/ At(c, "off_online") /\ hdel(uid[c], "online") /\ Jump(c, "off_conn") /\ NoFault
     \/ At(c, "off_conn") /\ hdel(uid[c], "conn") /\ Jump(c, "off_node") /\ NoFault
     \/ At(c, "off_node") /\ hdel(uid[c], "node") /\ Jump(c, "leave") /\ NoFault
     \/ pc[c] \in OfflineSteps /\ Jump(c, "leave") /\ Fault("redis") /\ UNCHANGED presence
  /\ UNCHANGED <<clientVars, userConnMap, quietVars, friendsCache, subVars>>

\* Under group_mutex_: the user leaves every set, and every set that is empty
\* then, whoever emptied it, is unsubscribed; the keys stay.
LeaveGroups(c) ==
  LET n == Node(c)
      left == [g \in GroupIds |-> groupMembers[n][g] \ {uid[c]}]
  IN
  /\ At(c, "leave") /\ GroupMutexFree(n) /\ Return(c)
  /\ groupMembers' = [groupMembers EXCEPT ![n] = left]
  /\ unsubscribeGroupChannels(n, {g \in groupEntries[n] : left[g] = {}})
  /\ UNCHANGED <<clientVars, userConnMap, groupEntries, deliverTo, failedQueue, dbVars,
                 histVars, budget, presence, friendsCache, subGroupSet, batch, subAt, channel>>

-----------------------------------------------------------------------------
(* createGroup and joinGroup.  The set "group_members:<id>" they also      *)
(* write to Redis is never read and is left out.                           *)

CreateGroup(c) ==
  /\ LoggedIn(c) /\ TasksBounded(c) /\ Spend("member")
  /\ Start(c, "create", session[c], NoReq)
  /\ UNCHANGED <<clientVars, userConnMap, quietVars, redisVars>>

\* GroupModel::createGroup: the new row gets the next id.  A name that is taken
\* (the column is unique), no connection, or a query for the id that throws
\* after the row was inserted leaves the id of the Group at -1.
createGroupRow(c) ==
  /\ At(c, "create")
  /\ \/ \E g \in Groups \ allGroup :
          /\ \A h \in Groups \ allGroup : g <= h
          /\ allGroup' = allGroup \cup {g}
          /\ \/ JumpWith(c, "join", [req[c] EXCEPT !.group = g]) /\ NoFault
             \/ Jump(c, "join") /\ Fault("mysql")
     \/ UNCHANGED allGroup /\ Jump(c, "join") /\ NoFault
  /\ UNCHANGED <<clientVars, userConnMap, groupVars, deliverTo, failedQueue, groupUser,
                 friendTable, offlineMessage, histVars, redisVars>>

\* The client asks for the group id its user typed, whether it exists or not.
JoinGroup(c, g) ==
  /\ LoggedIn(c) /\ TasksBounded(c) /\ Spend("member")
  /\ Start(c, "join", session[c], [NoReq EXCEPT !.group = g])
  /\ UNCHANGED <<clientVars, userConnMap, quietVars, redisVars>>

\* Mutant: the row is inserted although no such group was created.
joinGroupRowUnchecked(c) ==
  /\ At(c, "join") /\ Jump(c, "member") /\ NoFault
  /\ groupUser' = groupUser \cup {<<req[c].group, uid[c]>>}
  /\ UNCHANGED <<clientVars, userConnMap, groupVars, deliverTo, failedQueue, allGroup,
                 friendTable, offlineMessage, histVars, redisVars>>

\* GroupModel::joinGroup: the foreign key refuses a group without a row, the
\* primary key a second row of the same user; either is only logged.
joinGroupRow(c) ==
  LET g == req[c].group IN
  /\ At(c, "join") /\ Jump(c, "member")
  /\ \/ /\ groupUser' = groupUser \cup ({g} \cap allGroup) \X {uid[c]}
        /\ NoFault
     \/ g \in allGroup /\ UNCHANGED groupUser /\ Fault("mysql")
  /\ UNCHANGED <<clientVars, userConnMap, groupVars, deliverTo, failedQueue, allGroup,
                 friendTable, offlineMessage, histVars, redisVars>>

AddLocalMember(c) ==
  LET n == Node(c)  g == req[c].group IN
  /\ At(c, "member") /\ GroupMutexFree(n) /\ Jump(c, "subscribe")
  /\ groupEntries' = [groupEntries EXCEPT ![n] = @ \cup {g}]
  /\ groupMembers' = [groupMembers EXCEPT ![n][g] = @ \cup {uid[c]}]
  /\ UNCHANGED <<clientVars, userConnMap, deliverTo, failedQueue, dbVars, histVars,
                 budget, redisVars>>

SubscribeGroup(c) ==
  /\ At(c, "subscribe") /\ Return(c)
  /\ subscribeGroupChannel(Node(c), req[c].group)
  /\ UNCHANGED <<clientVars, userConnMap, quietVars, budget, presence, friendsCache,
                 subGroupSet, batch, subAt, channel>>

-----------------------------------------------------------------------------
(* groupChat.  An empty message is dropped at once and changes nothing.    *)

GroupChat(c, g) ==
  /\ LoggedIn(c) /\ TasksBounded(c) /\ nextMsg <= MaxMsgs
  /\ nextMsg' = nextMsg + 1
  /\ Start(c, "lookup", session[c], [NoReq EXCEPT !.group = g, !.msg = nextMsg])
  /\ UNCHANGED <<clientVars, userConnMap, groupVars, deliverTo, failedQueue, dbVars,
                 published, sent, acked, forgotten, budget, redisVars>>

LookupGroup(c) ==
  /\ At(c, "lookup")
  /\ Jump(c, IF req[c].group \in groupEntries[Node(c)] THEN "publish" ELSE "load")
  /\ UNCHANGED <<clientVars, userConnMap, quietVars, budget, redisVars>>

\* GroupModel::queryGroupUsers leaves the sender out.
queryGroupUsers(u, g) == {v \in Users : <<g, v>> \in groupUser /\ v # u}

LoadGroup(c) ==
  LET found == queryGroupUsers(uid[c], req[c].group) IN
  /\ At(c, "load")
  /\ \/ JumpWith(c, "fill", [req[c] EXCEPT !.users = found]) /\ NoFault
     \/ found # {} /\ Jump(c, "fill") /\ Fault("mysql")
  /\ UNCHANGED <<clientVars, userConnMap, quietVars, redisVars>>

\* Under group_mutex_ again: every user found is inserted, local or not, and the
\* channel is subscribed; when none was found no key appears.
FillGroup(c) ==
  LET n == Node(c)  g == req[c].group IN
  /\ At(c, "fill") /\ GroupMutexFree(n) /\ Jump(c, "publish")
  /\ groupEntries' = [groupEntries EXCEPT ![n] = IF req[c].users = {} THEN @ ELSE @ \cup {g}]
  /\ groupMembers' = [groupMembers EXCEPT ![n][g] = @ \cup req[c].users]
  /\ subscribeGroupChannel(n, g)
  /\ UNCHANGED <<clientVars, userConnMap, deliverTo, failedQueue, dbVars, histVars, budget,
                 presence, friendsCache, subGroupSet, batch, subAt, channel>>

PublishGroup(c) ==
  /\ At(c, "publish") /\ Return(c)
  /\ \/ /\ publishGroupMessage(req[c].msg, req[c].group)
        /\ published' = Append(published, req[c].msg)
        /\ NoFault
     \/ UNCHANGED <<channel, published>> /\ Fault("pubsub")
  /\ UNCHANGED <<clientVars, userConnMap, groupVars, deliverTo, failedQueue, dbVars, nextMsg,
                 sent, acked, forgotten, presence, friendsCache, subTasks, subGroupSet, batch, subAt>>

-----------------------------------------------------------------------------
(* oneChat and addFriend.                                                  *)

\* The friend check is one query; a chat it refuses, or whose query failed, is
\* answered errno 1 "No this friend" and changes nothing else.
OneChat(c, v) ==
  /\ LoggedIn(c) /\ nextMsg <= MaxMsgs
  /\ nextMsg' = nextMsg + 1
  /\ \/ /\ v \in friendQuery(session[c]) /\ NoFault
        /\ Start(c, "route", session[c], [NoReq EXCEPT !.peer = v, !.msg = nextMsg])
     \/ v \in friendQuery(session[c]) /\ Fault("mysql") /\ UNCHANGED threadVars
     \/ v \notin friendQuery(session[c]) /\ NoFault /\ UNCHANGED threadVars
  /\ UNCHANGED <<clientVars, userConnMap, groupVars, deliverTo, failedQueue, dbVars,
                 published, sent, acked, forgotten, redisVars>>

\* conn->send() of message m, meant for user v, on connection d.  The client of d
\* may be gone without the server having noticed.
Send(d, m, v) ==
  sent' = [sent EXCEPT ![d] = Append(@, [msg |-> m, for |-> v, as |-> session[d]])]

\* Under user_conn_mutex_: a recipient in the map of this node gets the message,
\* and the sender its answer, in the same section.
RouteChat(c) ==
  LET d == userConnMap[Node(c)][req[c].peer] IN
  /\ At(c, "route")
  /\ \/ /\ d # NoConn
        /\ Send(d, req[c].msg, req[c].peer)
        /\ acked' = acked \cup {req[c].msg}
        /\ Return(c)
     \/ d = NoConn /\ Jump(c, "store") /\ UNCHANGED <<sent, acked>>
  /\ UNCHANGED <<clientVars, userConnMap, groupVars, deliverTo, failedQueue, dbVars,
                 nextMsg, published, forgotten, budget, redisVars>>

\* OfflineMessage::insert, whose own module counts its retries; the sender is told
\* errno 0 whether it returns true or false.  The head of its loop: a connection
\* and queueMutex_, or the third time that getConnection gave none.
StoreChat(c) ==
  /\ At(c, "store")
  /\ \/ QueueMutexFree(Node(c)) /\ Jump(c, "drain") /\ NoFault
     \/ Jump(c, "queue") /\ Fault("mysql")
  /\ UNCHANGED <<clientVars, userConnMap, quietVars, redisVars>>

\* INSERT of an item: MySQL ran it, and executeUpdate returned or threw.
InsertRow(item, answered) ==
  offlineMessage' =
    Append(offlineMessage, [user |-> item.user, msg |-> item.msg, answered |-> answered])

\* An INSERT that throws, having run or not; the loop starts over.
InsertThrows(c, item) ==
  /\ Jump(c, "store")
  /\ \/ UNCHANGED offlineMessage /\ Fault("mysql")
     \/ InsertRow(item, FALSE) /\ Fault("reply")

\* Mutant: a drained message is not popped from the queue.
DrainQueueKeeps(c) ==
  LET n == Node(c) IN
  /\ At(c, "drain") /\ NoFault
  /\ \/ failedQueue[n] # <<>> /\ InsertRow(Head(failedQueue[n]), TRUE) /\ Jump(c, "own")
     \/ failedQueue[n] = <<>> /\ Jump(c, "own") /\ UNCHANGED offlineMessage
  /\ UNCHANGED <<clientVars, userConnMap, groupVars, deliverTo, failedQueue, allGroup,
                 groupUser, friendTable, histVars, redisVars>>

\* Under queueMutex_: an item is popped once its INSERT returned; an exception
\* unlocks the mutex and leaves the item at the front.
DrainQueue(c) ==
  LET n == Node(c) IN
  /\ At(c, "drain")
  /\ \/ /\ failedQueue[n] # <<>> /\ NoFault
        /\ InsertRow(Head(failedQueue[n]), TRUE)
        /\ failedQueue' = [failedQueue EXCEPT ![n] = Tail(@)]
        /\ UNCHANGED threadVars
     \/ failedQueue[n] # <<>> /\ InsertThrows(c, Head(failedQueue[n])) /\ UNCHANGED failedQueue
     \/ failedQueue[n] = <<>> /\ Jump(c, "own") /\ NoFault /\ UNCHANGED <<failedQueue, offlineMessage>>
  /\ UNCHANGED <<clientVars, userConnMap, groupVars, deliverTo, allGroup, groupUser,
                 friendTable, histVars, redisVars>>

ItemOf(c) == [user |-> req[c].peer, msg |-> req[c].msg]
Answer(c) == acked' = acked \cup {req[c].msg} /\ Return(c)

InsertOwn(c) ==
  /\ At(c, "own")
  /\ \/ InsertRow(ItemOf(c), TRUE) /\ Answer(c) /\ NoFault
     \/ InsertThrows(c, ItemOf(c)) /\ UNCHANGED acked
  /\ UNCHANGED <<clientVars, userConnMap, groupVars, deliverTo, failedQueue, allGroup, groupUser,
                 friendTable, nextMsg, published, sent, forgotten, redisVars>>

QueueChat(c) ==
  LET n == Node(c) IN
  /\ At(c, "queue") /\ QueueMutexFree(n) /\ Answer(c)
  /\ failedQueue' = [failedQueue EXCEPT ![n] = Append(@, ItemOf(c))]
  /\ UNCHANGED <<clientVars, userConnMap, groupVars, deliverTo, dbVars, nextMsg, published,
                 sent, forgotten, budget, redisVars>>

\* FriendModel::insert stores a pair with the smaller id first.  MySQL 5.7 does
\* not enforce the CHECK of the table, so a user may befriend itself.
friendRow(u, v) == IF u < v THEN <<u, v>> ELSE <<v, u>>

\* A failed insert (the row is there already) is only logged; there is no answer.
AddFriend(c, v) ==
  /\ LoggedIn(c) /\ Spend("member")
  /\ friendTable' = friendTable \cup {friendRow(session[c], v)}
  /\ UNCHANGED <<clientVars, threadVars, userConnMap, groupVars, deliverTo, failedQueue,
                 allGroup, groupUser, offlineMessage, histVars, redisVars>>

-----------------------------------------------------------------------------
(* The inbox callback, run by the subscriber thread inside consume().      *)

\* Mutant: no callback is registered when the message comes.
DispatchDropped(n) ==
  /\ subAt[n] = "consume" /\ channel[n] # <<>>
  /\ subAt' = [subAt EXCEPT ![n] = "deliver"]
  /\ UNCHANGED <<clientVars, threadVars, userConnMap, quietVars, budget, presence,
                 friendsCache, subTasks, subGroupSet, batch, channel>>

\* It takes group_mutex_ shared and walks the set of the group.
Dispatch(n) ==
  LET g == Head(channel[n]).group IN
  /\ subAt[n] = "consume" /\ channel[n] # <<>>
  /\ subAt' = [subAt EXCEPT ![n] = "deliver"]
  /\ deliverTo' = [deliverTo EXCEPT ![n] = IF g \in groupEntries[n] THEN groupMembers[n][g] ELSE {}]
  /\ UNCHANGED <<clientVars, threadVars, userConnMap, groupVars, failedQueue, dbVars, histVars,
                 budget, presence, friendsCache, subTasks, subGroupSet, batch, channel>>

\* One member, in ascending order, under a shared user_conn_mutex_.
DeliverToMember(n) ==
  \E u \in deliverTo[n] :
    LET d == userConnMap[n][u] IN
    /\ subAt[n] = "deliver" /\ \A v \in deliverTo[n] : u <= v
    /\ deliverTo' = [deliverTo EXCEPT ![n] = @ \ {u}]
    /\ IF d # NoConn THEN Send(d, Head(channel[n]).msg, u) ELSE UNCHANGED sent
    /\ UNCHANGED <<clientVars, threadVars, userConnMap, groupVars, failedQueue, dbVars,
                   nextMsg, published, acked, forgotten, budget, redisVars>>

\* Mutant: the message is dispatched again by the next consume().
DispatchDoneRedelivers(n) ==
  /\ subAt[n] = "deliver" /\ deliverTo[n] = {}
  /\ subAt' = [subAt EXCEPT ![n] = "swap"]
  /\ UNCHANGED <<clientVars, threadVars, userConnMap, quietVars, budget, presence,
                 friendsCache, subTasks, subGroupSet, batch, channel>>

\* Mutant: the lock on groupMembers_ is not released.
DispatchDoneKeepsLock(n) ==
  /\ subAt[n] = "deliver" /\ deliverTo[n] = {} /\ channel[n] # <<>>
  /\ channel' = [channel EXCEPT ![n] = Tail(@)]
  /\ UNCHANGED <<clientVars, threadVars, userConnMap, quietVars, budget, presence,
                 friendsCache, subTasks, subGroupSet, batch, subAt>>

DispatchDone(n) ==
  /\ subAt[n] = "deliver" /\ deliverTo[n] = {}
  /\ subAt' = [subAt EXCEPT ![n] = "swap"]
  /\ channel' = [channel EXCEPT ![n] = Tail(@)]
  /\ UNCHANGED <<clientVars, threadVars, userConnMap, quietVars, budget, presence,
                 friendsCache, subTasks, subGroupSet, batch>>

SubscriberLoop(n) ==
  /\ \/ (ConsumeNothing(n) \/ SwapTasks(n) \/ RunTask(n) \/ TasksDone(n) \/ DropAll(n)) /\ NoFault
     \/ (DropTask(n) \/ SubscriberBreaks(n)) /\ Fault("pubsub")
  /\ UNCHANGED <<clientVars, threadVars, userConnMap, quietVars, presence, friendsCache>>

-----------------------------------------------------------------------------
(* The environment: keys of Redis expire; a node crashes and is started    *)
(* again by its operator (SIGINT runs resetState, which clears a column    *)
(* nothing reads, and nothing in Redis).                                   *)

PresenceExpires(u) ==
  /\ presence[u].ttl /\ Spend("ttl")
  /\ presence' = [presence EXCEPT ![u] = NoHash]
  /\ UNCHANGED <<clientVars, threadVars, userConnMap, quietVars, friendsCache, subVars>>

FriendsExpire(u) ==
  /\ friendsCache[u] # {} /\ Spend("ttl")
  /\ friendsCache' = [friendsCache EXCEPT ![u] = {}]
  /\ UNCHANGED <<clientVars, threadVars, userConnMap, quietVars, presence, subVars>>

\* f with its value at every argument in S replaced by x.
Override(f, S, x) == [i \in DOMAIN f |-> IF i \in S THEN x ELSE f[i]]

Crash(n) ==
  LET gone == {c \in Conns : Node(c) = n} IN
  /\ Spend("crash")
  /\ link' = Override(link, gone, "closed")
  /\ session' = Override(session, gone, NoUser)
  /\ friendList' = Override(friendList, gone, {})
  /\ pc' = Override(pc, gone, "idle")
  /\ uid' = Override(uid, gone, NoUser)
  /\ req' = Override(req, gone, NoReq)
  /\ userConnMap' = [userConnMap EXCEPT ![n] = [u \in Users |-> NoConn]]
  /\ groupEntries' = [groupEntries EXCEPT ![n] = {}]
  /\ groupMembers' = [groupMembers EXCEPT ![n] = [g \in GroupIds |-> {}]]
  /\ deliverTo' = [deliverTo EXCEPT ![n] = {}]
  /\ failedQueue' = [failedQueue EXCEPT ![n] = <<>>]
  /\ subTasks' = [subTasks EXCEPT ![n] = <<>>]
  /\ subGroupSet' = [subGroupSet EXCEPT ![n] = {}]
  /\ batch' = [batch EXCEPT ![n] = <<>>]
  /\ subAt' = [subAt EXCEPT ![n] = "consume"]
  /\ channel' = [channel EXCEPT ![n] = <<>>]
  /\ forgotten' = forgotten \cup {failedQueue[n][i].msg : i \in DOMAIN failedQueue[n]}
  /\ UNCHANGED <<dbVars, nextMsg, published, sent, acked, presence, friendsCache>>

-----------------------------------------------------------------------------
\* The servers start with an empty Redis and whatever the database holds.
Init ==
  /\ RedisInit
  /\ link = [c \in Conns |-> "closed"]
  /\ session = [c \in Conns |-> NoUser]
  /\ friendList = [c \in Conns |-> {}]
  /\ pc = [c \in Conns |-> "idle"]
  /\ uid = [c \in Conns |-> NoUser]
  /\ req = [c \in Conns |-> NoReq]
  /\ userConnMap = [n \in Nodes |-> [u \in Users |-> NoConn]]
  /\ groupEntries = [n \in Nodes |-> {}]
  /\ groupMembers = [n \in Nodes |-> [g \in GroupIds |-> {}]]
  /\ deliverTo = [n \in Nodes |-> {}]
  /\ failedQueue = [n \in Nodes |-> <<>>]
  /\ allGroup = {row[1] : row \in GroupRows} /\ groupUser = GroupRows
  /\ friendTable = FriendRows /\ offlineMessage = <<>>
  /\ nextMsg = 1 /\ published = <<>> /\ acked = {} /\ forgotten = {}
  /\ sent = [c \in Conns |-> <<>>]
  /\ budget = Budget

\* The steps a handler takes by itself once it has started.
LoginStep(c) ==
  \/ CheckOnline(c) \/ InsertConn(c) \/ setUserOnline(c)
  \/ FriendsCached(c) \/ QueryFriends(c) \/ CacheFriends(c)
  \/ QueryGroups(c) \/ LoginGroupEntry(c) \/ LoginGroupSubscribe(c) \/ LoginAck(c)
LogoutStep(c) == EraseConn(c) \/ setUserOffline(c) \/ LeaveGroups(c)
GroupStep(c) ==
  \/ createGroupRow(c) \/ joinGroupRow(c) \/ AddLocalMember(c) \/ SubscribeGroup(c)
  \/ LookupGroup(c) \/ LoadGroup(c) \/ FillGroup(c) \/ PublishGroup(c)
ChatStep(c) ==
  RouteChat(c) \/ StoreChat(c) \/ DrainQueue(c) \/ InsertOwn(c) \/ QueueChat(c)
HandlerStep(c) == LoginStep(c) \/ LogoutStep(c) \/ GroupStep(c) \/ ChatStep(c)

\* The requests of the client.
Request(c) ==
  \/ Logout(c)
  \/ \E u \in Users :
       \/ Login(c, u)
       \/ "oneChat" \in Requests /\ OneChat(c, u)
       \/ "addFriend" \in Requests /\ AddFriend(c, u)
  \/ "createGroup" \in Requests /\ CreateGroup(c)
  \/ \E g \in Groups :
       \/ "joinGroup" \in Requests /\ JoinGroup(c, g)
       \/ "groupChat" \in Requests /\ GroupChat(c, g)

Deliver(n) == Dispatch(n) \/ DeliverToMember(n) \/ DispatchDone(n)
Environment ==
  \/ \E u \in Users : PresenceExpires(u) \/ FriendsExpire(u)
  \/ \E n \in Nodes : Crash(n)

Next ==
  \/ \E c \in Conns : Connect(c) \/ ClientClose(c) \/ clientQuitEcption(c)
                      \/ Request(c) \/ HandlerStep(c)
  \/ \E n \in Nodes : Deliver(n) \/ SubscriberLoop(n)
  \/ Environment

Spec == Init /\ [][Next]_vars

\* An IO thread finishes its handlers and notices closed connections; the
\* subscriber thread keeps looping, and messages wait for it in a socket that
\* SUBSCRIBE replies, of which there are finitely many, may precede (hence
\* strong fairness of Deliver); no client, operator or fault is forced to act.
Fairness ==
  /\ \A c \in Conns : WF_vars(HandlerStep(c)) /\ WF_vars(clientQuitEcption(c))
  /\ \A n \in Nodes : SF_vars(Deliver(n)) /\ WF_vars(SubscriberLoop(n))

FairSpec == Spec /\ Fairness

-----------------------------------------------------------------------------
(* Properties.                                                             *)

\* Every variable has its type.
TypeOK ==
  /\ link \in [Conns -> {"up", "closing", "closed"}]
  /\ session \in [Conns -> Users \cup {NoUser}]
  /\ friendList \in [Conns -> SUBSET Users]
  /\ pc \in [Conns -> Labels]
  /\ uid \in [Conns -> Users \cup {NoUser}]
  /\ req \in [Conns -> Req]
  /\ userConnMap \in [Nodes -> [Users -> Conns \cup {NoConn}]]
  /\ groupEntries \in [Nodes -> SUBSET GroupIds]
  /\ groupMembers \in [Nodes -> [GroupIds -> SUBSET Users]]
  /\ deliverTo \in [Nodes -> SUBSET Users]
  /\ failedQueue \in [Nodes -> Seq(Item)]
  /\ allGroup \subseteq Groups /\ groupUser \subseteq Groups \X Users
  /\ friendTable \subseteq Users \X Users /\ offlineMessage \in Seq(Row)
  /\ nextMsg \in 1..(MaxMsgs + 1) /\ published \in Seq(Msgs)
  /\ sent \in [Conns -> Seq(Copy)]
  /\ acked \subseteq Msgs /\ forgotten \subseteq Msgs
  /\ budget \in [Events -> Nat \cup {Always}]
  /\ presence \in [Users -> Hash] /\ friendsCache \in [Users -> SUBSET Users]
  /\ subTasks \in [Nodes -> Seq(Task)] /\ batch \in [Nodes -> Seq(Task)]
  /\ subGroupSet \in [Nodes -> SUBSET GroupIds]
  /\ subAt \in [Nodes -> {"consume", "deliver", "swap", "run", "dead"}]
  /\ channel \in [Nodes -> Seq([msg: Msgs, group: GroupIds])]

\* What stands behind an entry of node n that stores connection c for user u.
Backs(c, n, u) ==
  /\ Node(c) = n /\ link[c] # "closed"
  /\ \/ session[c] = u
     \/ session[c] = NoUser /\ uid[c] = u /\ pc[c] \in AfterInsert \cup {"erase"}
     \/ session[c] = NoUser /\ link[c] = "closing"

\* An entry of userConnMap_ is never left behind: it holds a connection of its
\* own node that is not closed, and behind it stands the session of that very
\* user, a login or logout of that user running on the connection, or a close
\* that clientQuitEcption has yet to handle.  (For requests that arrive whole: the
\* entry a lost loginout leaves behind is in ClientSession!EntryExplained.)
EntryIsBacked ==
  \A n \in Nodes, u \in Users :
    userConnMap[n][u] # NoConn => Backs(userConnMap[n][u], n, u)

\* No connection is stored for two users, so that the loop of clientQuitEcption may
\* stop at the first entry it finds, as long as every loginout arrives whole: after
\* a lost one the client logs in as another user and has two entries, of which a
\* quit erases one (ClientSession!QuitForgets counts them).
OneEntryPerConn ==
  \A n \in Nodes, u, v \in Users :
    userConnMap[n][u] # NoConn /\ userConnMap[n][u] = userConnMap[n][v] => u = v

\* No node has crashed, as far as a budget can tell.
NoCrash == Budget.crash # Always /\ budget.crash = Budget.crash

\* Users whose presence hash nothing will ever expire: it has no TTL and no login
\* of the user is on its way to EXPIRE.
Lasting ==
  {u \in Users : /\ presence[u].fields # {} /\ ~presence[u].ttl
                 /\ \A c \in Conns : uid[c] = u => pc[c] \notin OnlineSteps \ {"on_online"}}

\* A vanished client does not lock its account for ever: however logins, logouts and
\* quits of one user on several connections interleave with the expiry of the hash,
\* it takes a failed call to Redis for each user that is left with a hash without
\* TTL (or the crash of a node between HSET and EXPIRE).
LastingNeedsFailure ==
  NoCrash /\ Budget.redis # Always => Cardinality(Lasting) <= Budget.redis - budget.redis

\* Whatever is written to a connection was meant for the user logged in there,
\* if one is (for requests that arrive whole: what a lost loginout does to the
\* messages of the next user is ClientSession!ShownToOwner).
NoMisdelivery ==
  \A c \in Conns : \A i \in DOMAIN sent[c] : sent[c][i].as \in {sent[c][i].for, NoUser}

\* The position of message m in the order Redis published the group messages.
PublishedAt(m) == CHOOSE i \in DOMAIN published : published[i] = m

\* A connection gets the group messages in the order Redis published them, and
\* one message twice only when its client changed from one member to another
\* while the callback was walking the set.
GroupOrder ==
  \A c \in Conns : \A i, j \in DOMAIN sent[c] :
    LET a == sent[c][i]  b == sent[c][j] IN
    i < j /\ {a.msg, b.msg} \subseteq Range(published) =>
      \/ PublishedAt(a.msg) < PublishedAt(b.msg)
      \/ a.msg = b.msg /\ a.for # b.for

\* The places that hold one-to-one message m: connections it was handed to, rows
\* whose INSERT was answered, and items of the nodes' queues.
Written(m) ==
  {p \in UNION {{c} \X DOMAIN sent[c] : c \in Conns} : sent[p[1]][p[2]].msg = m}
Stored(m) ==
  {i \in DOMAIN offlineMessage : offlineMessage[i].msg = m /\ offlineMessage[i].answered}
Retained(m) ==
  {p \in UNION {{n} \X DOMAIN failedQueue[n] : n \in Nodes} : failedQueue[p[1]][p[2]].msg = m}
Copies(m) == Cardinality(Written(m)) + Cardinality(Stored(m)) + Cardinality(Retained(m))

\* A one-to-one message whose sender was told errno 0 was handed to one connection,
\* or has one row whose INSERT was answered, or waits in one queue, and only one of
\* the three, through retries, partial drains by other threads and crashes; it is
\* in none of them only if a node crashed with the message in its failedQueue_.
\* Every further row of it is one whose INSERT ran and threw.  errno 0 promises no
\* more: the connection may belong to a client that is gone.
AckedOnce == \A m \in acked : Copies(m) = IF m \in forgotten THEN 0 ELSE 1

\* Every handler returns: group_mutex_, which the inbox callback holds while it walks
\* the members, and queueMutex_, which is held while failedQueue_ is drained, are
\* given up again, by an exception too.  It needs MySQL statements that stop to
\* throw: oneChat with one that always throws never returns (OfflineMessage!InsertReturns).
HandlersReturn == \A c \in Conns : pc[c] # "idle" ~> pc[c] = "idle"

\* After a connection broke, every entry that holds it disappears.
BrokenIsForgotten ==
  \A c \in Conns : link[c] = "closing" ~> \A u \in Users : userConnMap[Node(c)][u] # c

Queued(n, g, type) ==
  [type |-> type, group |-> g] \in Range(subTasks[n]) \cup Range(batch[n])

\* A queued Subscribe takes effect, as long as no command of the subscriber fails
\* and its connection lives.
SubscribeTakesEffect ==
  \A n \in Nodes, g \in GroupIds : Queued(n, g, "Subscribe") ~> g \in subGroupSet[n]

Waiting(n, g, m) == [msg |-> m, group |-> g] \in Range(channel[n])

\* A message Redis delivered to a node reaches every user of the group's local
\* set who stays in the set and on his connection, unless the connection of the
\* subscriber breaks.
ReachesLocalMember ==
  \A c \in Conns, u \in Users, g \in Groups, m \in Msgs :
    Waiting(Node(c), g, m) /\ u \in groupMembers[Node(c)][g] /\ userConnMap[Node(c)][u] = c
    ~> \/ \E i \in DOMAIN sent[c] : sent[c][i].msg = m
       \/ u \notin groupMembers[Node(c)][g]
       \/ userConnMap[Node(c)][u] # c
       \/ subAt[Node(c)] = "dead"

-----------------------------------------------------------------------------
(* What comments and documents of the repository say and the code does not *)
(* do; each is refuted by a run of its own.                                *)

\* "该账号已经登陆，请重新输入账号" (chatservice.cpp:109): an account is logged
\* in once.
SingleSession ==
  \A c, d \in Conns : session[c] # NoUser /\ session[c] = session[d] => c = d

\* "ensure node subscribes to this group channel" (chatservice.cpp:502): once no
\* handler runs on a node and no task is queued there, the node listens to the
\* groups of its local members.
MemberIsSubscribed ==
  \A n \in Nodes, g \in Groups :
    /\ \A c \in Conns : Node(c) = n => pc[c] = "idle"
    /\ subTasks[n] = <<>> /\ batch[n] = <<>>
    /\ groupMembers[n][g] # {}
    => g \in subGroupSet[n]

===============================================================================
