---------------------------- MODULE ChatMessageProofs ----------------------------
(***************************************************************************)
(* What becomes of the messages of ChatService: group messages keep the    *)
(* order Redis gave them, and a one-to-one message whose sender was told   *)
(* errno 0 is in exactly one place, unless a crash took it along.  The     *)
(* invariant adds to DeliveryInv that a message is carried by one handler  *)
(* until it is published or answered, and by none after.                   *)
(***************************************************************************)
EXTENDS ChatDeliveryProofs

\* The message the handler of c has yet to publish, write or store.
Carried(c) == IF pc[c] \in WithMsg THEN {req[c].msg} ELSE {}

\* The messages that were published or answered.
Spent == acked \cup Range(published)

\* A message is carried by one handler, and by none once it is spent; it is not
\* both published and answered.
CarryInv ==
  /\ \A c \in Conns : \A m \in Carried(c) : m < nextMsg /\ m \notin Spent
  /\ \A c, d \in Conns : c # d => Carried(c) \cap Carried(d) = {}
  /\ \A m \in Spent : m < nextMsg
  /\ acked \cap Range(published) = {}

\* Message m is at position i of what was written to c, of the table (as a row whose
\* INSERT was answered), of the queue of n.
OnConn(m, c, i) == c \in Conns /\ i \in DOMAIN sent[c] /\ sent[c][i].msg = m
InTable(m, i) == i \in DOMAIN offlineMessage /\ offlineMessage[i].msg = m /\ offlineMessage[i].answered
InQueue(m, n, i) == n \in Nodes /\ i \in DOMAIN failedQueue[n] /\ failedQueue[n][i].msg = m

\* What is on a channel, a connection, in the table or a queue is spent, and so is
\* what was lost with a queue.
HeldInv ==
  /\ \A n \in Nodes : \A k \in DOMAIN channel[n] : channel[n][k].msg \in Range(published)
  /\ \A c \in Conns : \A i \in DOMAIN sent[c] : sent[c][i].msg \in Spent
  /\ \A m, i : InTable(m, i) => m \in acked
  /\ \A n \in Nodes : \A i \in DOMAIN failedQueue[n] : failedQueue[n][i].msg \in acked
  /\ forgotten \subseteq acked

\* Message a comes before message b in sequence s, if both are in it.
Precedes(s, a, b) == \A p, q \in DOMAIN s : s[p] = a /\ s[q] = b => p < q

\* Copy x is of the message at the head of the channel of n, which the callback
\* has served to x's user.
JustServed(x, n, k) ==
  k = 1 /\ x.msg = channel[n][1].msg /\ subAt[n] = "deliver" /\ x.for \notin deliverTo[n]

\* No message is published twice.
PublishedOnce == \A p, q \in DOMAIN published : published[p] = published[q] => p = q

\* The channel of n is in the order of publication.
ChannelOrder(n) ==
  \A i, j \in DOMAIN channel[n] : i < j => Precedes(published, channel[n][i].msg, channel[n][j].msg)

\* What was written to c comes before what is on the channel of its node.
Ahead(c) ==
  \A i \in DOMAIN sent[c], k \in DOMAIN channel[Node(c)] :
    \/ Precedes(published, sent[c][i].msg, channel[Node(c)][k].msg)
    \/ JustServed(sent[c][i], Node(c), k)

\* What was written to c is in the order of publication, copies of one message
\* being for different users.
WrittenInOrder(c) ==
  \A i, j \in DOMAIN sent[c] :
    i < j => \/ Precedes(published, sent[c][i].msg, sent[c][j].msg)
             \/ sent[c][i].msg = sent[c][j].msg /\ sent[c][i].for # sent[c][j].for

OrderInv ==
  /\ PublishedOnce
  /\ \A n \in Nodes : ChannelOrder(n)
  /\ \A c \in Conns : Ahead(c) /\ WrittenInOrder(c)

NotOnConn(m) == \A c, i : ~OnConn(m, c, i)
NotInTable(m) == \A i : ~InTable(m, i)
NotInQueue(m) == \A n, i : ~InQueue(m, n, i)
OneOnConn(m) == \E c, i : \A d, j : OnConn(m, d, j) <=> d = c /\ j = i
OneInTable(m) == \E i : \A j : InTable(m, j) <=> j = i
OneInQueue(m) == \E n, i : \A k, j : InQueue(m, k, j) <=> k = n /\ j = i

\* Message m is in one place.
InOnePlace(m) ==
  \/ OneOnConn(m) /\ NotInTable(m) /\ NotInQueue(m)
  \/ NotOnConn(m) /\ OneInTable(m) /\ NotInQueue(m)
  \/ NotOnConn(m) /\ NotInTable(m) /\ OneInQueue(m)

Nowhere(m) == NotOnConn(m) /\ NotInTable(m) /\ NotInQueue(m)

\* An answered message is in one place, one that a crash took along in none.
Placed(m) == IF m \in forgotten THEN Nowhere(m) ELSE InOnePlace(m)
PlaceInv == \A m \in acked : Placed(m)

-----------------------------------------------------------------------------
(* The messages the handlers carry.                                        *)

\* No handler carries more than before.
Lightens == \A d \in Conns : Carried(d)' \subseteq Carried(d)

\* The handler of c moves on, if to a step with a message then with the one it has.
Moves(c, l) ==
  /\ pc' = [pc EXCEPT ![c] = l]
  /\ UNCHANGED req \/ \E r : req' = [req EXCEPT ![c] = r] /\ (l \in WithMsg => r.msg = req[c].msg)
  /\ l \in WithMsg => pc[c] \in WithMsg

\* A handler that moves on carries what it carried, or nothing.
LEMMA MovesLightens ==
  ASSUME SessionType, RequestInv, NEW c \in Conns, NEW l, Moves(c, l)
  PROVE  Lightens
<1>1. \A d \in Conns : pc'[d] = IF d = c THEN l ELSE pc[d]
  BY DEF Moves, SessionType
<1>2. \A d \in Conns : d # c => req'[d] = req[d]
  BY DEF Moves, RequestInv
<1>3. l \in WithMsg => req'[c].msg = req[c].msg
  BY DEF Moves, RequestInv
<1> SUFFICES ASSUME NEW d \in Conns PROVE Carried(d)' \subseteq Carried(d)
  BY DEF Lightens
<1>4. CASE d = c
  BY <1>1, <1>3, <1>4 DEF Carried, Moves
<1>5. CASE d # c
  BY <1>1, <1>2, <1>5 DEF Carried
<1> QED  BY <1>4, <1>5

\* Nothing is taken up where no handler moves.
LEMMA RestLightens ==
  ASSUME UNCHANGED threadVars
  PROVE  Lightens
BY DEF Lightens, Carried, threadVars

\* The handlers of login and logout carry nothing.
LEMMA LoginLightens ==
  ASSUME SessionType, RequestInv, NEW c \in Conns, LoginStep(c) \/ LogoutStep(c)
  PROVE  Lightens
<1> SUFFICES \E l : Moves(c, l)
  BY MovesLightens
<1> DEFINE Free == AfterInsert \cup AfterErase \cup {"insert"}
           GoesOn == Return(c) \/ \E l \in Free : Jump(c, l) \/ \E r : JumpWith(c, l, r)
<1>1. ASSUME NEW l, l \notin WithMsg, Jump(c, l) \/ \E r : JumpWith(c, l, r) PROVE Moves(c, l)
  BY <1>1 DEF Moves, Jump, JumpWith
<1>2. Return(c) => Moves(c, "idle")
  BY DEF Moves, Return, WithMsg, WithPeer
<1>3. Free \cap WithMsg = {}
  BY DEF AfterInsert, AfterErase, OnlineSteps, OfflineSteps, WithMsg, WithPeer
<1> SUFFICES GoesOn
  BY <1>1, <1>2, <1>3
<1>4. /\ {"insert", "on_online", "on_node", "on_conn", "on_expire", "friends", "query_friends"} \subseteq Free
      /\ {"cache_friends", "groups", "entry", "entry_sub", "ack"} \subseteq Free
      /\ {"off_online", "off_conn", "off_node", "leave"} \subseteq Free
  BY DEF AfterInsert, AfterErase, OnlineSteps, OfflineSteps
<1> HIDE DEF Free
<1>5. CASE CheckOnline(c) \/ InsertConn(c) \/ setUserOnline(c)
  BY <1>4, <1>5 DEF CheckOnline, InsertConn, setUserOnline
<1>6. CASE FriendsCached(c) \/ QueryFriends(c) \/ CacheFriends(c)
  BY <1>4, <1>6 DEF FriendsCached, QueryFriends, CacheFriends
<1>7. CASE QueryGroups(c) \/ LoginGroupEntry(c)
  BY <1>4, <1>7 DEF QueryGroups, LoginGroupEntry
<1>8. CASE LoginGroupSubscribe(c) \/ LoginAck(c)
  BY <1>4, <1>8 DEF LoginGroupSubscribe, LoginAck
<1>9. CASE LogoutStep(c)
  BY <1>4, <1>9 DEF LogoutStep, EraseConn, setUserOffline, LeaveGroups
<1> QED  BY <1>5, <1>6, <1>7, <1>8, <1>9 DEF LoginStep

\* Those of chats and groups keep the message they started with.
LEMMA ChattingLightens ==
  ASSUME SessionType, RequestInv, NEW c \in Conns, GroupStep(c) \/ ChatStep(c)
  PROVE  Lightens
<1> SUFFICES UNCHANGED threadVars \/ \E l : Moves(c, l)
  BY MovesLightens, RestLightens
<1> USE DEF Moves, WithMsg, WithPeer, Jump, JumpWith, Return, At
<1>1. CASE createGroupRow(c) \/ joinGroupRow(c)
  BY <1>1 DEF createGroupRow, joinGroupRow
<1>2. CASE AddLocalMember(c) \/ SubscribeGroup(c)
  BY <1>2 DEF AddLocalMember, SubscribeGroup
<1>3. CASE LookupGroup(c)
  BY <1>3 DEF LookupGroup
<1>4. CASE LoadGroup(c)
  <2>1. PICK S \in SUBSET Users : S = queryGroupUsers(uid[c], req[c].group)
    BY DEF queryGroupUsers
  <2>2. \/ JumpWith(c, "fill", [req[c] EXCEPT !.users = S])
        \/ Jump(c, "fill")
    BY <1>4, <2>1 DEF LoadGroup
  <2>3. [req[c] EXCEPT !.users = S].msg = req[c].msg
    BY ReqUpdates DEF RequestInv
  <2>4. pc[c] = "load"
    BY <1>4 DEF LoadGroup
  <2> QED  BY <2>2, <2>3, <2>4
<1>5. CASE FillGroup(c) \/ PublishGroup(c)
  BY <1>5 DEF FillGroup, PublishGroup
<1>6. CASE RouteChat(c) \/ StoreChat(c)
  BY <1>6 DEF RouteChat, StoreChat
<1>7. CASE DrainQueue(c) \/ InsertOwn(c) \/ QueueChat(c)
  BY <1>7 DEF DrainQueue, InsertOwn, QueueChat, InsertThrows, Answer
<1> QED  BY <1>1, <1>2, <1>3, <1>4, <1>5, <1>6, <1>7 DEF GroupStep, ChatStep

\* The next message is given to the handler of c, or refused.
Issues(c) ==
  /\ nextMsg' = nextMsg + 1
  /\ Carried(c)' \subseteq {nextMsg} /\ Carried(c) = {}
  /\ \A d \in Conns \ {c} : Carried(d)' = Carried(d)
  /\ UNCHANGED <<published, sent, acked, forgotten, offlineMessage, failedQueue, channel, deliverTo, subAt>>

\* A chat or group message is sent by a client whose last handler returned.
LEMMA ChatIssues ==
  ASSUME DeliveryInv, NEW c \in Conns,
         (\E v \in Users : OneChat(c, v)) \/ (\E g \in Groups : GroupChat(c, g))
  PROVE  Issues(c)
<1>0. /\ SessionType /\ RequestInv /\ pc[c] = "idle" /\ nextMsg' = nextMsg + 1
      /\ UNCHANGED <<published, sent, acked, forgotten, offlineMessage, failedQueue, channel, deliverTo, subAt>>
  BY DEF DeliveryInv, SessionInv, OneChat, GroupChat, LoggedIn, Ready, dbVars, redisVars, subVars
<1>1. Carried(c) = {}
  BY <1>0 DEF Carried, WithMsg, WithPeer
<1>2. CASE UNCHANGED threadVars
  BY <1>0, <1>1, <1>2 DEF Issues, Carried, threadVars
<1>3. ASSUME NEW r, NEW l, Start(c, l, session[c], r), r.msg = nextMsg PROVE Issues(c)
  <2>1. \A d \in Conns : d # c => pc'[d] = pc[d] /\ req'[d] = req[d]
    BY <1>0, <1>3 DEF Start, SessionType, RequestInv
  <2>2. pc'[c] = l /\ req'[c] = r
    BY <1>0, <1>3 DEF Start, SessionType, RequestInv
  <2> QED  BY <1>0, <1>1, <1>3, <2>1, <2>2 DEF Issues, Carried
<1>4. ASSUME NEW v \in Users, OneChat(c, v) PROVE Issues(c)
  <2>1. [NoReq EXCEPT !.peer = v, !.msg = nextMsg].msg = nextMsg
    BY DEF NoReq
  <2> QED  BY <1>2, <1>3, <1>4, <2>1 DEF OneChat
<1>5. ASSUME NEW g \in Groups, GroupChat(c, g) PROVE Issues(c)
  <2>1. [NoReq EXCEPT !.group = g, !.msg = nextMsg].msg = nextMsg
    BY DEF NoReq
  <2> QED  BY <1>3, <1>5, <2>1 DEF GroupChat
<1> QED  BY <1>4, <1>5

\* Every other step lightens.
LEMMA NextLightens ==
  ASSUME DeliveryInv, Next
  PROVE  Lightens \/ \E c \in Conns : Issues(c)
<1>0. SessionType /\ RequestInv
  BY DEF DeliveryInv, SessionInv
<1>1. ASSUME NEW c \in Conns, NEW l, NEW u, NEW r, Start(c, l, u, r), l \notin WithMsg PROVE Lightens
  <2>1. Moves(c, l)
    BY <1>1 DEF Start, Moves
  <2> QED  BY <1>0, <2>1, MovesLightens
<1>2. ASSUME NEW c \in Conns, Connect(c) \/ ClientClose(c) \/ clientQuitEcption(c) PROVE Lightens
  BY <1>1, <1>2, RestLightens DEF Connect, ClientClose, clientQuitEcption, WithMsg, WithPeer
<1>3. ASSUME NEW c \in Conns, HandlerStep(c) PROVE Lightens
  BY <1>0, <1>3, LoginLightens, ChattingLightens DEF HandlerStep
<1>4. ASSUME NEW c \in Conns, Request(c) PROVE Lightens \/ Issues(c)
  <2>1. CASE Logout(c) \/ CreateGroup(c)
    BY <1>1, <2>1 DEF Logout, CreateGroup, WithMsg, WithPeer
  <2>2. ASSUME NEW u \in Users, Login(c, u) PROVE Lightens
    BY <1>1, <2>2 DEF Login, WithMsg, WithPeer
  <2>3. ASSUME NEW u \in Users, AddFriend(c, u) PROVE Lightens
    BY <2>3, RestLightens DEF AddFriend
  <2>4. ASSUME NEW g \in Groups, JoinGroup(c, g) PROVE Lightens
    BY <1>1, <2>4 DEF JoinGroup, WithMsg, WithPeer
  <2> QED  BY <1>4, <2>1, <2>2, <2>3, <2>4, ChatIssues DEF Request
<1>5. ASSUME NEW n \in Nodes, Deliver(n) \/ SubscriberLoop(n) PROVE Lightens
  BY <1>5, RestLightens DEF Deliver, Dispatch, DeliverToMember, DispatchDone, SubscriberLoop
<1>6. ASSUME NEW u \in Users, PresenceExpires(u) \/ FriendsExpire(u) PROVE Lightens
  BY <1>6, RestLightens DEF PresenceExpires, FriendsExpire
<1>7. ASSUME NEW n \in Nodes, Crash(n) PROVE Lightens
  <2> DEFINE gone == {c \in Conns : Node(c) = n}
  <2>1. pc' = Override(pc, gone, "idle") /\ req' = Override(req, gone, NoReq)
    BY <1>7 DEF Crash
  <2> HIDE DEF gone
  <2>2. \A c \in Conns : pc'[c] = IF c \in gone THEN "idle" ELSE pc[c]
    BY <1>0, <2>1 DEF Override, SessionType
  <2>3. \A c \in Conns : req'[c] = IF c \in gone THEN NoReq ELSE req[c]
    BY <1>0, <2>1 DEF Override, RequestInv
  <2> QED  BY <2>2, <2>3 DEF Lightens, Carried, WithMsg, WithPeer
<1> QED  BY <1>2, <1>3, <1>4, <1>5, <1>6, <1>7 DEF Next, Environment


-----------------------------------------------------------------------------
(* The steps that move messages.                                           *)

\* The table gains no answered row; or one, of message x, as row k.
SameTable == \A m, i : InTable(m, i)' <=> InTable(m, i)
TableGains(k, x) == \A m, i : InTable(m, i)' <=> InTable(m, i) \/ (i = k /\ m = x)

\* Message x joins the queue of n.
QueueGains(n, x) == \E y \in Item : y.msg = x /\ failedQueue' = [failedQueue EXCEPT ![n] = Append(@, y)]

\* Nothing moves, and a callback that is running goes on.
RestStep ==
  /\ SameTable /\ UNCHANGED <<nextMsg, published, sent, acked, forgotten, failedQueue, channel>>
  /\ \A n \in Nodes : subAt[n] = "deliver" => subAt'[n] = "deliver" /\ deliverTo'[n] = deliverTo[n]

\* The handler of c is done with its message.
Completes(c) ==
  /\ Lightens /\ Carried(c) = {req[c].msg} /\ Carried(c)' = {} /\ req[c].msg \in Msgs
  /\ UNCHANGED <<nextMsg, deliverTo, subAt>>

\* It was published, with group g.
Publishes(c) ==
  /\ Completes(c)
  /\ published' = Append(published, req[c].msg)
  /\ \E g \in GroupIds : publishGroupMessage(req[c].msg, g)
  /\ SameTable /\ UNCHANGED <<sent, acked, forgotten, failedQueue>>

\* It was written to the recipient's connection.
Writes(c) ==
  /\ Completes(c)
  /\ acked' = acked \cup {req[c].msg}
  /\ \E d \in Conns, x \in Copy : x.msg = req[c].msg /\ sent' = [sent EXCEPT ![d] = Append(@, x)]
  /\ SameTable /\ UNCHANGED <<published, channel, forgotten, failedQueue>>

\* It went to the table or to the queue of its node.
Stores(c) ==
  /\ Completes(c)
  /\ acked' = acked \cup {req[c].msg}
  /\ \/ UNCHANGED failedQueue /\ \E k : TableGains(k, req[c].msg)
     \/ SameTable /\ \E n \in Nodes : QueueGains(n, req[c].msg)
  /\ UNCHANGED <<published, channel, sent, forgotten>>

\* The first message of a queue went to the table.
Drains(n) ==
  /\ failedQueue[n] # <<>> /\ failedQueue' = [failedQueue EXCEPT ![n] = Tail(@)]
  /\ \E k : TableGains(k, Head(failedQueue[n]).msg)
  /\ UNCHANGED <<nextMsg, published, sent, acked, forgotten, channel, deliverTo, subAt>>

\* The callback serves a member, who may have no connection.
Serves(n) ==
  \E u \in deliverTo[n] :
    /\ subAt[n] = "deliver" /\ deliverTo' = [deliverTo EXCEPT ![n] = @ \ {u}]
    /\ \/ UNCHANGED sent
       \/ \E d \in Conns, x \in Copy : /\ x.msg = Head(channel[n]).msg /\ x.for = u /\ Node(d) = n
                                      /\ sent' = [sent EXCEPT ![d] = Append(@, x)]
    /\ SameTable /\ UNCHANGED <<nextMsg, published, acked, forgotten, failedQueue, channel, subAt>>

\* It is done.
Served(n) ==
  /\ subAt[n] = "deliver" /\ subAt' = [subAt EXCEPT ![n] = "swap"]
  /\ channel' = [channel EXCEPT ![n] = Tail(@)]
  /\ SameTable /\ UNCHANGED <<nextMsg, published, sent, acked, forgotten, failedQueue, deliverTo>>

\* The subscriber of n lost its connection.
Breaks(n) ==
  /\ subAt' = [subAt EXCEPT ![n] = "dead"] /\ channel' = [channel EXCEPT ![n] = <<>>]
  /\ SameTable /\ UNCHANGED <<nextMsg, published, sent, acked, forgotten, failedQueue, deliverTo>>

\* What a crash takes along.
Crashes(n) ==
  /\ failedQueue' = [failedQueue EXCEPT ![n] = <<>>]
  /\ forgotten' = forgotten \cup {failedQueue[n][i].msg : i \in DOMAIN failedQueue[n]}
  /\ subAt' = [subAt EXCEPT ![n] = "consume"]
  /\ channel' = [channel EXCEPT ![n] = <<>>]
  /\ deliverTo' = [deliverTo EXCEPT ![n] = {}]
  /\ SameTable /\ UNCHANGED <<nextMsg, published, sent, acked>>

\* A table that is not written to.
LEMMA TableStands ==
  ASSUME UNCHANGED offlineMessage
  PROVE  SameTable
BY DEF SameTable, InTable

\* A handler that returns carries nothing any more.
LEMMA ReturnCompletes ==
  ASSUME SessionType, RequestInv, NEW c \in Conns, pc[c] \in WithMsg, Return(c), Lightens,
         UNCHANGED <<nextMsg, deliverTo, subAt>>
  PROVE  Completes(c)
<1>1. pc'[c] = "idle"
  BY DEF Return, SessionType
<1> QED  BY <1>1 DEF Completes, Carried, WithMsg, WithPeer, RequestInv

\* The message of a group chat is published, or Redis failed.
LEMMA PublishKinds ==
  ASSUME DeliveryInv, NEW c \in Conns, PublishGroup(c)
  PROVE  RestStep \/ Publishes(c)
<1>0. SessionType /\ RequestInv /\ GroupStep(c) /\ Return(c) /\ pc[c] \in WithMsg
  BY DEF DeliveryInv, SessionInv, GroupStep, PublishGroup, At, WithMsg, WithPeer
<1>1. SameTable /\ UNCHANGED <<nextMsg, sent, acked, forgotten, failedQueue, subAt, deliverTo>>
  BY TableStands DEF PublishGroup, dbVars
<1>2. Completes(c)
  BY <1>0, <1>1, ChattingLightens, ReturnCompletes
<1>3. req[c].group \in GroupIds
  BY <1>0 DEF RequestInv, Req
<1> QED  BY <1>1, <1>2, <1>3 DEF PublishGroup, Publishes, RestStep

\* A one-to-one message is written to the recipient, or is to be stored.
LEMMA RouteKinds ==
  ASSUME DeliveryInv, NEW c \in Conns, RouteChat(c)
  PROVE  RestStep \/ Writes(c)
<1> DEFINE d == userConnMap[Node(c)][req[c].peer]
<1>0. /\ SessionType /\ RequestInv /\ ChatStep(c) /\ pc[c] \in WithMsg /\ req[c].peer \in Users
      /\ Node(c) \in Nodes /\ req[c].msg \in Msgs
  BY NodeType DEF DeliveryInv, SessionInv, ChatStep, RouteChat, At, WithMsg, RequestInv, WithPeer
<1>1. SameTable /\ UNCHANGED <<nextMsg, published, forgotten, failedQueue, channel, subAt, deliverTo>>
  BY TableStands DEF RouteChat, dbVars, redisVars, subVars
<1>2. CASE d = NoConn
  BY <1>1, <1>2 DEF RouteChat, RestStep
<1>3. CASE d # NoConn
  <2>1. d \in Conns /\ session[d] \in Users \cup {NoUser}
    BY <1>0, <1>3 DEF SessionType
  <2> DEFINE x == [msg |-> req[c].msg, for |-> req[c].peer, as |-> session[d]]
  <2>2. x \in Copy /\ x.msg = req[c].msg
    BY <1>0, <2>1 DEF Copy
  <2>3. /\ sent' = [sent EXCEPT ![d] = Append(@, x)] /\ Return(c)
        /\ acked' = acked \cup {req[c].msg}
    BY <1>3 DEF RouteChat, Send
  <2>4. Completes(c)
    BY <1>0, <1>1, <2>3, ChattingLightens, ReturnCompletes
  <2> HIDE DEF x, d
  <2> QED  BY <1>1, <2>1, <2>2, <2>3, <2>4 DEF Writes
<1> QED  BY <1>2, <1>3

\* Sequence t is s with x added, at position k.
Extends(t, s, k, x) ==
  /\ DOMAIN s \subseteq Nat /\ k \in Nat \ {0} /\ k \notin DOMAIN s
  /\ DOMAIN t = DOMAIN s \cup {k} /\ t[k] = x
  /\ \A i \in DOMAIN s : t[i] = s[i] /\ i < k

\* Append adds one element, at the end.
LEMMA AppendExtends ==
  ASSUME NEW S, NEW s \in Seq(S), NEW x \in S
  PROVE  \E k : Extends(Append(s, x), s, k, x)
<1>1. /\ Len(s) \in Nat /\ DOMAIN s = 1..Len(s) /\ DOMAIN Append(s, x) = 1..(Len(s) + 1)
      /\ Append(s, x)[Len(s) + 1] = x /\ \A i \in 1..Len(s) : Append(s, x)[i] = s[i]
  OBVIOUS
<1>2. PICK l \in Nat : l = Len(s)
  BY <1>1
<1>3. DOMAIN Append(s, x) = DOMAIN s \cup {l + 1} /\ l + 1 \notin DOMAIN s /\ \A i \in DOMAIN s : i < l + 1
  BY <1>1, <1>2
<1>4. Extends(Append(s, x), s, l + 1, x)
  BY <1>1, <1>2, <1>3 DEF Extends
<1> QED  BY <1>4

\* INSERT of an item: the row counts if it was answered.
LEMMA RowKinds ==
  ASSUME TableType, NEW x \in Item, NEW b \in BOOLEAN, InsertRow(x, b)
  PROVE  /\ ~b => SameTable
         /\ b => \E k : TableGains(k, x.msg)
<1> DEFINE new == [user |-> x.user, msg |-> x.msg, answered |-> b]
<1>1. new \in Row /\ offlineMessage \in Seq(Row) /\ offlineMessage' = Append(offlineMessage, new)
  BY DEF TableType, InsertRow, Item, Row
<1>2. new.msg = x.msg /\ new.answered = b
  OBVIOUS
<1> HIDE DEF new
<1>3. PICK k : Extends(offlineMessage', offlineMessage, k, new)
  BY <1>1, AppendExtends
<1>4. \A m, i : InTable(m, i)' <=> InTable(m, i) \/ (i = k /\ m = x.msg /\ b)
  BY <1>2, <1>3 DEF InTable, Extends
<1>5. ~b => SameTable
  BY <1>4 DEF SameTable
<1>6. b => TableGains(k, x.msg)
  BY <1>4 DEF TableGains
<1> QED  BY <1>5, <1>6

\* Draining moves the first message of the queue, or nothing.
LEMMA DrainKinds ==
  ASSUME DeliveryInv, NEW c \in Conns, DrainQueue(c)
  PROVE  RestStep \/ Drains(Node(c))
<1> DEFINE n == Node(c)
<1>0. TableType /\ n \in Nodes /\ failedQueue[n] \in Seq(Item)
  BY NodeType DEF DeliveryInv, TableType
<1>1. UNCHANGED <<nextMsg, published, sent, acked, forgotten, channel, subAt, deliverTo>>
  BY DEF DrainQueue, histVars, redisVars, subVars
<1>2. failedQueue[n] # <<>> => Head(failedQueue[n]) \in Item
  BY <1>0, HeadTailType
<1>3. CASE failedQueue[n] # <<>> /\ InsertThrows(c, Head(failedQueue[n])) /\ UNCHANGED failedQueue
  <2>1. SameTable
    BY <1>0, <1>2, <1>3, RowKinds, TableStands DEF InsertThrows
  <2> QED  BY <1>1, <1>3, <2>1 DEF RestStep
<1>4. CASE failedQueue[n] = <<>> /\ UNCHANGED <<failedQueue, offlineMessage>>
  BY <1>1, <1>4, TableStands DEF RestStep
<1>5. CASE /\ failedQueue[n] # <<>> /\ InsertRow(Head(failedQueue[n]), TRUE)
           /\ failedQueue' = [failedQueue EXCEPT ![n] = Tail(@)]
  <2>1. \E k : TableGains(k, Head(failedQueue[n]).msg)
    BY <1>0, <1>2, <1>5, RowKinds
  <2> QED  BY <1>1, <1>5, <2>1 DEF Drains
<1> QED  BY <1>3, <1>4, <1>5 DEF DrainQueue

\* A one-to-one message is stored, or its INSERT threw.
LEMMA StoreKinds ==
  ASSUME DeliveryInv, NEW c \in Conns, InsertOwn(c) \/ QueueChat(c)
  PROVE  RestStep \/ Stores(c)
<1>0. /\ SessionType /\ RequestInv /\ TableType /\ ChatStep(c) /\ pc[c] \in WithMsg
      /\ Node(c) \in Nodes /\ req[c].msg \in Msgs /\ req[c].peer \in Users
  BY NodeType DEF DeliveryInv, SessionInv, ChatStep, InsertOwn, QueueChat, At, WithMsg, RequestInv, WithPeer
<1>1. UNCHANGED <<nextMsg, published, sent, forgotten, channel, subAt, deliverTo>>
  BY DEF InsertOwn, QueueChat, redisVars, subVars
<1>2. ItemOf(c) \in Item /\ ItemOf(c).msg = req[c].msg
  BY <1>0 DEF ItemOf, Item
<1>3. Answer(c) => Completes(c) /\ acked' = acked \cup {req[c].msg}
  BY <1>0, <1>1, ChattingLightens, ReturnCompletes DEF Answer
<1>4. CASE InsertOwn(c) /\ InsertRow(ItemOf(c), TRUE) /\ Answer(c)
  <2>1. (\E k : TableGains(k, req[c].msg)) /\ UNCHANGED failedQueue
    BY <1>0, <1>2, <1>4, RowKinds DEF InsertOwn
  <2> QED  BY <1>1, <1>3, <1>4, <2>1 DEF Stores
<1>5. CASE InsertOwn(c) /\ InsertThrows(c, ItemOf(c)) /\ UNCHANGED acked
  <2>1. SameTable /\ UNCHANGED failedQueue
    BY <1>0, <1>2, <1>5, RowKinds, TableStands DEF InsertOwn, InsertThrows
  <2> QED  BY <1>1, <1>5, <2>1 DEF RestStep
<1>6. CASE QueueChat(c)
  <2>1. Answer(c) /\ SameTable /\ failedQueue' = [failedQueue EXCEPT ![Node(c)] = Append(@, ItemOf(c))]
    BY <1>6, TableStands DEF QueueChat, dbVars
  <2>2. \E n \in Nodes : QueueGains(n, req[c].msg)
    BY <1>0, <1>2, <2>1 DEF QueueGains
  <2> QED  BY <1>1, <1>3, <2>1, <2>2 DEF Stores
<1> QED  BY <1>4, <1>5, <1>6 DEF InsertOwn

\* The callback writes to connections of its own node.
LEMMA DeliverKinds ==
  ASSUME DeliveryInv, NEW n \in Nodes, DeliverToMember(n)
  PROVE  Serves(n)
<1>1. PICK u \in deliverTo[n] :
        /\ subAt[n] = "deliver" /\ deliverTo' = [deliverTo EXCEPT ![n] = @ \ {u}]
        /\ IF userConnMap[n][u] # NoConn THEN Send(userConnMap[n][u], Head(channel[n]).msg, u) ELSE UNCHANGED sent
        /\ SameTable /\ UNCHANGED <<nextMsg, published, acked, forgotten, failedQueue, channel, subAt>>
  BY TableStands DEF DeliverToMember, dbVars, redisVars, subVars
<1>2. u \in Users /\ channel[n] \in Seq([msg: Msgs, group: GroupIds]) /\ channel[n] # <<>>
  BY <1>1 DEF DeliveryInv, GroupType, ChannelInv
<1>3. Head(channel[n]) \in [msg: Msgs, group: GroupIds]
  BY <1>2, HeadTailType
<1>4. Head(channel[n]).msg \in Msgs
  BY <1>3
<1>5. CASE userConnMap[n][u] # NoConn
  <2> DEFINE d == userConnMap[n][u]
             x == [msg |-> Head(channel[n]).msg, for |-> u, as |-> session[d]]
  <2>1. d \in Conns /\ Node(d) = n /\ session[d] \in Users \cup {NoUser}
    BY <1>2, <1>5 DEF DeliveryInv, SessionInv, SessionType, EntryIsBacked, Backs
  <2>2. x \in Copy /\ x.msg = Head(channel[n]).msg /\ x.for = u
    BY <1>2, <1>4, <2>1 DEF Copy
  <2>3. sent' = [sent EXCEPT ![d] = Append(@, x)]
    BY <1>1, <1>5 DEF Send
  <2> HIDE DEF d, x
  <2> QED  BY <1>1, <2>1, <2>2, <2>3 DEF Serves
<1>6. CASE userConnMap[n][u] = NoConn
  BY <1>1, <1>6 DEF Serves
<1> QED  BY <1>5, <1>6

\* These are all the steps there are, as far as messages are concerned.
LEMMA StepKinds ==
  ASSUME DeliveryInv, Next
  PROVE  \/ RestStep /\ Lightens
         \/ \E c \in Conns : Issues(c) \/ Publishes(c) \/ Writes(c) \/ Stores(c)
         \/ \E n \in Nodes : (Drains(n) \/ Serves(n) \/ Served(n) \/ Breaks(n) \/ Crashes(n)) /\ Lightens
<1>0. SessionType /\ RequestInv /\ ChannelInv
  BY DEF DeliveryInv, SessionInv
<1>1. ASSUME UNCHANGED <<quietVars, channel, subAt>> PROVE RestStep
  BY <1>1, TableStands DEF RestStep, quietVars, histVars, dbVars
<1>2. ASSUME NEW c \in Conns, Connect(c) \/ ClientClose(c) \/ clientQuitEcption(c) PROVE RestStep
  BY <1>1, <1>2 DEF Connect, ClientClose, clientQuitEcption, redisVars, subVars
<1>3. ASSUME NEW c \in Conns, LoginStep(c) PROVE RestStep
  <2>1. CASE LoginGroupEntry(c)
    BY <2>1, TableStands DEF LoginGroupEntry, RestStep, histVars, dbVars, redisVars, subVars
  <2>2. CASE CheckOnline(c) \/ InsertConn(c) \/ setUserOnline(c) \/ FriendsCached(c)
    BY <1>1, <2>2 DEF CheckOnline, InsertConn, setUserOnline, FriendsCached, redisVars, subVars
  <2>3. CASE QueryFriends(c) \/ CacheFriends(c) \/ QueryGroups(c) \/ LoginGroupSubscribe(c) \/ LoginAck(c)
    BY <1>1, <2>3 DEF QueryFriends, CacheFriends, QueryGroups, LoginGroupSubscribe, LoginAck, redisVars, subVars
  <2> QED  BY <1>3, <2>1, <2>2, <2>3 DEF LoginStep
<1>4. ASSUME NEW c \in Conns, LogoutStep(c) PROVE RestStep
  <2>1. CASE LeaveGroups(c)
    BY <2>1, TableStands DEF LeaveGroups, RestStep, histVars, dbVars
  <2>2. CASE EraseConn(c) \/ setUserOffline(c)
    BY <1>1, <2>2 DEF EraseConn, setUserOffline, redisVars, subVars
  <2> QED  BY <1>4, <2>1, <2>2 DEF LogoutStep
<1>5. ASSUME NEW c \in Conns, GroupStep(c), ~PublishGroup(c) PROVE RestStep
  <2>1. CASE createGroupRow(c) \/ joinGroupRow(c) \/ AddLocalMember(c)
    BY <2>1, TableStands DEF createGroupRow, joinGroupRow, AddLocalMember, RestStep, histVars, dbVars, redisVars, subVars
  <2>2. CASE SubscribeGroup(c) \/ LookupGroup(c) \/ LoadGroup(c)
    BY <1>1, <2>2 DEF SubscribeGroup, LookupGroup, LoadGroup, redisVars, subVars
  <2>3. CASE FillGroup(c)
    BY <2>3, TableStands DEF FillGroup, RestStep, histVars, dbVars
  <2> QED  BY <1>5, <2>1, <2>2, <2>3 DEF GroupStep
<1>6. ASSUME NEW c \in Conns, Request(c) PROVE RestStep \/ Issues(c)
  <2>1. CASE Logout(c) \/ CreateGroup(c)
    BY <1>1, <2>1 DEF Logout, CreateGroup, redisVars, subVars
  <2>2. ASSUME NEW u \in Users, Login(c, u) PROVE RestStep
    BY <1>1, <2>2 DEF Login, redisVars, subVars
  <2>3. ASSUME NEW u \in Users, AddFriend(c, u) PROVE RestStep
    BY <2>3, TableStands DEF AddFriend, RestStep, histVars, redisVars, subVars
  <2>4. ASSUME NEW g \in Groups, JoinGroup(c, g) PROVE RestStep
    BY <1>1, <2>4 DEF JoinGroup, redisVars, subVars
  <2> QED  BY <1>6, <2>1, <2>2, <2>3, <2>4, ChatIssues DEF Request
<1>7. ASSUME NEW n \in Nodes, Deliver(n) PROVE RestStep \/ Serves(n) \/ Served(n)
  <2>1. CASE Dispatch(n)
    <3>1. /\ subAt[n] = "consume" /\ subAt' = [subAt EXCEPT ![n] = "deliver"]
          /\ \E S : deliverTo' = [deliverTo EXCEPT ![n] = S]
          /\ SameTable /\ UNCHANGED <<nextMsg, published, sent, acked, forgotten, failedQueue, channel>>
      BY <2>1, TableStands DEF Dispatch, histVars, dbVars
    <3> QED  BY <1>0, <3>1 DEF RestStep, ChannelInv, DeliveryInv, GroupType
  <2>2. CASE DispatchDone(n)
    BY <2>2, TableStands DEF DispatchDone, Served, quietVars, histVars, dbVars
  <2> QED  BY <1>7, <2>1, <2>2, DeliverKinds DEF Deliver
<1>8. ASSUME NEW n \in Nodes, SubscriberLoop(n) PROVE RestStep \/ Breaks(n)
  <2>3. CASE SubscriberBreaks(n)
    BY <1>8, <2>3, TableStands DEF SubscriberLoop, SubscriberBreaks, Breaks, quietVars, histVars, dbVars
  <2> SUFFICES ASSUME ~SubscriberBreaks(n) PROVE RestStep
    BY <2>3
  <2>1. /\ subAt[n] # "deliver" /\ UNCHANGED <<quietVars, channel>>
        /\ UNCHANGED subAt \/ \E l : subAt' = [subAt EXCEPT ![n] = l]
    BY <1>8 DEF SubscriberLoop, ConsumeNothing, SwapTasks, RunTask, TasksDone, DropTask, DropAll
  <2>2. \A k \in Nodes : k # n => subAt'[k] = subAt[k]
    BY <1>0, <2>1 DEF ChannelInv
  <2> QED  BY <2>1, <2>2, TableStands DEF RestStep, quietVars, histVars, dbVars
<1>9. ASSUME NEW u \in Users, PresenceExpires(u) \/ FriendsExpire(u) PROVE RestStep
  BY <1>1, <1>9 DEF PresenceExpires, FriendsExpire, subVars
<1>10. ASSUME NEW n \in Nodes, Crash(n) PROVE Crashes(n)
  BY <1>10, TableStands DEF Crash, Crashes, histVars, dbVars
<1>13. ASSUME NEW c \in Conns, StoreChat(c) PROVE RestStep
  BY <1>1, <1>13 DEF StoreChat, redisVars, subVars
<1>11. ASSUME NEW c \in Conns, HandlerStep(c)
       PROVE  RestStep \/ Publishes(c) \/ Writes(c) \/ Stores(c) \/ \E n \in Nodes : Drains(n)
  BY <1>3, <1>4, <1>5, <1>11, <1>13, NodeType, PublishKinds, RouteKinds, StoreKinds, DrainKinds
     DEF HandlerStep, ChatStep
<1>12. Lightens \/ \E c \in Conns : Issues(c)
  BY NextLightens
<1> QED  BY <1>2, <1>6, <1>7, <1>8, <1>9, <1>10, <1>11, <1>12 DEF Next, Environment


-----------------------------------------------------------------------------
(* Who carries and who holds a message.                                    *)

\* A published message joins those that were.
LEMMA PublishedGrows ==
  ASSUME NEW k, NEW m, Extends(published', published, k, m)
  PROVE  Range(published') = Range(published) \cup {m}
BY DEF Extends, Range

\* What a step that publishes does to the order and to the channels.
LEMMA PublishFacts ==
  ASSUME DeliveryInv, NEW c \in Conns, Publishes(c)
  PROVE  /\ \E k : Extends(published', published, k, req[c].msg)
         /\ \A n \in Nodes : \/ channel'[n] = channel[n]
                             \/ \E k, x : Extends(channel'[n], channel[n], k, x) /\ x.msg = req[c].msg
<1>0. published \in Seq(Msgs) /\ req[c].msg \in Msgs /\ published' = Append(published, req[c].msg)
  BY DEF DeliveryInv, HistoryType, Publishes, Completes
<1>1. \E k : Extends(published', published, k, req[c].msg)
  BY <1>0, AppendExtends
<1>2. PICK g \in GroupIds : publishGroupMessage(req[c].msg, g)
  BY DEF Publishes
<1> DEFINE x == [msg |-> req[c].msg, group |-> g]
           Posts == [msg: Msgs, group: GroupIds]
<1>3. x \in Posts /\ x.msg = req[c].msg
  BY <1>0, <1>2
<1>4. channel' = [n \in Nodes |-> IF g \in subGroupSet[n] /\ subAt[n] # "dead"
                                THEN Append(channel[n], x) ELSE channel[n]]
  BY <1>2 DEF publishGroupMessage
<1>5. channel \in [Nodes -> Seq(Posts)]
  BY DEF DeliveryInv, ChannelInv
<1> HIDE DEF x, Posts
<1>6. ASSUME NEW n \in Nodes
      PROVE  channel'[n] = channel[n] \/ \E k : Extends(channel'[n], channel[n], k, x)
  <2>1. channel[n] \in Seq(Posts)
    BY <1>5
  <2>2. \E k : Extends(Append(channel[n], x), channel[n], k, x)
    BY <1>3, <2>1, AppendExtends
  <2>3. channel'[n] \in {channel[n], Append(channel[n], x)}
    BY <1>4
  <2> QED  BY <2>2, <2>3
<1> QED  BY <1>1, <1>3, <1>6

\* Copy x is written to connection d, at position k.
WrittenTo(d, k, x) ==
  /\ Extends(sent'[d], sent[d], k, x)
  /\ \A c \in Conns : c # d => sent'[c] = sent[c]

\* A send.
LEMMA SendExtends ==
  ASSUME HistoryType, NEW d \in Conns, NEW x \in Copy, sent' = [sent EXCEPT ![d] = Append(@, x)]
  PROVE  \E k : WrittenTo(d, k, x)
<1>1. sent \in [Conns -> Seq(Copy)] /\ sent[d] \in Seq(Copy)
  BY DEF HistoryType
<1>2. sent'[d] = Append(sent[d], x) /\ \A c \in Conns : c # d => sent'[c] = sent[c]
  BY <1>1
<1>3. \E k : Extends(Append(sent[d], x), sent[d], k, x)
  BY <1>1, AppendExtends
<1> QED  BY <1>2, <1>3 DEF WrittenTo

\* A step that takes nothing up and spends nothing.
LEMMA LightKeepsCarry ==
  ASSUME CarryInv, Lightens, UNCHANGED <<nextMsg, acked, published>>
  PROVE  CarryInv'
<1>1. Spent' = Spent
  BY DEF Spent
<1> QED  BY <1>1 DEF CarryInv, Lightens

\* A new message is not spent, and carried by nobody else.
LEMMA IssueKeepsCarry ==
  ASSUME CarryInv, HistoryType, NEW c \in Conns, Issues(c), \A d \in Conns : Carried(d) \subseteq Nat, Spent \subseteq Nat
  PROVE  CarryInv'
<1>0. nextMsg \in Nat /\ nextMsg' = nextMsg + 1
  BY BoundAssumption DEF HistoryType, Issues
<1>1. Spent' = Spent /\ UNCHANGED <<acked, published>>
  BY DEF Spent, Issues
<1>2. \A d \in Conns : \A m \in Carried(d)' : \/ d = c /\ m = nextMsg
                                              \/ d # c /\ m \in Carried(d)
  BY DEF Issues
<1>3. \A m \in Spent : m < nextMsg /\ m < nextMsg' /\ m # nextMsg
  BY <1>0 DEF CarryInv
<1>4. \A d \in Conns : \A m \in Carried(d) : m < nextMsg' /\ m # nextMsg /\ m \notin Spent
  BY <1>0 DEF CarryInv
<1>5. \A d \in Conns : \A m \in Carried(d)' : m < nextMsg' /\ m \notin Spent
  BY <1>0, <1>2, <1>3, <1>4
<1>6. \A d, e \in Conns : d # e => Carried(d)' \cap Carried(e)' = {}
  BY <1>2, <1>4 DEF CarryInv
<1> QED  BY <1>1, <1>3, <1>5, <1>6 DEF CarryInv

\* A message that is spent was carried by its handler alone.
LEMMA CompleteKeepsCarry ==
  ASSUME CarryInv, NEW c \in Conns, Completes(c),
         \/ acked' = acked \cup {req[c].msg} /\ UNCHANGED published
         \/ Range(published') = Range(published) \cup {req[c].msg} /\ UNCHANGED acked
  PROVE  CarryInv'
<1> DEFINE m == req[c].msg
<1>1. /\ Spent' = Spent \cup {m} /\ m \in Carried(c) /\ nextMsg' = nextMsg /\ m \notin Spent /\ m < nextMsg
      /\ \A d \in Conns : Carried(d)' \subseteq Carried(d) /\ Carried(c)' = {}
  BY DEF Spent, Completes, CarryInv, Lightens
<1>2. \A d \in Conns : m \notin Carried(d)'
  BY <1>1 DEF CarryInv
<1>3. acked' \cap Range(published') = {}
  BY <1>1 DEF CarryInv, Spent
<1> QED  BY <1>1, <1>2, <1>3 DEF CarryInv

\* Every step keeps it.
LEMMA CarryInvNext ==
  ASSUME DeliveryInv, CarryInv, Next
  PROVE  CarryInv'
<1>0. HistoryType /\ Spent \subseteq Nat /\ \A d \in Conns : Carried(d) \subseteq Nat
  <2>1. HistoryType /\ Msgs \subseteq Nat
    BY DEF DeliveryInv, Msgs
  <2>2. Range(published) \subseteq Msgs
    BY <2>1 DEF HistoryType, Range
  <2> QED  BY <2>1, <2>2 DEF HistoryType, Spent, Carried, DeliveryInv, RequestInv
<1>1. ASSUME Lightens,
             RestStep \/ \E n \in Nodes : Drains(n) \/ Serves(n) \/ Served(n) \/ Breaks(n) \/ Crashes(n)
      PROVE  CarryInv'
  <2>1. UNCHANGED <<nextMsg, acked, published>>
    BY <1>1 DEF RestStep, Drains, Serves, Served, Breaks, Crashes
  <2> QED  BY <1>1, <2>1, LightKeepsCarry
<1>2. ASSUME NEW c \in Conns, Issues(c) PROVE CarryInv'
  BY <1>0, <1>2, IssueKeepsCarry
<1>3. ASSUME NEW c \in Conns, Publishes(c) PROVE CarryInv'
  BY <1>3, PublishFacts, PublishedGrows, CompleteKeepsCarry DEF Publishes
<1>4. ASSUME NEW c \in Conns, Writes(c) \/ Stores(c) PROVE CarryInv'
  BY <1>4, CompleteKeepsCarry DEF Writes, Stores
<1> QED  BY <1>1, <1>2, <1>3, <1>4, StepKinds

\* The head of a channel the callback works on.
LEMMA HeadFacts ==
  ASSUME DeliveryInv, NEW n \in Nodes, subAt[n] = "deliver"
  PROVE  /\ 1 \in DOMAIN channel[n] /\ Head(channel[n]) = channel[n][1] /\ DOMAIN channel[n] \subseteq Nat \ {0}
         /\ \A k \in DOMAIN Tail(channel[n]) : /\ k \in Nat \ {0} /\ k + 1 \in DOMAIN channel[n]
                                               /\ Tail(channel[n])[k] = channel[n][k + 1]
<1>1. channel[n] \in Seq([msg: Msgs, group: GroupIds]) /\ channel[n] # <<>>
  BY DEF DeliveryInv, ChannelInv
<1> DEFINE s == channel[n]
<1>2. s \in Seq([msg: Msgs, group: GroupIds]) /\ s # <<>>
  BY <1>1
<1> HIDE DEF s
<1>3. /\ Len(s) \in Nat /\ Len(s) > 0 /\ DOMAIN s = 1..Len(s) /\ Head(s) = s[1]
      /\ DOMAIN Tail(s) = 1..(Len(s) - 1) /\ \A k \in 1..(Len(s) - 1) : Tail(s)[k] = s[k + 1]
  BY <1>2
<1> QED  BY <1>3 DEF s

\* What was spent stays spent.
LEMMA SpentGrows ==
  ASSUME acked \subseteq acked', Range(published) \subseteq Range(published')
  PROVE  Spent \subseteq Spent'
BY DEF Spent

\* The places of HeldInv, where a step may change one of them.
LEMMA HeldGrows ==
  ASSUME HeldInv, acked \subseteq acked', Range(published) \subseteq Range(published')
  PROVE  /\ \A n \in Nodes : channel'[n] = channel[n] =>
              \A k \in DOMAIN channel'[n] : channel'[n][k].msg \in Range(published')
         /\ \A c \in Conns : sent'[c] = sent[c] => \A i \in DOMAIN sent'[c] : sent'[c][i].msg \in Spent'
         /\ SameTable => \A m, i : InTable(m, i)' => m \in acked'
         /\ \A n \in Nodes : failedQueue'[n] = failedQueue[n] =>
              \A i \in DOMAIN failedQueue'[n] : failedQueue'[n][i].msg \in acked'
         /\ forgotten' = forgotten => forgotten' \subseteq acked'
BY SpentGrows DEF HeldInv, SameTable

\* What is added to a sequence whose messages are in S.
LEMMA ExtendsHeld ==
  ASSUME NEW S, NEW t, NEW s, NEW k, NEW x, Extends(t, s, k, x), x.msg \in S, \A i \in DOMAIN s : s[i].msg \in S
  PROVE  \A i \in DOMAIN t : t[i].msg \in S
BY DEF Extends

\* A published message is on channels, a written one on a connection.
LEMMA PublishWriteKeepHeld ==
  ASSUME DeliveryInv, HeldInv, NEW c \in Conns, Publishes(c) \/ Writes(c)
  PROVE  HeldInv'
<1>1. CASE Publishes(c)
  <2>1. /\ acked' = acked /\ sent' = sent /\ SameTable /\ failedQueue' = failedQueue /\ forgotten' = forgotten
        /\ Range(published') = Range(published) \cup {req[c].msg}
    BY <1>1, PublishFacts, PublishedGrows DEF Publishes
  <2>2. ASSUME NEW n \in Nodes PROVE \A k \in DOMAIN channel'[n] : channel'[n][k].msg \in Range(published')
    <3>1. \A k \in DOMAIN channel[n] : channel[n][k].msg \in Range(published')
      BY <2>1 DEF HeldInv
    <3>2. CASE channel'[n] = channel[n]
      BY <3>1, <3>2
    <3>3. CASE channel'[n] # channel[n]
      <4>1. PICK k, x : Extends(channel'[n], channel[n], k, x) /\ x.msg = req[c].msg
        BY <1>1, <3>3, PublishFacts
      <4>2. x.msg \in Range(published')
        BY <2>1, <4>1
      <4> QED  BY <3>1, <4>1, <4>2, ExtendsHeld
    <3> QED  BY <3>2, <3>3
  <2>3. /\ \A d \in Conns : \A i \in DOMAIN sent'[d] : sent'[d][i].msg \in Spent'
        /\ \A m, i : InTable(m, i)' => m \in acked'
        /\ \A n \in Nodes : \A i \in DOMAIN failedQueue'[n] : failedQueue'[n][i].msg \in acked'
        /\ forgotten' \subseteq acked'
    BY <2>1, HeldGrows
  <2> QED  BY <2>2, <2>3 DEF HeldInv
<1>2. CASE Writes(c)
  <2>1. /\ acked' = acked \cup {req[c].msg} /\ published' = published /\ channel' = channel
        /\ SameTable /\ failedQueue' = failedQueue /\ forgotten' = forgotten
    BY <1>2 DEF Writes
  <2>2. PICK d \in Conns, x \in Copy : x.msg = req[c].msg /\ sent' = [sent EXCEPT ![d] = Append(@, x)]
    BY <1>2 DEF Writes
  <2>3. PICK k : WrittenTo(d, k, x)
    BY <2>2, SendExtends DEF DeliveryInv
  <2>4. Spent \subseteq Spent' /\ x.msg \in Spent'
    BY <2>1, <2>2 DEF Spent
  <2>5. \A i \in DOMAIN sent[d] : sent[d][i].msg \in Spent'
    BY <2>4 DEF HeldInv
  <2>6. \A i \in DOMAIN sent'[d] : sent'[d][i].msg \in Spent'
    BY <2>3, <2>4, <2>5, ExtendsHeld DEF WrittenTo
  <2>7. /\ \A e \in Conns : e # d => \A i \in DOMAIN sent'[e] : sent'[e][i].msg \in Spent'
        /\ \A n \in Nodes : \A k1 \in DOMAIN channel'[n] : channel'[n][k1].msg \in Range(published')
        /\ \A m, i : InTable(m, i)' => m \in acked'
        /\ \A n \in Nodes : \A i \in DOMAIN failedQueue'[n] : failedQueue'[n][i].msg \in acked'
        /\ forgotten' \subseteq acked'
    BY <2>1, <2>3, HeldGrows DEF WrittenTo
  <2> QED  BY <2>6, <2>7 DEF HeldInv
<1> QED  BY <1>1, <1>2

\* What is added to a queue, or taken from it.
LEMMA QueueFacts ==
  ASSUME TableType, NEW n \in Nodes
  PROVE  /\ \A x : QueueGains(n, x) =>
              /\ \A l \in Nodes : l # n => failedQueue'[l] = failedQueue[l]
              /\ \E k, y : Extends(failedQueue'[n], failedQueue[n], k, y) /\ y.msg = x
         /\ Drains(n) =>
              /\ \A l \in Nodes : l # n => failedQueue'[l] = failedQueue[l]
              /\ 1 \in DOMAIN failedQueue[n] /\ Head(failedQueue[n]) = failedQueue[n][1]
              /\ \A i : i \in DOMAIN failedQueue'[n] <=> i \in Nat \ {0} /\ i + 1 \in DOMAIN failedQueue[n]
              /\ \A i \in DOMAIN failedQueue'[n] : failedQueue'[n][i] = failedQueue[n][i + 1]
              /\ DOMAIN failedQueue[n] \subseteq Nat \ {0}
<1> DEFINE q == failedQueue[n]
<1>0. q \in Seq(Item) /\ failedQueue \in [Nodes -> Seq(Item)]
  BY DEF TableType
<1>1. ASSUME NEW x, QueueGains(n, x)
      PROVE  /\ \A l \in Nodes : l # n => failedQueue'[l] = failedQueue[l]
             /\ \E k, y : Extends(failedQueue'[n], failedQueue[n], k, y) /\ y.msg = x
  <2>1. PICK y \in Item : y.msg = x /\ failedQueue' = [failedQueue EXCEPT ![n] = Append(@, y)]
    BY <1>1 DEF QueueGains
  <2>2. failedQueue'[n] = Append(q, y) /\ \A l \in Nodes : l # n => failedQueue'[l] = failedQueue[l]
    BY <1>0, <2>1
  <2> QED  BY <1>0, <2>1, <2>2, AppendExtends
<1>2. ASSUME Drains(n)
      PROVE  /\ \A l \in Nodes : l # n => failedQueue'[l] = failedQueue[l]
             /\ 1 \in DOMAIN q /\ Head(q) = q[1] /\ DOMAIN q \subseteq Nat \ {0}
             /\ \A i : i \in DOMAIN failedQueue'[n] <=> i \in Nat \ {0} /\ i + 1 \in DOMAIN q
             /\ \A i \in DOMAIN failedQueue'[n] : failedQueue'[n][i] = q[i + 1]
  <2>1. q # <<>> /\ failedQueue'[n] = Tail(q) /\ \A l \in Nodes : l # n => failedQueue'[l] = failedQueue[l]
    BY <1>0, <1>2 DEF Drains
  <2> HIDE DEF q
  <2>2. /\ Len(q) \in Nat /\ Len(q) > 0 /\ DOMAIN q = 1..Len(q) /\ Head(q) = q[1]
        /\ DOMAIN Tail(q) = 1..(Len(q) - 1) /\ \A i \in 1..(Len(q) - 1) : Tail(q)[i] = q[i + 1]
    BY <1>0, <2>1
  <2>3. \A i : i \in 1..(Len(q) - 1) <=> i \in Nat \ {0} /\ i + 1 \in 1..Len(q)
    BY <2>2
  <2> QED  BY <2>1, <2>2, <2>3
<1> QED  BY <1>1, <1>2

\* A stored message is in the table or joins a queue.
LEMMA StoreKeepsHeld ==
  ASSUME DeliveryInv, HeldInv, NEW c \in Conns, Stores(c)
  PROVE  HeldInv'
<1>1. /\ acked' = acked \cup {req[c].msg} /\ published' = published /\ channel' = channel /\ sent' = sent
      /\ acked \subseteq acked' /\ req[c].msg \in acked' /\ forgotten' = forgotten
  BY DEF Stores
<1>2. /\ \A d \in Conns : \A i \in DOMAIN sent'[d] : sent'[d][i].msg \in Spent'
      /\ \A m \in Nodes : \A k \in DOMAIN channel'[m] : channel'[m][k].msg \in Range(published')
      /\ forgotten' \subseteq acked'
      /\ SameTable => \A m, i : InTable(m, i)' => m \in acked'
      /\ \A m \in Nodes : failedQueue'[m] = failedQueue[m] =>
              \A i \in DOMAIN failedQueue'[m] : failedQueue'[m][i].msg \in acked'
  BY <1>1, HeldGrows
<1>3. CASE UNCHANGED failedQueue /\ \E k : TableGains(k, req[c].msg)
  <2>1. \A m, i : InTable(m, i)' => m \in acked'
    BY <1>1, <1>3 DEF TableGains, HeldInv
  <2> QED  BY <1>2, <1>3, <2>1 DEF HeldInv
<1>4. ASSUME SameTable, NEW n \in Nodes, QueueGains(n, req[c].msg) PROVE HeldInv'
  <2>1. \A l \in Nodes : l # n => failedQueue'[l] = failedQueue[l]
    BY <1>4, QueueFacts DEF DeliveryInv
  <2>2. PICK k, y : Extends(failedQueue'[n], failedQueue[n], k, y) /\ y.msg = req[c].msg
    BY <1>4, QueueFacts DEF DeliveryInv
  <2>3. \A i \in DOMAIN failedQueue[n] : failedQueue[n][i].msg \in acked'
    BY <1>1 DEF HeldInv
  <2>4. y.msg \in acked'
    BY <1>1, <2>2
  <2>5. \A i \in DOMAIN failedQueue'[n] : failedQueue'[n][i].msg \in acked'
    BY <2>2, <2>3, <2>4, ExtendsHeld
  <2> QED  BY <1>2, <1>4, <2>1, <2>5 DEF HeldInv
<1> QED  BY <1>3, <1>4 DEF Stores

\* A queued message was answered.
LEMMA DrainKeepsHeld ==
  ASSUME DeliveryInv, HeldInv, NEW n \in Nodes, Drains(n)
  PROVE  HeldInv'
<1>1. /\ acked' = acked /\ published' = published /\ channel' = channel /\ sent' = sent
      /\ forgotten' = forgotten
  BY DEF Drains
<1>2. /\ \A d \in Conns : \A i \in DOMAIN sent'[d] : sent'[d][i].msg \in Spent'
      /\ \A m \in Nodes : \A k \in DOMAIN channel'[m] : channel'[m][k].msg \in Range(published')
      /\ forgotten' \subseteq acked'
      /\ \A m \in Nodes : failedQueue'[m] = failedQueue[m] =>
              \A i \in DOMAIN failedQueue'[m] : failedQueue'[m][i].msg \in acked'
  BY <1>1, HeldGrows
<1>3. /\ 1 \in DOMAIN failedQueue[n] /\ Head(failedQueue[n]) = failedQueue[n][1]
      /\ \A l \in Nodes : l # n => failedQueue'[l] = failedQueue[l]
      /\ \A i \in DOMAIN failedQueue'[n] : i + 1 \in DOMAIN failedQueue[n] /\ failedQueue'[n][i] = failedQueue[n][i + 1]
  BY QueueFacts DEF DeliveryInv
<1>4. Head(failedQueue[n]).msg \in acked
  BY <1>3 DEF HeldInv
<1>5. \A m, i : InTable(m, i)' => m \in acked'
  BY <1>1, <1>4 DEF Drains, TableGains, HeldInv
<1>6. \A i \in DOMAIN failedQueue'[n] : failedQueue'[n][i].msg \in acked'
  BY <1>1, <1>3 DEF HeldInv
<1> QED  BY <1>2, <1>3, <1>5, <1>6 DEF HeldInv

\* What the callback writes was published; a crash and a served message only
\* take away.
LEMMA DeliverKeepsHeld ==
  ASSUME DeliveryInv, HeldInv, NEW n \in Nodes, Serves(n) \/ Served(n) \/ Breaks(n) \/ Crashes(n)
  PROVE  HeldInv'
<1>0. /\ channel \in [Nodes -> Seq([msg: Msgs, group: GroupIds])] /\ failedQueue \in [Nodes -> Seq(Item)]
      /\ acked' = acked /\ published' = published /\ SameTable
  BY DEF DeliveryInv, ChannelInv, TableType, Serves, Served, Breaks, Crashes
<1>1. /\ \A m \in Nodes : channel'[m] = channel[m] =>
           \A k \in DOMAIN channel'[m] : channel'[m][k].msg \in Range(published')
      /\ \A c \in Conns : sent'[c] = sent[c] => \A i \in DOMAIN sent'[c] : sent'[c][i].msg \in Spent'
      /\ \A m, i : InTable(m, i)' => m \in acked'
      /\ forgotten' = forgotten => forgotten' \subseteq acked'
      /\ \A m \in Nodes : failedQueue'[m] = failedQueue[m] =>
           \A i \in DOMAIN failedQueue'[m] : failedQueue'[m][i].msg \in acked'
  BY <1>0, HeldGrows
<1>2. CASE Serves(n)
  <2>1. channel' = channel /\ failedQueue' = failedQueue /\ forgotten' = forgotten /\ subAt[n] = "deliver"
    BY <1>2 DEF Serves
  <2>2. \A c \in Conns : \A i \in DOMAIN sent'[c] : sent'[c][i].msg \in Spent'
    <3>1. CASE UNCHANGED sent
      BY <1>1, <3>1
    <3>2. ASSUME NEW d \in Conns, NEW x \in Copy, x.msg = Head(channel[n]).msg,
                 sent' = [sent EXCEPT ![d] = Append(@, x)]
          PROVE  \A c \in Conns : \A i \in DOMAIN sent'[c] : sent'[c][i].msg \in Spent'
      <4>1. PICK k : WrittenTo(d, k, x)
        BY <3>2, SendExtends DEF DeliveryInv
      <4>2. x.msg \in Spent'
        BY <1>0, <2>1, <3>2, HeadFacts DEF HeldInv, Spent
      <4>3. \A i \in DOMAIN sent[d] : sent[d][i].msg \in Spent'
        BY <1>0 DEF HeldInv, Spent
      <4>4. \A i \in DOMAIN sent'[d] : sent'[d][i].msg \in Spent'
        BY <4>1, <4>2, <4>3, ExtendsHeld DEF WrittenTo
      <4> QED  BY <1>1, <4>1, <4>4 DEF WrittenTo
    <3> QED  BY <1>2, <3>1, <3>2 DEF Serves
  <2> QED  BY <1>1, <2>1, <2>2 DEF HeldInv
<1>3. CASE Served(n)
  <2>1. sent' = sent /\ failedQueue' = failedQueue /\ forgotten' = forgotten /\ subAt[n] = "deliver"
    BY <1>3 DEF Served
  <2>2. channel'[n] = Tail(channel[n]) /\ \A m \in Nodes : m # n => channel'[m] = channel[m]
    BY <1>0, <1>3 DEF Served
  <2>3. \A k \in DOMAIN channel'[n] : channel'[n][k].msg \in Range(published')
    BY <1>0, <2>1, <2>2, HeadFacts DEF HeldInv
  <2> QED  BY <1>1, <2>1, <2>2, <2>3 DEF HeldInv
<1>4. CASE Crashes(n)
  <2>1. /\ sent' = sent /\ channel'[n] = <<>> /\ failedQueue'[n] = <<>> /\ DOMAIN <<>> = {}
        /\ \A m \in Nodes : m # n => channel'[m] = channel[m] /\ failedQueue'[m] = failedQueue[m]
    BY <1>0, <1>4 DEF Crashes
  <2>2. forgotten' \subseteq acked'
    BY <1>0, <1>4 DEF Crashes, HeldInv
  <2> QED  BY <1>1, <2>1, <2>2 DEF HeldInv
<1>5. CASE Breaks(n)
  <2>1. /\ sent' = sent /\ channel'[n] = <<>> /\ DOMAIN <<>> = {} /\ failedQueue' = failedQueue
        /\ forgotten' = forgotten /\ \A m \in Nodes : m # n => channel'[m] = channel[m]
    BY <1>0, <1>5 DEF Breaks
  <2> QED  BY <1>1, <2>1 DEF HeldInv
<1> QED  BY <1>2, <1>3, <1>4, <1>5

\* Every step keeps it.
LEMMA HeldInvNext ==
  ASSUME DeliveryInv, HeldInv, Next
  PROVE  HeldInv'
<1>1. ASSUME SameTable, UNCHANGED <<published, sent, acked, forgotten, failedQueue, channel>> PROVE HeldInv'
  BY <1>1 DEF HeldInv, Spent, SameTable
<1>2. ASSUME RestStep \/ \E c \in Conns : Issues(c) PROVE HeldInv'
  BY <1>1, <1>2, TableStands DEF RestStep, Issues
<1> QED  BY <1>2, StepKinds, PublishWriteKeepHeld, StoreKeepsHeld, DrainKeepsHeld, DeliverKeepsHeld

-----------------------------------------------------------------------------
(* The order of the messages.                                              *)

\* The order of a sequence to which a message is added that is not in it.
LEMMA PrecedesFacts ==
  ASSUME NEW s, NEW a, NEW b
  PROVE  /\ a \notin Range(s) \/ b \notin Range(s) => Precedes(s, a, b)
         /\ \A t, k, m : Extends(t, s, k, m) /\ m \notin Range(s) /\ a # m =>
              /\ Precedes(t, a, m)
              /\ b # m /\ Precedes(s, a, b) => Precedes(t, a, b)
BY DEF Precedes, Extends, Range

\* A step that writes nothing and leaves the channels alone.
LEMMA RestKeepsOrder ==
  ASSUME OrderInv, UNCHANGED <<published, sent, channel>>,
         \A n \in Nodes : subAt[n] = "deliver" => subAt'[n] = "deliver" /\ deliverTo'[n] \subseteq deliverTo[n]
  PROVE  OrderInv'
<1>1. PublishedOnce' /\ \A n \in Nodes : ChannelOrder(n)'
  BY DEF OrderInv, PublishedOnce, ChannelOrder
<1>2. \A c \in Conns : WrittenInOrder(c)'
  BY DEF OrderInv, WrittenInOrder
<1>3. ASSUME NEW c \in Conns PROVE Ahead(c)'
  <2>1. Ahead(c) /\ Node(c) \in Nodes
    BY NodeType DEF OrderInv
  <2>2. ASSUME NEW x, NEW k, JustServed(x, Node(c), k) PROVE JustServed(x, Node(c), k)'
    BY <2>1, <2>2 DEF JustServed
  <2>3. Node(c)' = Node(c)
    BY DEF Node
  <2> QED  BY <2>1, <2>2, <2>3 DEF Ahead
<1> QED  BY <1>1, <1>2, <1>3 DEF OrderInv

\* A message that is published is new, and comes last everywhere.
LEMMA PublishKeepsOrder ==
  ASSUME DeliveryInv, CarryInv, HeldInv, OrderInv, NEW c \in Conns, Publishes(c)
  PROVE  OrderInv'
<1> DEFINE m == req[c].msg
<1>0. m \notin Spent /\ m \notin Range(published) /\ UNCHANGED <<sent, subAt, deliverTo>>
  BY DEF Publishes, Completes, CarryInv, Spent
<1>1. PICK k : Extends(published', published, k, m)
  BY PublishFacts
<1>2. \A n \in Nodes : \/ channel'[n] = channel[n]
                       \/ \E l, x : Extends(channel'[n], channel[n], l, x) /\ x.msg = m
  BY PublishFacts
<1>3. /\ \A n \in Nodes : \A i \in DOMAIN channel[n] : channel[n][i].msg # m
      /\ \A d \in Conns : \A i \in DOMAIN sent[d] : sent[d][i].msg # m
  BY <1>0 DEF HeldInv
<1> HIDE DEF m
<1>4. \A a : a # m => /\ Precedes(published', a, m)
                      /\ \A b : b # m /\ Precedes(published, a, b) => Precedes(published', a, b)
  BY <1>0, <1>1, PrecedesFacts
<1>5. PublishedOnce'
  <2>1. PublishedOnce
    BY DEF OrderInv
  <2> QED  BY <1>0, <1>1, <2>1 DEF PublishedOnce, Extends, Range
<1>6. ASSUME NEW n \in Nodes PROVE ChannelOrder(n)'
  <2>1. ASSUME NEW i \in DOMAIN channel[n], NEW j \in DOMAIN channel[n], i < j
        PROVE  Precedes(published', channel[n][i].msg, channel[n][j].msg)
    <3>1. Precedes(published, channel[n][i].msg, channel[n][j].msg)
      BY <2>1 DEF OrderInv, ChannelOrder
    <3> QED  BY <1>3, <1>4, <3>1
  <2>2. CASE channel'[n] = channel[n]
    BY <2>1, <2>2 DEF ChannelOrder
  <2>3. CASE channel'[n] # channel[n]
    <3>1. PICK l, x : Extends(channel'[n], channel[n], l, x) /\ x.msg = m
      BY <1>2, <2>3
    <3>2. ASSUME NEW i \in DOMAIN channel'[n], NEW j \in DOMAIN channel'[n], i < j
          PROVE  Precedes(published', channel'[n][i].msg, channel'[n][j].msg)
      <4>1. i \in DOMAIN channel[n] /\ channel'[n][i] = channel[n][i]
        BY <3>1, <3>2 DEF Extends
      <4>2. CASE j \in DOMAIN channel[n]
        <5>1. channel'[n][j] = channel[n][j]
          BY <3>1, <4>2 DEF Extends
        <5> QED  BY <2>1, <3>2, <4>1, <4>2, <5>1
      <4>3. CASE j \notin DOMAIN channel[n]
        <5>1. channel'[n][j] = x
          BY <3>1, <4>3 DEF Extends
        <5> QED  BY <1>3, <1>4, <3>1, <4>1, <5>1
      <4> QED  BY <4>2, <4>3
    <3> QED  BY <3>2 DEF ChannelOrder
  <2> QED  BY <2>2, <2>3
<1>7. ASSUME NEW d \in Conns PROVE WrittenInOrder(d)'
  <2>1. WrittenInOrder(d)
    BY DEF OrderInv
  <2>2. sent'[d] = sent[d]
    BY <1>0
  <2>3. ASSUME NEW i \in DOMAIN sent[d], NEW j \in DOMAIN sent[d], i < j
        PROVE  \/ Precedes(published', sent[d][i].msg, sent[d][j].msg)
               \/ sent[d][i].msg = sent[d][j].msg /\ sent[d][i].for # sent[d][j].for
    <3>1. sent[d][i].msg # m /\ sent[d][j].msg # m
      BY <1>3
    <3> QED  BY <1>4, <2>1, <2>3, <3>1 DEF WrittenInOrder
  <2> QED  BY <2>2, <2>3 DEF WrittenInOrder
<1>8. ASSUME NEW d \in Conns PROVE Ahead(d)'
  <2>1. PICK n \in Nodes : n = Node(d) /\ n = Node(d)'
    BY NodeType DEF Node
  <2>2. ASSUME NEW i \in DOMAIN sent[d], NEW l \in DOMAIN channel'[n]
        PROVE  Precedes(published', sent[d][i].msg, channel'[n][l].msg) \/ JustServed(sent[d][i], n, l)'
    <3>1. CASE l \in DOMAIN channel[n]
      <4>1. channel'[n][l] = channel[n][l]
        BY <1>2, <3>1 DEF Extends
      <4>2. Precedes(published, sent[d][i].msg, channel[n][l].msg) \/ JustServed(sent[d][i], n, l)
        BY <2>1, <2>2, <3>1 DEF OrderInv, Ahead
      <4>3. CASE Precedes(published, sent[d][i].msg, channel[n][l].msg)
        BY <1>3, <1>4, <2>2, <3>1, <4>1, <4>3
      <4>4. CASE JustServed(sent[d][i], n, l)
        BY <1>0, <4>1, <4>4 DEF JustServed
      <4> QED  BY <4>2, <4>3, <4>4
    <3>2. CASE l \notin DOMAIN channel[n]
      <4>1. channel'[n][l].msg = m
        BY <1>2, <2>2, <3>2 DEF Extends
      <4> QED  BY <1>3, <1>4, <2>2, <4>1
    <3> QED  BY <3>1, <3>2
  <2> QED  BY <1>0, <2>1, <2>2 DEF Ahead
<1> QED  BY <1>5, <1>6, <1>7, <1>8 DEF OrderInv

\* A one-to-one message is not among the published ones.
LEMMA WriteKeepsOrder ==
  ASSUME DeliveryInv, CarryInv, HeldInv, OrderInv, NEW c \in Conns, Writes(c)
  PROVE  OrderInv'
<1> DEFINE m == req[c].msg
<1>0. m \notin Range(published) /\ UNCHANGED <<published, channel, subAt, deliverTo>>
  BY DEF Writes, Completes, CarryInv, Spent
<1>1. PICK d \in Conns, x \in Copy : x.msg = m /\ sent' = [sent EXCEPT ![d] = Append(@, x)]
  BY DEF Writes
<1>2. PICK k : WrittenTo(d, k, x)
  BY <1>1, SendExtends DEF DeliveryInv
<1> HIDE DEF m
<1>3. \A a : Precedes(published, a, m) /\ Precedes(published, m, a)
  BY <1>0, PrecedesFacts
<1>4. PublishedOnce' /\ \A n \in Nodes : ChannelOrder(n)'
  BY <1>0 DEF OrderInv, PublishedOnce, ChannelOrder
<1>5. ASSUME NEW e \in Conns PROVE Ahead(e)' /\ WrittenInOrder(e)'
  <2>0. Ahead(e) /\ WrittenInOrder(e) /\ Node(e)' = Node(e)
    BY DEF OrderInv, Node
  <2>1. \A i \in DOMAIN sent'[e] : \/ i \in DOMAIN sent[e] /\ sent'[e][i] = sent[e][i]
                                   \/ sent'[e][i].msg = m
    BY <1>1, <1>2 DEF WrittenTo, Extends
  <2>2. WrittenInOrder(e)'
    BY <1>0, <1>3, <2>0, <2>1 DEF WrittenInOrder
  <2>3. Ahead(e)'
    <3>1. ASSUME NEW y, NEW l, JustServed(y, Node(e), l) PROVE JustServed(y, Node(e), l)'
      BY <1>0, <2>0, <3>1 DEF JustServed
    <3> QED  BY <1>0, <1>3, <2>0, <2>1, <3>1 DEF Ahead
  <2> QED  BY <2>2, <2>3
<1> QED  BY <1>4, <1>5 DEF OrderInv

\* The callback writes the head of the channel, after all that came before it
\* and once for a user.
LEMMA ServeKeepsOrder ==
  ASSUME DeliveryInv, OrderInv, NEW n \in Nodes, Serves(n)
  PROVE  OrderInv'
<1>1. PICK u \in deliverTo[n] :
        /\ subAt[n] = "deliver" /\ deliverTo' = [deliverTo EXCEPT ![n] = @ \ {u}]
        /\ \/ UNCHANGED sent
           \/ \E d \in Conns, x \in Copy : /\ x.msg = Head(channel[n]).msg /\ x.for = u /\ Node(d) = n
                                          /\ sent' = [sent EXCEPT ![d] = Append(@, x)]
        /\ UNCHANGED <<published, channel, subAt>>
  BY DEF Serves
<1>2. u \notin deliverTo'[n] /\ \A k \in Nodes : deliverTo'[k] \subseteq deliverTo[k]
  BY <1>1 DEF DeliveryInv, GroupType
<1>3. /\ 1 \in DOMAIN channel[n] /\ Head(channel[n]) = channel[n][1]
      /\ \A k \in DOMAIN channel[n] : k = 1 \/ 1 < k
  BY <1>1, HeadFacts
<1>4. CASE UNCHANGED sent
  BY <1>1, <1>2, <1>4, RestKeepsOrder
<1>5. ASSUME NEW d \in Conns, NEW x \in Copy, x.msg = Head(channel[n]).msg, x.for = u, Node(d) = n,
             sent' = [sent EXCEPT ![d] = Append(@, x)]
      PROVE  OrderInv'
  <2>1. PICK k : WrittenTo(d, k, x)
    BY <1>5, SendExtends DEF DeliveryInv
  <2>2. PublishedOnce' /\ \A l \in Nodes : ChannelOrder(l)'
    BY <1>1 DEF OrderInv, PublishedOnce, ChannelOrder
  <2>3. ASSUME NEW e \in Conns PROVE Ahead(e)'
    <3>0. Ahead(e) /\ Node(e)' = Node(e) /\ Node(e) \in Nodes /\ ChannelOrder(n)
      BY NodeType DEF OrderInv, Node
    <3>1. ASSUME NEW i \in DOMAIN sent'[e], NEW l \in DOMAIN channel[Node(e)]
          PROVE  \/ Precedes(published, sent'[e][i].msg, channel[Node(e)][l].msg)
                 \/ JustServed(sent[e][i], Node(e), l)'
      <4>1. CASE i \in DOMAIN sent[e] /\ sent'[e][i] = sent[e][i]
        <5>1. \/ Precedes(published, sent[e][i].msg, channel[Node(e)][l].msg)
              \/ JustServed(sent[e][i], Node(e), l)
          BY <3>0, <3>1, <4>1 DEF Ahead
        <5>2. JustServed(sent[e][i], Node(e), l) => JustServed(sent[e][i], Node(e), l)'
          BY <1>1, <1>2, <3>0, <4>1 DEF JustServed
        <5> QED  BY <4>1, <5>1, <5>2
      <4>2. CASE e = d /\ sent'[e][i] = x
        <5>1. CASE l = 1
          BY <1>1, <1>2, <1>3, <1>5, <3>0, <4>2, <5>1 DEF JustServed
        <5>2. CASE l # 1
          BY <1>3, <1>5, <3>0, <3>1, <4>2, <5>2 DEF ChannelOrder
        <5> QED  BY <5>1, <5>2
      <4> QED  BY <2>1, <3>1, <4>1, <4>2 DEF WrittenTo, Extends
    <3> QED  BY <1>1, <3>0, <3>1 DEF Ahead
  <2>4. ASSUME NEW e \in Conns PROVE WrittenInOrder(e)'
    <3>0. WrittenInOrder(e)
      BY DEF OrderInv
    <3>1. CASE e # d
      <4>1. sent'[e] = sent[e] /\ published' = published
        BY <1>1, <2>1, <3>1 DEF WrittenTo
      <4> QED  BY <3>0, <4>1 DEF WrittenInOrder
    <3>2. CASE e = d
      <4>0. Extends(sent'[e], sent[e], k, x)
        BY <2>1, <3>2 DEF WrittenTo
      <4>1. ASSUME NEW i \in DOMAIN sent'[e], NEW j \in DOMAIN sent'[e], i < j
            PROVE  \/ Precedes(published, sent'[e][i].msg, sent'[e][j].msg)
                   \/ sent'[e][i].msg = sent'[e][j].msg /\ sent'[e][i].for # sent'[e][j].for
        <5>1. i \in DOMAIN sent[e] /\ sent'[e][i] = sent[e][i]
          BY <4>0, <4>1 DEF Extends
        <5>2. CASE j \in DOMAIN sent[e]
          <6>1. sent'[e][j] = sent[e][j]
            BY <4>0, <5>2 DEF Extends
          <6> QED  BY <3>0, <4>1, <5>1, <5>2, <6>1 DEF WrittenInOrder
        <5>3. CASE j \notin DOMAIN sent[e]
          <6>1. sent'[e][j] = x
            BY <4>0, <4>1, <5>3 DEF Extends
          <6>2. \/ Precedes(published, sent[e][i].msg, channel[n][1].msg)
                \/ JustServed(sent[e][i], n, 1)
            BY <1>3, <1>5, <3>2, <5>1 DEF OrderInv, Ahead
          <6> QED  BY <1>1, <1>3, <1>5, <5>1, <6>1, <6>2 DEF JustServed
        <5> QED  BY <5>2, <5>3
      <4> QED  BY <1>1, <4>1 DEF WrittenInOrder
    <3> QED  BY <3>1, <3>2
  <2> QED  BY <2>2, <2>3, <2>4 DEF OrderInv
<1> QED  BY <1>1, <1>4, <1>5

\* A message that was served leaves the channel; a broken connection or a crash
\* empties it.
LEMMA ServedKeepsOrder ==
  ASSUME DeliveryInv, OrderInv, NEW n \in Nodes, Served(n) \/ Breaks(n) \/ Crashes(n)
  PROVE  OrderInv'
<1>0. /\ UNCHANGED <<published, sent>>
      /\ \A k \in Nodes : k # n => channel'[k] = channel[k] /\ subAt'[k] = subAt[k] /\ deliverTo'[k] = deliverTo[k]
  BY DEF Served, Breaks, Crashes, DeliveryInv, ChannelInv, GroupType
<1>1. \A k \in DOMAIN channel'[n] : /\ k \in Nat \ {0} /\ k + 1 \in DOMAIN channel[n]
                                    /\ channel'[n][k] = channel[n][k + 1]
  <2>1. CASE Served(n)
    <3>1. channel'[n] = Tail(channel[n]) /\ subAt[n] = "deliver"
      BY <2>1 DEF Served, DeliveryInv, ChannelInv
    <3> QED  BY <3>1, HeadFacts
  <2>2. CASE Breaks(n) \/ Crashes(n)
    <3>1. channel'[n] = <<>>
      BY <2>2 DEF Breaks, Crashes, DeliveryInv, ChannelInv
    <3> QED  BY <3>1
  <2> QED  BY <2>1, <2>2
<1>2. PublishedOnce' /\ \A c \in Conns : WrittenInOrder(c)'
  BY <1>0 DEF OrderInv, PublishedOnce, WrittenInOrder
<1>3. ASSUME NEW k \in Nodes PROVE ChannelOrder(k)'
  <2>0. ChannelOrder(k)
    BY DEF OrderInv
  <2>1. CASE k # n
    BY <1>0, <2>0, <2>1 DEF ChannelOrder
  <2>2. CASE k = n
    <3>1. ASSUME NEW i \in DOMAIN channel'[n], NEW j \in DOMAIN channel'[n], i < j
          PROVE  Precedes(published, channel'[n][i].msg, channel'[n][j].msg)
      <4>1. i + 1 < j + 1
        BY <1>1, <3>1
      <4> QED  BY <1>1, <2>0, <2>2, <4>1 DEF ChannelOrder
    <3> QED  BY <1>0, <2>2, <3>1 DEF ChannelOrder
  <2> QED  BY <2>1, <2>2
<1>4. ASSUME NEW c \in Conns PROVE Ahead(c)'
  <2>0. Ahead(c) /\ Node(c)' = Node(c) /\ Node(c) \in Nodes
    BY NodeType DEF OrderInv, Node
  <2>1. CASE Node(c) # n
    <3>1. ASSUME NEW y, NEW l, JustServed(y, Node(c), l) PROVE JustServed(y, Node(c), l)'
      BY <1>0, <2>0, <2>1, <3>1 DEF JustServed
    <3> QED  BY <1>0, <2>0, <2>1, <3>1 DEF Ahead
  <2>2. CASE Node(c) = n
    <3>1. ASSUME NEW i \in DOMAIN sent[c], NEW k \in DOMAIN channel'[n]
          PROVE  Precedes(published, sent[c][i].msg, channel'[n][k].msg)
      <4>1. k + 1 # 1 /\ k + 1 \in DOMAIN channel[n] /\ channel'[n][k] = channel[n][k + 1]
        BY <1>1
      <4> QED  BY <2>0, <2>2, <4>1 DEF Ahead, JustServed
    <3> QED  BY <1>0, <2>0, <2>2, <3>1 DEF Ahead
  <2> QED  BY <2>1, <2>2
<1> QED  BY <1>2, <1>3, <1>4 DEF OrderInv

\* Every step keeps it.
LEMMA OrderInvNext ==
  ASSUME DeliveryInv, CarryInv, HeldInv, OrderInv, Next
  PROVE  OrderInv'
<1>1. ASSUME \/ RestStep \/ \E c \in Conns : Issues(c) \/ Stores(c)
             \/ \E n \in Nodes : Drains(n)
      PROVE  OrderInv'
  BY <1>1, RestKeepsOrder DEF RestStep, Issues, Stores, Completes, Drains
<1> QED  BY <1>1, StepKinds, PublishKeepsOrder, WriteKeepsOrder, ServeKeepsOrder, ServedKeepsOrder

-----------------------------------------------------------------------------
(* Where a one-to-one message is.                                          *)

\* A message whose places a step leaves alone.
LEMMA PlaceKept ==
  ASSUME NEW m, \A c, i : OnConn(m, c, i)' <=> OnConn(m, c, i),
         \A i : InTable(m, i)' <=> InTable(m, i), \A n, i : InQueue(m, n, i)' <=> InQueue(m, n, i)
  PROVE  (InOnePlace(m) => InOnePlace(m)') /\ (Nowhere(m) => Nowhere(m)')
<1>1. OneOnConn(m) => OneOnConn(m)'
  BY DEF OneOnConn
<1>2. OneInTable(m) => OneInTable(m)'
  BY DEF OneInTable
<1>3. OneInQueue(m) => OneInQueue(m)'
  BY DEF OneInQueue
<1>4. (NotInTable(m) => NotInTable(m)') /\ (NotInQueue(m) => NotInQueue(m)') /\ (NotOnConn(m) => NotOnConn(m)')
  BY DEF NotOnConn, NotInTable, NotInQueue
<1> QED  BY <1>1, <1>2, <1>3, <1>4 DEF InOnePlace, Nowhere

\* A message that is not spent is nowhere.
LEMMA UnspentIsNowhere ==
  ASSUME HeldInv, NEW m, m \notin Spent
  PROVE  NotOnConn(m) /\ NotInTable(m) /\ NotInQueue(m) /\ m \notin forgotten
BY DEF HeldInv, Spent, NotOnConn, NotInTable, NotInQueue, OnConn, InTable, InQueue

\* Where the messages of a sequence are to which one was added.
LEMMA ExtendsAt ==
  ASSUME NEW t, NEW s, NEW k, NEW x, Extends(t, s, k, x)
  PROVE  \A m, j : (j \in DOMAIN t /\ t[j].msg = m) <=> (j \in DOMAIN s /\ s[j].msg = m) \/ (j = k /\ x.msg = m)
BY DEF Extends

\* The places stand still.
LEMMA SamePlaces ==
  ASSUME NEW m
  PROVE  /\ UNCHANGED sent => \A c, i : OnConn(m, c, i)' <=> OnConn(m, c, i)
         /\ SameTable => \A i : InTable(m, i)' <=> InTable(m, i)
         /\ UNCHANGED failedQueue => \A n, i : InQueue(m, n, i)' <=> InQueue(m, n, i)
BY DEF OnConn, SameTable, InQueue

\* A copy that is written.
LEMMA WrittenPlaces ==
  ASSUME NEW d \in Conns, NEW k, NEW x, WrittenTo(d, k, x), NEW m
  PROVE  \A c, i : OnConn(m, c, i)' <=> OnConn(m, c, i) \/ (c = d /\ i = k /\ x.msg = m)
<1>1. \A j : (j \in DOMAIN sent'[d] /\ sent'[d][j].msg = m)
               <=> (j \in DOMAIN sent[d] /\ sent[d][j].msg = m) \/ (j = k /\ x.msg = m)
  BY ExtendsAt DEF WrittenTo
<1> QED  BY <1>1 DEF OnConn, WrittenTo

\* After the step position k of connection d, or of the queue of d, is the only
\* one of its kind that has message m.
OnlyConn(m, d, k) == \A e, i : OnConn(m, e, i)' <=> (e = d /\ i = k)
OnlyQueue(m, d, k) == \A e, i : InQueue(m, e, i)' <=> (e = d /\ i = k)

\* Which is to have one place of that kind.
LEMMA OnlyIsOne ==
  ASSUME NEW m, NEW d, NEW k
  PROVE  (OnlyConn(m, d, k) => OneOnConn(m)') /\ (OnlyQueue(m, d, k) => OneInQueue(m)')
<1> DEFINE P(e, i) == OnConn(m, e, i)'
           Q(e, i) == InQueue(m, e, i)'
<1>1. /\ (\E f, l : \A e, i : P(e, i) <=> (e = f /\ i = l)) => OneOnConn(m)'
      /\ (\E f, l : \A e, i : Q(e, i) <=> (e = f /\ i = l)) => OneInQueue(m)'
  BY DEF OneOnConn, OneInQueue
<1>2. /\ OnlyConn(m, d, k) => \A e, i : P(e, i) <=> (e = d /\ i = k)
      /\ OnlyQueue(m, d, k) => \A e, i : Q(e, i) <=> (e = d /\ i = k)
  BY DEF OnlyConn, OnlyQueue
<1> HIDE DEF P, Q
<1>3. /\ (\A e, i : P(e, i) <=> (e = d /\ i = k)) => \E f, l : \A e, i : P(e, i) <=> (e = f /\ i = l)
      /\ (\A e, i : Q(e, i) <=> (e = d /\ i = k)) => \E f, l : \A e, i : Q(e, i) <=> (e = f /\ i = l)
  OBVIOUS
<1> QED  BY <1>1, <1>2, <1>3

\* A one-to-one message that is written was nowhere, and is then on one
\* connection; group messages are not counted.
LEMMA WriteKeepsPlaces ==
  ASSUME DeliveryInv, CarryInv, HeldInv, PlaceInv,
         (\E c \in Conns : Writes(c)) \/ (\E n \in Nodes : Serves(n))
  PROVE  PlaceInv'
<1>1. ASSUME NEW c \in Conns, Writes(c), NEW m \in acked' PROVE Placed(m)'
  <2>0. /\ acked' = acked \cup {req[c].msg} /\ SameTable /\ UNCHANGED <<forgotten, failedQueue>> /\ req[c].msg \notin Spent
    BY <1>1 DEF Writes, Completes, CarryInv
  <2>1. PICK d \in Conns, x \in Copy : x.msg = req[c].msg /\ sent' = [sent EXCEPT ![d] = Append(@, x)]
    BY <1>1 DEF Writes
  <2>2. PICK k : WrittenTo(d, k, x)
    BY <2>1, SendExtends DEF DeliveryInv
  <2>3. \A e, i : OnConn(m, e, i)' <=> OnConn(m, e, i) \/ (e = d /\ i = k /\ x.msg = m)
    BY <2>2, WrittenPlaces
  <2>4. CASE m = req[c].msg
    <3>1. NotOnConn(m) /\ NotInTable(m) /\ NotInQueue(m) /\ m \notin forgotten
      BY <2>0, <2>4, UnspentIsNowhere
    <3>2. OnlyConn(m, d, k)
      BY <2>1, <2>3, <2>4, <3>1 DEF NotOnConn, OnlyConn
    <3>3. OneOnConn(m)'
      BY <3>2, OnlyIsOne
    <3>4. NotInTable(m)' /\ NotInQueue(m)'
      BY <2>0, <3>1, SamePlaces DEF NotInTable, NotInQueue
    <3> QED  BY <2>0, <3>1, <3>3, <3>4 DEF Placed, InOnePlace
  <2>5. CASE m # req[c].msg
    <3>1. \A e, i : OnConn(m, e, i)' <=> OnConn(m, e, i)
      BY <2>1, <2>3, <2>5
    <3>2. Placed(m)
      BY <1>1, <2>0, <2>5 DEF PlaceInv
    <3> QED  BY <2>0, <3>1, <3>2, SamePlaces, PlaceKept DEF Placed
  <2> QED  BY <2>4, <2>5
<1>2. ASSUME NEW n \in Nodes, Serves(n), NEW m \in acked' PROVE Placed(m)'
  <2>0. acked' = acked /\ SameTable /\ UNCHANGED <<forgotten, failedQueue>> /\ subAt[n] = "deliver"
    BY <1>2 DEF Serves
  <2>3. Placed(m)
    BY <1>2, <2>0 DEF PlaceInv
  <2>1. CASE UNCHANGED sent
    BY <2>0, <2>1, <2>3, SamePlaces, PlaceKept DEF Placed
  <2>2. ASSUME NEW d \in Conns, NEW x \in Copy, x.msg = Head(channel[n]).msg,
               sent' = [sent EXCEPT ![d] = Append(@, x)]
        PROVE  Placed(m)'
    <3>1. PICK k : WrittenTo(d, k, x)
      BY <2>2, SendExtends DEF DeliveryInv
    <3>2. x.msg \in Range(published)
      BY <2>0, <2>2, HeadFacts DEF HeldInv
    <3>3. x.msg # m
      BY <1>2, <2>0, <3>2 DEF CarryInv
    <3>4. \A e, i : OnConn(m, e, i)' <=> OnConn(m, e, i)
      BY <3>1, <3>3, WrittenPlaces
    <3> QED  BY <2>0, <2>3, <3>4, SamePlaces, PlaceKept DEF Placed
  <2> QED  BY <1>2, <2>1, <2>2 DEF Serves
<1> QED  BY <1>1, <1>2 DEF PlaceInv

\* A one-to-one message that is stored was nowhere, and is then one answered row or
\* one item of a queue.
LEMMA StoreKeepsPlaces ==
  ASSUME DeliveryInv, CarryInv, HeldInv, PlaceInv, NEW c \in Conns, Stores(c)
  PROVE  PlaceInv'
<1> SUFFICES ASSUME NEW m \in acked' PROVE Placed(m)'
  BY DEF PlaceInv
<1>0. acked' = acked \cup {req[c].msg} /\ UNCHANGED <<sent, forgotten>> /\ req[c].msg \notin Spent
  BY DEF Stores, Completes, CarryInv
<1>1. m # req[c].msg => Placed(m)
  BY <1>0 DEF PlaceInv
<1>2. m = req[c].msg => NotOnConn(m) /\ NotInTable(m) /\ NotInQueue(m) /\ m \notin forgotten
  BY <1>0, UnspentIsNowhere
<1>3. ASSUME UNCHANGED failedQueue, NEW k, TableGains(k, req[c].msg) PROVE Placed(m)'
  <2>1. CASE m = req[c].msg
    <3>1. \A i : InTable(m, i)' <=> i = k
      BY <1>2, <1>3, <2>1 DEF TableGains, NotInTable
    <3>2. OneInTable(m)'
      BY <3>1 DEF OneInTable
    <3>3. NotOnConn(m)' /\ NotInQueue(m)'
      BY <1>0, <1>2, <1>3, <2>1, SamePlaces DEF NotOnConn, NotInQueue
    <3> QED  BY <1>0, <1>2, <2>1, <3>2, <3>3 DEF Placed, InOnePlace
  <2>2. CASE m # req[c].msg
    <3>1. \A i : InTable(m, i)' <=> InTable(m, i)
      BY <1>3, <2>2 DEF TableGains
    <3> QED  BY <1>0, <1>1, <1>3, <2>2, <3>1, SamePlaces, PlaceKept DEF Placed
  <2> QED  BY <2>1, <2>2
<1>4. ASSUME SameTable, NEW n \in Nodes, QueueGains(n, req[c].msg) PROVE Placed(m)'
  <2>0. \A l \in Nodes : l # n => failedQueue'[l] = failedQueue[l]
    BY <1>4, QueueFacts DEF DeliveryInv
  <2>1. PICK k, y : Extends(failedQueue'[n], failedQueue[n], k, y) /\ y.msg = req[c].msg
    BY <1>4, QueueFacts DEF DeliveryInv
  <2>2. \A j : (j \in DOMAIN failedQueue'[n] /\ failedQueue'[n][j].msg = m)
                 <=> (j \in DOMAIN failedQueue[n] /\ failedQueue[n][j].msg = m) \/ (j = k /\ y.msg = m)
    BY <2>1 DEF Extends
  <2>3. \A l, i : InQueue(m, l, i)' <=> InQueue(m, l, i) \/ (l = n /\ i = k /\ y.msg = m)
    BY <2>0, <2>2 DEF InQueue
  <2>4. CASE m = req[c].msg
    <3>1. OnlyQueue(m, n, k)
      BY <1>2, <2>1, <2>3, <2>4 DEF NotInQueue, OnlyQueue
    <3>2. OneInQueue(m)'
      BY <3>1, OnlyIsOne
    <3>3. NotOnConn(m)' /\ NotInTable(m)'
      BY <1>0, <1>2, <1>4, <2>4, SamePlaces DEF NotOnConn, NotInTable
    <3> QED  BY <1>0, <1>2, <2>4, <3>2, <3>3 DEF Placed, InOnePlace
  <2>5. CASE m # req[c].msg
    <3>1. \A l, i : InQueue(m, l, i)' <=> InQueue(m, l, i)
      BY <2>1, <2>3, <2>5
    <3> QED  BY <1>0, <1>1, <1>4, <2>5, <3>1, SamePlaces, PlaceKept DEF Placed
  <2> QED  BY <2>4, <2>5
<1> QED  BY <1>3, <1>4 DEF Stores

\* A drained message leaves the queue for the table; those behind it move up.
LEMMA DrainKeepsPlaces ==
  ASSUME DeliveryInv, HeldInv, PlaceInv, NEW n \in Nodes, Drains(n)
  PROVE  PlaceInv'
<1> SUFFICES ASSUME NEW m \in acked' PROVE Placed(m)'
  BY DEF PlaceInv
<1>0. Placed(m) /\ UNCHANGED <<sent, forgotten>>
  BY DEF Drains, PlaceInv
<1>1. PICK k : TableGains(k, Head(failedQueue[n]).msg)
  BY DEF Drains
<1>2. /\ \A l \in Nodes : l # n => failedQueue'[l] = failedQueue[l]
      /\ 1 \in DOMAIN failedQueue[n] /\ Head(failedQueue[n]) = failedQueue[n][1]
      /\ \A i : i \in DOMAIN failedQueue'[n] <=> i \in Nat \ {0} /\ i + 1 \in DOMAIN failedQueue[n]
      /\ \A i \in DOMAIN failedQueue'[n] : failedQueue'[n][i] = failedQueue[n][i + 1]
      /\ DOMAIN failedQueue[n] \subseteq Nat \ {0}
  BY QueueFacts DEF DeliveryInv
<1>3. /\ \A l, i : l # n => (InQueue(m, l, i)' <=> InQueue(m, l, i))
      /\ \A i : InQueue(m, n, i)' <=> i \in Nat \ {0} /\ InQueue(m, n, i + 1)
      /\ \A i : InQueue(m, n, i) => i \in Nat \ {0}
  BY <1>2 DEF InQueue
<1>4. NotOnConn(m) => NotOnConn(m)'
  BY <1>0, SamePlaces DEF NotOnConn
<1>5. CASE m = Head(failedQueue[n]).msg
  <2>1. InQueue(m, n, 1)
    BY <1>2, <1>5 DEF InQueue
  <2>2. m \notin forgotten /\ NotOnConn(m) /\ NotInTable(m) /\ OneInQueue(m)
    BY <1>0, <2>1 DEF Placed, Nowhere, InOnePlace, NotInQueue
  <2>3. \A l, i : InQueue(m, l, i) => l = n /\ i = 1
    BY <2>1, <2>2 DEF OneInQueue
  <2>4. \A i : i \in Nat \ {0} => i + 1 # 1
    OBVIOUS
  <2>5. NotInQueue(m)'
    BY <1>3, <2>3, <2>4 DEF NotInQueue
  <2>6. \A i : InTable(m, i)' <=> i = k
    BY <1>1, <1>5, <2>2 DEF TableGains, NotInTable
  <2>7. OneInTable(m)'
    BY <2>6 DEF OneInTable
  <2> QED  BY <1>0, <1>4, <2>2, <2>5, <2>7 DEF Placed, InOnePlace
<1>6. CASE m # Head(failedQueue[n]).msg
  <2>1. \A i : InTable(m, i)' <=> InTable(m, i)
    BY <1>1, <1>6 DEF TableGains
  <2>2. (NotInTable(m) => NotInTable(m)') /\ (OneInTable(m) => OneInTable(m)') /\ (OneOnConn(m) => OneOnConn(m)')
    <3>1. \A d, i : OnConn(m, d, i)' <=> OnConn(m, d, i)
      BY <1>0, SamePlaces
    <3>2. NotInTable(m) => NotInTable(m)'
      BY <2>1 DEF NotInTable
    <3>3. OneInTable(m) => OneInTable(m)'
      <4> SUFFICES ASSUME OneInTable(m) PROVE OneInTable(m)'
        OBVIOUS
      <4>1. PICK p : \A j : InTable(m, j) <=> j = p
        BY DEF OneInTable
      <4>2. \A j : InTable(m, j)' <=> j = p
        BY <2>1, <4>1
      <4> QED  BY <4>2 DEF OneInTable
    <3>4. OneOnConn(m) => OneOnConn(m)'
      <4> SUFFICES ASSUME OneOnConn(m) PROVE OneOnConn(m)'
        OBVIOUS
      <4>1. PICK d, p : \A e, j : OnConn(m, e, j) <=> e = d /\ j = p
        BY DEF OneOnConn
      <4>2. \A e, j : OnConn(m, e, j)' <=> e = d /\ j = p
        BY <3>1, <4>1
      <4> QED  BY <4>2 DEF OneOnConn
    <3> QED  BY <3>2, <3>3, <3>4
  <2>3. NotInQueue(m) => NotInQueue(m)'
    BY <1>3 DEF NotInQueue
  <2>4. ASSUME OneInQueue(m) PROVE OneInQueue(m)'
    <3>1. PICK l, p : \A e, j : InQueue(m, e, j) <=> e = l /\ j = p
      BY <2>4 DEF OneInQueue
    <3>2. CASE l # n
      <4>1. OnlyQueue(m, l, p)
        BY <1>3, <3>1, <3>2 DEF OnlyQueue
      <4> QED  BY <4>1, OnlyIsOne
    <3>3. CASE l = n
      <4>1. InQueue(m, n, p) /\ p \in Nat \ {0} /\ p # 1
        <5>1. InQueue(m, n, p) /\ p \in Nat \ {0}
          BY <1>3, <3>1, <3>3
        <5>2. p # 1
          BY <1>2, <1>6, <5>1 DEF InQueue
        <5> QED  BY <5>1, <5>2
      <4>2. \A i : (i \in Nat \ {0} /\ i + 1 = p) <=> i = p - 1
        BY <4>1
      <4>3. OnlyQueue(m, n, p - 1)
        BY <1>3, <3>1, <3>3, <4>2 DEF OnlyQueue
      <4> QED  BY <4>3, OnlyIsOne
    <3> QED  BY <3>2, <3>3
  <2> QED  BY <1>0, <1>4, <2>2, <2>3, <2>4 DEF Placed, Nowhere, InOnePlace
<1> QED  BY <1>5, <1>6

\* A crash takes the messages of one queue along, which are then nowhere.
LEMMA CrashKeepsPlaces ==
  ASSUME DeliveryInv, HeldInv, PlaceInv, NEW n \in Nodes, Crashes(n)
  PROVE  PlaceInv'
<1> SUFFICES ASSUME NEW m \in acked' PROVE Placed(m)'
  BY DEF PlaceInv
<1>0. Placed(m) /\ UNCHANGED sent /\ SameTable
  BY DEF Crashes, PlaceInv
<1>1. \A l, i : InQueue(m, l, i)' <=> InQueue(m, l, i) /\ l # n
  <2>1. failedQueue \in [Nodes -> Seq(Item)]
    BY DEF DeliveryInv, TableType
  <2>2. failedQueue'[n] = <<>> /\ \A l \in Nodes : l # n => failedQueue'[l] = failedQueue[l]
    BY <2>1 DEF Crashes
  <2> QED  BY <2>2 DEF InQueue
<1>2. m \in forgotten' <=> m \in forgotten \/ \E i : InQueue(m, n, i)
  BY DEF Crashes, InQueue
<1>3. CASE \E i : InQueue(m, n, i)
  <2>1. PICK p : InQueue(m, n, p)
    BY <1>3
  <2>2. NotOnConn(m) /\ NotInTable(m) /\ OneInQueue(m)
    BY <1>0, <2>1 DEF Placed, Nowhere, InOnePlace, NotInQueue
  <2>3. \A l, i : InQueue(m, l, i) => l = n
    BY <2>1, <2>2 DEF OneInQueue
  <2>4. NotInQueue(m)' /\ NotOnConn(m)' /\ NotInTable(m)'
    BY <1>0, <1>1, <2>2, <2>3, SamePlaces DEF NotInQueue, NotOnConn, NotInTable
  <2> QED  BY <1>2, <1>3, <2>4 DEF Placed, Nowhere
<1>4. CASE ~\E i : InQueue(m, n, i)
  <2>1. \A l, i : InQueue(m, l, i)' <=> InQueue(m, l, i)
    BY <1>1, <1>4
  <2> QED  BY <1>0, <1>2, <1>4, <2>1, SamePlaces, PlaceKept DEF Placed
<1> QED  BY <1>3, <1>4

\* A step that moves no one-to-one message.
LEMMA RestKeepsPlaces ==
  ASSUME PlaceInv, SameTable, UNCHANGED <<sent, acked, forgotten, failedQueue>>
  PROVE  PlaceInv'
<1> SUFFICES ASSUME NEW m \in acked' PROVE Placed(m)'
  BY DEF PlaceInv
<1>1. Placed(m)
  BY DEF PlaceInv
<1> QED  BY <1>1, SamePlaces, PlaceKept DEF Placed

\* Every step keeps an answered message where it is, or moves it as a whole.
LEMMA PlaceInvNext ==
  ASSUME DeliveryInv, CarryInv, HeldInv, PlaceInv, Next
  PROVE  PlaceInv'
<1>1. ASSUME \/ RestStep \/ \E c \in Conns : Issues(c) \/ Publishes(c)
             \/ \E n \in Nodes : Served(n) \/ Breaks(n)
      PROVE  PlaceInv'
  BY <1>1, RestKeepsPlaces, TableStands DEF RestStep, Issues, Publishes, Served, Breaks
<1> QED  BY <1>1, StepKinds, WriteKeepsPlaces, StoreKeepsPlaces, DrainKeepsPlaces, CrashKeepsPlaces

-----------------------------------------------------------------------------
(* What the places of a message count.                                     *)

\* Written and Retained are sets of positions, a pair each.
LEMMA PositionPairs ==
  ASSUME NEW m
  PROVE  /\ \A p \in Written(m) : \E c, i : p = <<c, i>> /\ OnConn(m, c, i)
         /\ \A c, i : OnConn(m, c, i) => <<c, i>> \in Written(m)
         /\ \A p \in Retained(m) : \E n, i : p = <<n, i>> /\ InQueue(m, n, i)
         /\ \A n, i : InQueue(m, n, i) => <<n, i>> \in Retained(m)
<1>1. ASSUME NEW p \in Written(m) PROVE \E c, i : p = <<c, i>> /\ OnConn(m, c, i)
  <2>1. PICK c \in Conns : p \in {c} \X DOMAIN sent[c] /\ sent[p[1]][p[2]].msg = m
    BY DEF Written
  <2>2. PICK i \in DOMAIN sent[c] : p = <<c, i>>
    BY <2>1
  <2> QED  BY <2>1, <2>2 DEF OnConn
<1>2. ASSUME NEW c, NEW i, OnConn(m, c, i) PROVE <<c, i>> \in Written(m)
  <2>1. <<c, i>> \in {c} \X DOMAIN sent[c] /\ c \in Conns /\ sent[<<c, i>>[1]][<<c, i>>[2]].msg = m
    BY <1>2 DEF OnConn
  <2> QED  BY <2>1 DEF Written
<1>3. ASSUME NEW p \in Retained(m) PROVE \E n, i : p = <<n, i>> /\ InQueue(m, n, i)
  <2>1. PICK n \in Nodes : p \in {n} \X DOMAIN failedQueue[n] /\ failedQueue[p[1]][p[2]].msg = m
    BY DEF Retained
  <2>2. PICK i \in DOMAIN failedQueue[n] : p = <<n, i>>
    BY <2>1
  <2> QED  BY <2>1, <2>2 DEF InQueue
<1>4. ASSUME NEW n, NEW i, InQueue(m, n, i) PROVE <<n, i>> \in Retained(m)
  <2>1. <<n, i>> \in {n} \X DOMAIN failedQueue[n] /\ n \in Nodes /\ failedQueue[<<n, i>>[1]][<<n, i>>[2]].msg = m
    BY <1>4 DEF InQueue
  <2> QED  BY <2>1 DEF Retained
<1> QED  BY <1>1, <1>2, <1>3, <1>4

\* A message in one place has one copy, one that is nowhere has none.
LEMMA OnePlaceOneCopy ==
  ASSUME NEW m
  PROVE  (InOnePlace(m) => Copies(m) = 1) /\ (Nowhere(m) => Copies(m) = 0)
<1>0. Cardinality({}) = 0 /\ \A x : Cardinality({x}) = 1
  BY FS_EmptySet, FS_Singleton
<1>1. NotOnConn(m) => Written(m) = {}
  BY PositionPairs DEF NotOnConn
<1>2. OneOnConn(m) => \E x : Written(m) = {x}
  <2> SUFFICES ASSUME OneOnConn(m) PROVE \E x : Written(m) = {x}
    OBVIOUS
  <2>1. PICK c, i : \A d, j : OnConn(m, d, j) <=> d = c /\ j = i
    BY DEF OneOnConn
  <2>2. Written(m) = {<<c, i>>}
    BY <2>1, PositionPairs
  <2> QED  BY <2>2
<1>3. NotInQueue(m) => Retained(m) = {}
  BY PositionPairs DEF NotInQueue
<1>4. OneInQueue(m) => \E x : Retained(m) = {x}
  <2> SUFFICES ASSUME OneInQueue(m) PROVE \E x : Retained(m) = {x}
    OBVIOUS
  <2>1. PICK n, i : \A l, j : InQueue(m, l, j) <=> l = n /\ j = i
    BY DEF OneInQueue
  <2>2. Retained(m) = {<<n, i>>}
    BY <2>1, PositionPairs
  <2> QED  BY <2>2
<1>5. (NotInTable(m) => Stored(m) = {}) /\ (OneInTable(m) => \E x : Stored(m) = {x})
  <2>1. \A i : i \in Stored(m) <=> InTable(m, i)
    BY DEF InTable, Stored
  <2>2. NotInTable(m) => Stored(m) = {}
    BY <2>1 DEF NotInTable
  <2>3. ASSUME OneInTable(m) PROVE \E x : Stored(m) = {x}
    <3>1. PICK i : \A j : InTable(m, j) <=> j = i
      BY <2>3 DEF OneInTable
    <3>2. Stored(m) = {i}
      BY <2>1, <3>1
    <3> QED  BY <3>2
  <2> QED  BY <2>2, <2>3
<1>6. /\ NotOnConn(m) => Cardinality(Written(m)) = 0
      /\ OneOnConn(m) => Cardinality(Written(m)) = 1
  BY <1>0, <1>1, <1>2
<1>7. (NotInQueue(m) => Cardinality(Retained(m)) = 0) /\ (OneInQueue(m) => Cardinality(Retained(m)) = 1)
  BY <1>0, <1>3, <1>4
<1>8. (NotInTable(m) => Cardinality(Stored(m)) = 0) /\ (OneInTable(m) => Cardinality(Stored(m)) = 1)
  BY <1>0, <1>5
<1> QED  BY <1>6, <1>7, <1>8 DEF InOnePlace, Nowhere, Copies

-----------------------------------------------------------------------------
(* The invariant and the theorems.                                         *)

MessageInv ==
  /\ DeliveryInv /\ NoMisdelivery /\ CarryInv /\ HeldInv /\ OrderInv
  /\ PlaceInv

\* The servers start in the invariant.
LEMMA MessageInvInit == Init => MessageInv
<1> SUFFICES ASSUME Init PROVE MessageInv
  OBVIOUS
<1>0. /\ pc = [c \in Conns |-> "idle"] /\ published = <<>> /\ acked = {} /\ forgotten = {} /\ sent = [c \in Conns |-> <<>>]
      /\ offlineMessage = <<>> /\ failedQueue = [n \in Nodes |-> <<>>] /\ channel = [n \in Nodes |-> <<>>]
      /\ DOMAIN <<>> = {}
  BY DEF Init, RedisInit
<1>1. Spent = {} /\ \A c \in Conns : Carried(c) = {}
  BY <1>0 DEF Spent, Range, Carried, WithMsg, WithPeer
<1>2. CarryInv
  BY <1>0, <1>1 DEF CarryInv
<1>3. \A c \in Conns : DOMAIN sent[c] = {}
  BY <1>0
<1>4. \A n \in Nodes : DOMAIN channel[n] = {} /\ DOMAIN failedQueue[n] = {}
  BY <1>0
<1>5. HeldInv
  BY <1>0, <1>3, <1>4 DEF HeldInv, InTable
<1>6. OrderInv
  BY <1>0, <1>3, <1>4 DEF OrderInv, PublishedOnce, ChannelOrder, Ahead, WrittenInOrder
<1>7. PlaceInv
  BY <1>0 DEF PlaceInv
<1> QED  BY <1>2, <1>5, <1>6, <1>7, DeliveryInvInit DEF MessageInv

\* Every step keeps it.
LEMMA MessageInvNext ==
  ASSUME MessageInv, [Next]_vars
  PROVE  MessageInv'
<1>0. /\ DeliveryInv /\ NoMisdelivery /\ CarryInv /\ HeldInv /\ OrderInv
      /\ PlaceInv
  BY DEF MessageInv
<1>1. DeliveryInv' /\ NoMisdelivery'
  BY <1>0, DeliveryInvNext
<1>2. CASE Next
  BY <1>0, <1>1, <1>2, CarryInvNext, HeldInvNext, OrderInvNext, PlaceInvNext DEF MessageInv
<1>3. CASE UNCHANGED vars
  <2>1. /\ UNCHANGED <<pc, uid, req, nextMsg, published, sent, acked, forgotten, offlineMessage, failedQueue>>
        /\ UNCHANGED <<channel, subAt, deliverTo>>
    BY <1>3 DEF vars, threadVars, quietVars, dbVars, histVars, redisVars, subVars
  <2>2. CarryInv' /\ HeldInv'
    BY <1>0, <2>1 DEF CarryInv, HeldInv, Spent, Carried, InTable
  <2>3. OrderInv'
    BY <1>0, <2>1, RestKeepsOrder
  <2>4. PlaceInv'
    BY <1>0, <2>1, RestKeepsPlaces, TableStands
  <2> QED  BY <1>1, <2>2, <2>3, <2>4 DEF MessageInv
<1> QED  BY <1>2, <1>3

\* However handlers of several nodes publish, subscriber threads deliver and
\* clients change users, a connection gets the group messages in the order Redis
\* published them, and none twice for the same user.
THEOREM GroupMessagesOrdered == Spec => []GroupOrder
<1>1. MessageInv /\ [Next]_vars => MessageInv'
  BY MessageInvNext
<1>2. MessageInv => GroupOrder
  <2> SUFFICES ASSUME MessageInv, NEW c \in Conns, NEW i \in DOMAIN sent[c], NEW j \in DOMAIN sent[c],
                      i < j, {sent[c][i].msg, sent[c][j].msg} \subseteq Range(published)
               PROVE  \/ PublishedAt(sent[c][i].msg) < PublishedAt(sent[c][j].msg)
                      \/ sent[c][i].msg = sent[c][j].msg /\ sent[c][i].for # sent[c][j].for
    BY DEF GroupOrder
  <2>1. \/ Precedes(published, sent[c][i].msg, sent[c][j].msg)
        \/ sent[c][i].msg = sent[c][j].msg /\ sent[c][i].for # sent[c][j].for
    BY DEF MessageInv, OrderInv, WrittenInOrder
  <2>2. \A m \in Range(published) : PublishedAt(m) \in DOMAIN published /\ published[PublishedAt(m)] = m
    BY DEF PublishedAt, Range
  <2> QED  BY <2>1, <2>2 DEF Precedes
<1> QED  BY <1>1, <1>2, MessageInvInit, PTL DEF Spec

\* A one-to-one message whose sender was told errno 0 was handed to one connection,
\* or is one row whose INSERT was answered, or one item of one retry queue, and only
\* one of the three, whatever logins, logouts, lost replies, failing statements and
\* partial drains do; it is in none of them only if a node crashed with it in its
\* failedQueue_.
THEOREM AnsweredOnce == Spec => []AckedOnce
<1>1. MessageInv /\ [Next]_vars => MessageInv'
  BY MessageInvNext
<1>2. MessageInv => AckedOnce
  BY OnePlaceOneCopy DEF MessageInv, PlaceInv, Placed, AckedOnce
<1> QED  BY <1>1, <1>2, MessageInvInit, PTL DEF Spec

===============================================================================
