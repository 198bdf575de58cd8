--------------------------- MODULE ChatServiceProofs ---------------------------
(***************************************************************************)
(* Theorems about ChatService, for any number of nodes, connections, users *)
(* and groups, any budget of faults and any bounds.                        *)
(*                                                                         *)
(* EntryIsBacked and OneEntryPerConn are not inductive: a login that is    *)
(* running on a connection which broke meanwhile is allowed any entry by   *)
(* the last disjunct of EntryIsBacked, and inserting a second one would    *)
(* break OneEntryPerConn.  SessionInv adds what the position of a handler  *)
(* says about the entries that hold its connection: none before the insert *)
(* of a login and after the erase of a logout, only its own in between.    *)
(***************************************************************************)
EXTENDS ChatService, TLAPS

SessionType ==
  /\ link \in [Conns -> {"up", "closing", "closed"}]
  /\ session \in [Conns -> Users \cup {NoUser}]
  /\ pc \in [Conns -> Labels]
  /\ uid \in [Conns -> Users \cup {NoUser}]
  /\ userConnMap \in [Nodes -> [Users -> Conns \cup {NoConn}]]

\* A running handler works for a user; a client that is logged in runs neither a
\* login nor a logout; on a closed connection only the end of a logout runs.
HandlerHasUser == \A c \in Conns : pc[c] # "idle" => uid[c] \in Users
SessionAtRest ==
  \A c \in Conns :
    /\ session[c] # NoUser => link[c] = "up" /\ pc[c] \in Chatting \cup {"idle"}
    /\ link[c] = "closed" => pc[c] \in AfterErase \cup {"idle"}

HoldsNone(c) == \A n \in Nodes, u \in Users : userConnMap[n][u] # c
HoldsOwn(c) == \A n \in Nodes, u \in Users : userConnMap[n][u] = c => u = uid[c]

EntriesOfHandler ==
  \A c \in Conns :
    /\ pc[c] \in BeforeInsert \cup AfterErase => HoldsNone(c)
    /\ pc[c] \in AfterInsert \cup {"erase"} => HoldsOwn(c)

SessionInv ==
  /\ SessionType /\ HandlerHasUser /\ SessionAtRest
  /\ EntriesOfHandler /\ EntryIsBacked /\ OneEntryPerConn

-----------------------------------------------------------------------------
(* The phases of a handler.                                                *)

\* The phases of a handler exclude each other.
LEMMA Phases ==
  /\ \A l \in BeforeInsert : l \in Labels /\ l \notin AfterInsert \cup AfterErase \cup Chatting \cup {"idle", "erase"}
  /\ \A l \in AfterInsert : l \in Labels /\ l \notin AfterErase \cup Chatting \cup {"idle", "erase"}
  /\ \A l \in AfterErase : l \in Labels /\ l \notin Chatting \cup {"idle", "erase"}
  /\ \A l \in Chatting : l \in Labels /\ l \notin {"idle", "erase"}
  /\ "idle" \in Labels /\ "erase" \in Labels /\ "erase" # "idle"
BY DEF BeforeInsert, AfterInsert, AfterErase, Chatting, Labels, OnlineSteps, OfflineSteps

SamePhase(l, m) ==
  \/ l \in BeforeInsert /\ m \in BeforeInsert
  \/ l \in AfterInsert /\ m \in AfterInsert
  \/ l \in AfterErase /\ m \in AfterErase
  \/ l \in Chatting /\ m \in Chatting

\* A step that changes nothing the invariant speaks of.
LEMMA QuietKeepsInv ==
  ASSUME SessionInv, UNCHANGED <<link, session, pc, uid, userConnMap>>
  PROVE  SessionInv'
BY DEF SessionInv, SessionType, HandlerHasUser, SessionAtRest, EntriesOfHandler, HoldsNone,
       HoldsOwn, EntryIsBacked, Backs, Node, OneEntryPerConn

\* A handler goes on within its phase, or returns from any phase but that of a
\* login which has inserted its entry.
LEMMA MoveKeepsInv ==
  ASSUME SessionInv, NEW c \in Conns, NEW l, UNCHANGED <<link, session, userConnMap>>,
         pc' = [pc EXCEPT ![c] = l],
         \/ uid' = uid /\ SamePhase(pc[c], l)
         \/ /\ uid' = [uid EXCEPT ![c] = NoUser] /\ l = "idle"
            /\ pc[c] \in BeforeInsert \cup AfterErase \cup Chatting
  PROVE  SessionInv'
<1>1. SessionType'
  BY Phases DEF SessionInv, SessionType, SamePhase
<1>2. \A d \in Conns : pc'[d] = IF d = c THEN l ELSE pc[d]
  BY DEF SessionInv, SessionType
<1>3. \A d \in Conns : d # c => uid'[d] = uid[d]
  BY DEF SessionInv, SessionType
<1>4. \A d \in Conns : l # "idle" => uid'[d] = uid[d]
  BY DEF SessionInv, SessionType
<1>5. HandlerHasUser'
  <2> SUFFICES ASSUME NEW d \in Conns, pc'[d] # "idle" PROVE uid'[d] \in Users
    BY DEF HandlerHasUser
  <2>1. pc[d] # "idle" /\ uid'[d] = uid[d]
    BY <1>2, <1>3, <1>4, Phases DEF SamePhase
  <2> QED  BY <2>1 DEF SessionInv, HandlerHasUser
<1>6. SessionAtRest'
  BY <1>2, Phases DEF SessionInv, SessionAtRest, SamePhase
<1>7. EntriesOfHandler'
  <2> SUFFICES ASSUME NEW d \in Conns
               PROVE  /\ pc'[d] \in BeforeInsert \cup AfterErase => HoldsNone(d)
                      /\ pc'[d] \in AfterInsert \cup {"erase"} => HoldsOwn(d)'
    BY DEF EntriesOfHandler, HoldsNone
  <2>1. CASE pc'[d] \in BeforeInsert \cup AfterErase
    <3>1. pc[d] \in BeforeInsert \cup AfterErase
      BY <1>2, <2>1, Phases DEF SamePhase
    <3> QED  BY <2>1, <3>1, Phases DEF SessionInv, EntriesOfHandler
  <2>2. CASE pc'[d] \in AfterInsert \cup {"erase"}
    <3>1. pc[d] \in AfterInsert \cup {"erase"} /\ uid'[d] = uid[d]
      BY <1>2, <1>3, <1>4, <2>2, Phases DEF SamePhase
    <3> QED  BY <2>2, <3>1, Phases DEF SessionInv, EntriesOfHandler, HoldsOwn
  <2> QED  BY <2>1, <2>2
<1>8. EntryIsBacked'
  <2> SUFFICES ASSUME NEW n \in Nodes, NEW u \in Users, NEW d \in Conns, userConnMap[n][u] = d
               PROVE  Backs(d, n, u)'
    BY DEF SessionInv, SessionType, EntryIsBacked
  <2>1. Backs(d, n, u)
    BY ConnAssumption DEF SessionInv, EntryIsBacked
  <2>2. ASSUME pc[d] \in AfterInsert \cup {"erase"}
        PROVE  pc'[d] \in AfterInsert \cup {"erase"} /\ uid'[d] = uid[d]
    BY <1>2, <1>3, <1>4, <2>2, Phases DEF SamePhase
  <2> QED  BY <2>1, <2>2 DEF Backs, Node
<1>9. OneEntryPerConn'
  BY DEF SessionInv, OneEntryPerConn
<1> QED  BY <1>1, <1>5, <1>6, <1>7, <1>8, <1>9 DEF SessionInv

\* A request starts: a login on a connection without a session, anything else
\* but a logout on one with a session.
LEMMA StartKeepsInv ==
  ASSUME SessionInv, NEW c \in Conns, NEW l, NEW u \in Users,
         UNCHANGED <<link, session, userConnMap>>,
         Ready(c), pc' = [pc EXCEPT ![c] = l], uid' = [uid EXCEPT ![c] = u],
         \/ session[c] = NoUser /\ l \in BeforeInsert
         \/ session[c] # NoUser /\ l \in Chatting
  PROVE  SessionInv'
<1>1. SessionType'
  BY Phases DEF SessionInv, SessionType
<1>2. \A d \in Conns : pc'[d] = IF d = c THEN l ELSE pc[d]
  BY DEF SessionInv, SessionType
<1>3. \A d \in Conns : uid'[d] = IF d = c THEN u ELSE uid[d]
  BY DEF SessionInv, SessionType
<1>4. HandlerHasUser'
  BY <1>2, <1>3 DEF SessionInv, HandlerHasUser
<1>5. SessionAtRest'
  BY <1>2, Phases DEF SessionInv, SessionAtRest, Ready
<1>6. session[c] = NoUser => HoldsNone(c)
  BY Phases, ConnAssumption DEF SessionInv, EntryIsBacked, Backs, Ready, HoldsNone
<1>7. EntriesOfHandler'
  BY <1>2, <1>3, <1>6, Phases DEF SessionInv, EntriesOfHandler, HoldsNone, HoldsOwn
<1>8. EntryIsBacked'
  <2> SUFFICES ASSUME NEW n \in Nodes, NEW v \in Users, NEW d \in Conns, userConnMap[n][v] = d
               PROVE  Backs(d, n, v)'
    BY DEF SessionInv, SessionType, EntryIsBacked
  <2>1. Backs(d, n, v)
    BY ConnAssumption DEF SessionInv, EntryIsBacked
  <2>2. CASE d = c
    BY <1>6, <2>1, <2>2, ConnAssumption, Phases DEF Backs, Node, HoldsNone, Ready
  <2>3. CASE d # c
    BY <1>2, <1>3, <2>1, <2>3 DEF Backs, Node
  <2> QED  BY <2>2, <2>3
<1>9. OneEntryPerConn'
  BY DEF SessionInv, OneEntryPerConn
<1> QED  BY <1>1, <1>4, <1>5, <1>7, <1>8, <1>9 DEF SessionInv

-----------------------------------------------------------------------------
(* The steps that change the map, a session or a connection.               *)

\* A new connection has no entry.
LEMMA ConnectKeepsInv ==
  ASSUME SessionInv, NEW c \in Conns, Connect(c)
  PROVE  SessionInv'
<1>1. SessionType'
  BY DEF SessionInv, SessionType, Connect, threadVars
<1>2. \A d \in Conns : link'[d] = IF d = c THEN "up" ELSE link[d]
  BY DEF Connect, SessionInv, SessionType
<1>3. UNCHANGED <<session, pc, uid, userConnMap>> /\ link[c] = "closed"
  BY DEF Connect, threadVars
<1>4. HandlerHasUser' /\ EntriesOfHandler' /\ OneEntryPerConn'
  BY <1>3 DEF SessionInv, HandlerHasUser, EntriesOfHandler, HoldsNone, HoldsOwn, OneEntryPerConn
<1>5. SessionAtRest'
  BY <1>2, <1>3 DEF SessionInv, SessionAtRest
<1>6. EntryIsBacked'
  BY <1>2, <1>3 DEF SessionInv, SessionType, EntryIsBacked, Backs, Node
<1> QED  BY <1>1, <1>4, <1>5, <1>6 DEF SessionInv

\* A client may go at any time.
LEMMA ClientCloseKeepsInv ==
  ASSUME SessionInv, NEW c \in Conns, ClientClose(c)
  PROVE  SessionInv'
<1>1. SessionType'
  BY DEF SessionInv, SessionType, ClientClose, threadVars
<1>2. \A d \in Conns : link'[d] = IF d = c THEN "closing" ELSE link[d]
  BY DEF ClientClose, SessionInv, SessionType
<1>3. \A d \in Conns : session'[d] = IF d = c THEN NoUser ELSE session[d]
  BY DEF ClientClose, SessionInv, SessionType
<1>4. UNCHANGED <<pc, uid, userConnMap>>
  BY DEF ClientClose, threadVars
<1>5. HandlerHasUser' /\ EntriesOfHandler' /\ OneEntryPerConn'
  BY <1>4 DEF SessionInv, HandlerHasUser, EntriesOfHandler, HoldsNone, HoldsOwn, OneEntryPerConn
<1>6. SessionAtRest'
  BY <1>2, <1>3, <1>4 DEF SessionInv, SessionAtRest
<1>7. EntryIsBacked'
  BY <1>2, <1>3, <1>4 DEF SessionInv, SessionType, EntryIsBacked, Backs, Node
<1> QED  BY <1>1, <1>5, <1>6, <1>7 DEF SessionInv

\* unordered_map::insert: the connection held no entry before, so it holds at
\* most its own now.
LEMMA InsertConnKeepsInv ==
  ASSUME SessionInv, NEW c \in Conns, InsertConn(c)
  PROVE  SessionInv'
<1>1. /\ pc[c] = "insert" /\ uid[c] \in Users /\ Node(c) \in Nodes
      /\ "insert" \in BeforeInsert /\ "on_online" \in AfterInsert
  BY ConnAssumption DEF InsertConn, At, SessionInv, HandlerHasUser, BeforeInsert, AfterInsert,
                        OnlineSteps, Node
<1>2. /\ pc' = [pc EXCEPT ![c] = "on_online"] /\ UNCHANGED <<link, session, uid>>
      /\ userConnMap' = [userConnMap EXCEPT ![Node(c)][uid[c]] = IF @ = NoConn THEN c ELSE @]
  BY DEF InsertConn, Jump, clientVars
<1>3. SessionType'
  BY <1>1, <1>2, Phases DEF SessionInv, SessionType
<1>4. \A d \in Conns : pc'[d] = IF d = c THEN "on_online" ELSE pc[d]
  BY <1>2 DEF SessionInv, SessionType
<1>5. \A n \in Nodes, u \in Users :
        \/ userConnMap'[n][u] = userConnMap[n][u]
        \/ n = Node(c) /\ u = uid[c] /\ userConnMap'[n][u] = c /\ userConnMap[n][u] = NoConn
  BY <1>1, <1>2 DEF SessionInv, SessionType
<1>6. HoldsNone(c) /\ session[c] = NoUser /\ link[c] # "closed"
  BY <1>1, Phases DEF SessionInv, EntriesOfHandler, SessionAtRest
<1>7. HandlerHasUser' /\ SessionAtRest'
  BY <1>1, <1>2, <1>4, <1>6, Phases DEF SessionInv, HandlerHasUser, SessionAtRest
<1>8. EntriesOfHandler'
  <2> SUFFICES ASSUME NEW d \in Conns
               PROVE  /\ pc'[d] \in BeforeInsert \cup AfterErase => HoldsNone(d)'
                      /\ pc'[d] \in AfterInsert \cup {"erase"} => HoldsOwn(d)'
    BY DEF EntriesOfHandler
  <2>1. CASE d = c
    BY <1>1, <1>2, <1>4, <1>5, <1>6, <2>1, Phases DEF HoldsNone, HoldsOwn
  <2>2. CASE d # c
    <3>1. \A n \in Nodes, u \in Users : userConnMap'[n][u] = d => userConnMap[n][u] = d
      BY <1>5, <2>2
    <3> QED  BY <1>2, <1>4, <2>2, <3>1 DEF SessionInv, EntriesOfHandler, HoldsNone, HoldsOwn
  <2> QED  BY <2>1, <2>2
<1>9. EntryIsBacked'
  <2> SUFFICES ASSUME NEW n \in Nodes, NEW u \in Users, NEW d \in Conns, userConnMap'[n][u] = d
               PROVE  Backs(d, n, u)'
    BY <1>3 DEF SessionType, EntryIsBacked
  <2>1. CASE d = c
    <3>1. n = Node(c) /\ u = uid[c]
      BY <1>5, <1>6, <2>1 DEF HoldsNone
    <3> QED  BY <1>1, <1>2, <1>4, <1>6, <2>1, <3>1 DEF Backs, Node
  <2>2. CASE d # c
    <3>1. Backs(d, n, u)
      BY <1>5, <2>2, ConnAssumption DEF SessionInv, EntryIsBacked
    <3> QED  BY <1>2, <1>4, <2>2, <3>1 DEF Backs, Node
  <2> QED  BY <2>1, <2>2
<1>10. OneEntryPerConn'
  <2> SUFFICES ASSUME NEW n \in Nodes, NEW u \in Users, NEW v \in Users,
                      userConnMap'[n][u] # NoConn, userConnMap'[n][u] = userConnMap'[n][v]
               PROVE  u = v
    BY DEF OneEntryPerConn
  <2>1. CASE userConnMap'[n][u] = c
    <3>1. userConnMap[n][u] # c /\ userConnMap[n][v] # c
      BY <1>6 DEF HoldsNone
    <3> QED  BY <1>5, <2>1, <3>1
  <2>2. CASE userConnMap'[n][u] # c
    <3>1. userConnMap'[n][u] = userConnMap[n][u] /\ userConnMap'[n][v] = userConnMap[n][v]
      BY <1>5, <2>2
    <3> QED  BY <3>1 DEF SessionInv, OneEntryPerConn
  <2> QED  BY <2>1, <2>2
<1> QED  BY <1>3, <1>7, <1>8, <1>9, <1>10 DEF SessionInv

\* The answer to a login turns the entry of the handler into one of a session.
LEMMA LoginAckKeepsInv ==
  ASSUME SessionInv, NEW c \in Conns, LoginAck(c)
  PROVE  SessionInv'
<1>1. pc[c] = "ack" /\ uid[c] \in Users /\ "ack" \in AfterInsert
  BY DEF LoginAck, doLoginResponse, At, SessionInv, HandlerHasUser, AfterInsert
<1>2. /\ pc' = [pc EXCEPT ![c] = "idle"] /\ uid' = [uid EXCEPT ![c] = NoUser]
      /\ UNCHANGED <<link, userConnMap>>
      /\ \/ link[c] = "up" /\ session' = [session EXCEPT ![c] = uid[c]]
         \/ link[c] = "closing" /\ session' = session
  BY DEF LoginAck, doLoginResponse, Return
<1>3. SessionType'
  BY <1>1, <1>2, Phases DEF SessionInv, SessionType
<1>4. \A d \in Conns : pc'[d] = IF d = c THEN "idle" ELSE pc[d]
  BY <1>2 DEF SessionInv, SessionType
<1>5. \A d \in Conns : d # c => uid'[d] = uid[d] /\ session'[d] = session[d]
  BY <1>2 DEF SessionInv, SessionType
<1>6. /\ session[c] = NoUser /\ HoldsOwn(c)
      /\ \/ link[c] = "up" /\ session'[c] = uid[c]
         \/ link[c] = "closing" /\ session'[c] = NoUser
  BY <1>1, <1>2, Phases DEF SessionInv, SessionType, SessionAtRest, EntriesOfHandler
<1>7. HandlerHasUser'
  BY <1>4, <1>5 DEF SessionInv, HandlerHasUser
<1>8. SessionAtRest'
  BY <1>2, <1>4, <1>5, <1>6 DEF SessionInv, SessionAtRest
<1>9. EntriesOfHandler'
  BY <1>2, <1>4, <1>5, Phases DEF SessionInv, EntriesOfHandler, HoldsNone, HoldsOwn
<1>10. EntryIsBacked'
  <2> SUFFICES ASSUME NEW n \in Nodes, NEW u \in Users, NEW d \in Conns, userConnMap[n][u] = d
               PROVE  Backs(d, n, u)'
    BY <1>2 DEF SessionInv, SessionType, EntryIsBacked
  <2>1. Backs(d, n, u)
    BY ConnAssumption DEF SessionInv, EntryIsBacked
  <2>2. CASE d = c
    BY <1>2, <1>6, <2>1, <2>2 DEF Backs, Node, HoldsOwn
  <2>3. CASE d # c
    BY <1>2, <1>4, <1>5, <2>1, <2>3 DEF Backs, Node
  <2> QED  BY <2>2, <2>3
<1>11. OneEntryPerConn'
  BY <1>2 DEF SessionInv, OneEntryPerConn
<1> QED  BY <1>3, <1>7, <1>8, <1>9, <1>10, <1>11 DEF SessionInv

\* A logout starts with the entry of its own user, if any.
LEMMA LogoutKeepsInv ==
  ASSUME SessionInv, NEW c \in Conns, Logout(c)
  PROVE  SessionInv'
<1>1. /\ link[c] = "up" /\ pc[c] = "idle" /\ session[c] \in Users
  BY DEF Logout, LoggedIn, Ready, SessionInv, SessionType
<1>2. /\ pc' = [pc EXCEPT ![c] = "erase"] /\ uid' = [uid EXCEPT ![c] = session[c]]
      /\ session' = [session EXCEPT ![c] = NoUser]
      /\ UNCHANGED <<link, userConnMap>>
  BY DEF Logout, Start
<1>3. SessionType'
  BY <1>1, <1>2, Phases DEF SessionInv, SessionType
<1>4. \A d \in Conns : pc'[d] = IF d = c THEN "erase" ELSE pc[d]
  BY <1>2 DEF SessionInv, SessionType
<1>5. \A d \in Conns : uid'[d] = IF d = c THEN session[c] ELSE uid[d]
  BY <1>2 DEF SessionInv, SessionType
<1>6. \A d \in Conns : session'[d] = IF d = c THEN NoUser ELSE session[d]
  BY <1>2 DEF SessionInv, SessionType
<1>7. \A n \in Nodes, u \in Users : userConnMap[n][u] = c => u = session[c] /\ Node(c) = n
  BY <1>1, ConnAssumption DEF SessionInv, EntryIsBacked, Backs
<1>8. HandlerHasUser'
  BY <1>1, <1>4, <1>5 DEF SessionInv, HandlerHasUser
<1>9. SessionAtRest'
  BY <1>1, <1>2, <1>4, <1>6 DEF SessionInv, SessionAtRest
<1>10. EntriesOfHandler'
  BY <1>2, <1>4, <1>5, <1>7, Phases DEF SessionInv, EntriesOfHandler, HoldsNone, HoldsOwn
<1>11. EntryIsBacked'
  <2> SUFFICES ASSUME NEW n \in Nodes, NEW u \in Users, NEW d \in Conns, userConnMap[n][u] = d
               PROVE  Backs(d, n, u)'
    BY <1>2 DEF SessionInv, SessionType, EntryIsBacked
  <2>1. CASE d = c
    BY <1>1, <1>2, <1>4, <1>5, <1>6, <1>7, <2>1 DEF Backs, Node
  <2>2. CASE d # c
    <3>1. Backs(d, n, u)
      BY ConnAssumption DEF SessionInv, EntryIsBacked
    <3> QED  BY <1>2, <1>4, <1>5, <1>6, <2>2, <3>1 DEF Backs, Node
  <2> QED  BY <2>1, <2>2
<1>12. OneEntryPerConn'
  BY <1>2 DEF SessionInv, OneEntryPerConn
<1> QED  BY <1>3, <1>8, <1>9, <1>10, <1>11, <1>12 DEF SessionInv

\* A step that erases at most one entry, after which connection c holds none,
\* and brings the handler of c into the phase after the erase.
LEMMA EraseKeepsInv ==
  ASSUME SessionInv, NEW c \in Conns, NEW u \in Users, pc[c] \in {"idle", "erase"},
         pc' = [pc EXCEPT ![c] = "off_online"], uid' = [uid EXCEPT ![c] = u],
         userConnMap' = [userConnMap EXCEPT ![Node(c)][u] = NoConn],
         UNCHANGED link \/ link' = [link EXCEPT ![c] = "closed"],
         UNCHANGED session, session[c] = NoUser,
         \A n \in Nodes, v \in Users : userConnMap[n][v] = c => v = u /\ n = Node(c)
  PROVE  SessionInv'
<1>1. "off_online" \in AfterErase /\ Node(c) \in Nodes
  BY ConnAssumption DEF AfterErase, OfflineSteps, Node
<1>2. SessionType'
  BY <1>1, Phases DEF SessionInv, SessionType
<1>3. \A d \in Conns : pc'[d] = IF d = c THEN "off_online" ELSE pc[d]
  BY DEF SessionInv, SessionType
<1>4. \A d \in Conns : d # c => uid'[d] = uid[d] /\ link'[d] = link[d]
  BY DEF SessionInv, SessionType
<1>5. \A n \in Nodes, v \in Users :
        userConnMap'[n][v] = IF n = Node(c) /\ v = u THEN NoConn ELSE userConnMap[n][v]
  BY <1>1 DEF SessionInv, SessionType
<1>6. HoldsNone(c)'
  BY <1>5, ConnAssumption DEF HoldsNone
<1>7. \A n \in Nodes, v \in Users, d \in Conns : userConnMap'[n][v] = d => userConnMap[n][v] = d
  BY <1>5, ConnAssumption
<1>8. HandlerHasUser'
  <2>1. uid'[c] = u
    BY DEF SessionInv, SessionType
  <2> QED  BY <1>3, <1>4, <2>1 DEF SessionInv, HandlerHasUser
<1>9. SessionAtRest'
  BY <1>1, <1>3, <1>4 DEF SessionInv, SessionAtRest
<1>10. EntriesOfHandler'
  BY <1>1, <1>3, <1>4, <1>6, <1>7, Phases DEF SessionInv, EntriesOfHandler, HoldsNone, HoldsOwn
<1>11. EntryIsBacked'
  <2> SUFFICES ASSUME NEW n \in Nodes, NEW v \in Users, NEW d \in Conns, userConnMap'[n][v] = d
               PROVE  Backs(d, n, v)'
    BY <1>2 DEF SessionType, EntryIsBacked
  <2>1. d # c
    BY <1>6 DEF HoldsNone
  <2>2. Backs(d, n, v)
    BY <1>7, ConnAssumption DEF SessionInv, EntryIsBacked
  <2> QED  BY <1>3, <1>4, <2>1, <2>2 DEF Backs, Node
<1>12. OneEntryPerConn'
  BY <1>5 DEF SessionInv, OneEntryPerConn
<1> QED  BY <1>2, <1>8, <1>9, <1>10, <1>11, <1>12 DEF SessionInv

\* loginOut erases the entry of its user, whichever connection it holds.
LEMMA EraseConnKeepsInv ==
  ASSUME SessionInv, NEW c \in Conns, EraseConn(c)
  PROVE  SessionInv'
<1>1. pc[c] = "erase" /\ uid[c] \in Users /\ session[c] = NoUser
  BY Phases DEF EraseConn, At, SessionInv, HandlerHasUser, SessionAtRest
<1>2. \A n \in Nodes, v \in Users : userConnMap[n][v] = c => v = uid[c] /\ n = Node(c)
  BY <1>1, ConnAssumption DEF SessionInv, EntriesOfHandler, HoldsOwn, EntryIsBacked, Backs
<1>3. /\ pc' = [pc EXCEPT ![c] = "off_online"] /\ uid' = [uid EXCEPT ![c] = uid[c]]
      /\ userConnMap' = [userConnMap EXCEPT ![Node(c)][uid[c]] = NoConn]
      /\ UNCHANGED <<link, session>>
  BY DEF EraseConn, Jump, clientVars, SessionInv, SessionType
<1> QED  BY <1>1, <1>2, <1>3, EraseKeepsInv

\* The loop of clientQuitEcption stops at the first entry it finds; by
\* OneEntryPerConn there is no second.
LEMMA clientQuitEcptionKeepsInv ==
  ASSUME SessionInv, NEW c \in Conns, clientQuitEcption(c)
  PROVE  SessionInv'
<1>1. /\ link[c] = "closing" /\ pc[c] = "idle" /\ session[c] = NoUser /\ Node(c) \in Nodes
      /\ link' = [link EXCEPT ![c] = "closed"] /\ UNCHANGED session
  BY ConnAssumption DEF clientQuitEcption, At, SessionInv, SessionAtRest, Node
<1>2. \A n \in Nodes, v \in Users : userConnMap[n][v] = c => n = Node(c)
  BY ConnAssumption DEF SessionInv, EntryIsBacked, Backs
<1>3. ASSUME NEW u \in Users, userConnMap[Node(c)][u] = c,
             userConnMap' = [userConnMap EXCEPT ![Node(c)][u] = NoConn],
             Start(c, "off_online", u, NoReq)
      PROVE  SessionInv'
  <2>1. \A n \in Nodes, v \in Users : userConnMap[n][v] = c => v = u /\ n = Node(c)
    BY <1>1, <1>2, <1>3, ConnAssumption DEF SessionInv, OneEntryPerConn
  <2>2. pc' = [pc EXCEPT ![c] = "off_online"] /\ uid' = [uid EXCEPT ![c] = u]
    BY <1>3 DEF Start
  <2> QED  BY <1>1, <1>3, <2>1, <2>2, EraseKeepsInv
<1>4. CASE /\ \A u \in Users : userConnMap[Node(c)][u] # c
           /\ UNCHANGED <<threadVars, userConnMap>>
  <2>1. HoldsNone(c) /\ UNCHANGED <<pc, uid, userConnMap, session>>
    BY <1>1, <1>2, <1>4 DEF HoldsNone, threadVars
  <2>2. \A d \in Conns : link'[d] = IF d = c THEN "closed" ELSE link[d]
    BY <1>1 DEF SessionInv, SessionType
  <2>3. SessionType'
    BY <1>1, <2>1 DEF SessionInv, SessionType
  <2>4. HandlerHasUser' /\ EntriesOfHandler' /\ OneEntryPerConn'
    BY <2>1 DEF SessionInv, HandlerHasUser, EntriesOfHandler, HoldsNone, HoldsOwn, OneEntryPerConn
  <2>5. SessionAtRest'
    BY <1>1, <2>1, <2>2 DEF SessionInv, SessionAtRest
  <2>6. EntryIsBacked'
    <3> SUFFICES ASSUME NEW n \in Nodes, NEW v \in Users, NEW d \in Conns, userConnMap[n][v] = d
                 PROVE  Backs(d, n, v)'
      BY <2>1 DEF SessionInv, SessionType, EntryIsBacked
    <3>1. d # c /\ Backs(d, n, v)
      BY <2>1, ConnAssumption DEF HoldsNone, SessionInv, EntryIsBacked
    <3> QED  BY <2>1, <2>2, <3>1 DEF Backs, Node
  <2> QED  BY <2>3, <2>4, <2>5, <2>6 DEF SessionInv
<1> QED  BY <1>3, <1>4 DEF clientQuitEcption

\* A crash ends every connection of its node and empties its map; no other
\* node's map holds one of those connections.
LEMMA CrashKeepsInv ==
  ASSUME SessionInv, NEW n \in Nodes, Crash(n)
  PROVE  SessionInv'
<1> DEFINE gone == {c \in Conns : Node(c) = n}
<1>1. /\ link' = Override(link, gone, "closed") /\ session' = Override(session, gone, NoUser)
      /\ pc' = Override(pc, gone, "idle") /\ uid' = Override(uid, gone, NoUser)
      /\ userConnMap' = [userConnMap EXCEPT ![n] = [u \in Users |-> NoConn]]
  BY DEF Crash
<1>2. SessionType'
  BY <1>1, Phases DEF SessionInv, SessionType, Override
<1>3. \A c \in Conns : IF c \in gone
        THEN link'[c] = "closed" /\ session'[c] = NoUser /\ pc'[c] = "idle"
        ELSE link'[c] = link[c] /\ session'[c] = session[c] /\ pc'[c] = pc[c] /\ uid'[c] = uid[c]
  BY <1>1 DEF SessionInv, SessionType, Override
<1>4. \A m \in Nodes, u \in Users :
        userConnMap'[m][u] = IF m = n THEN NoConn ELSE userConnMap[m][u]
  BY <1>1 DEF SessionInv, SessionType
<1>5. \A m \in Nodes, u \in Users, c \in Conns :
        userConnMap'[m][u] = c => userConnMap[m][u] = c /\ c \notin gone
  BY <1>4, ConnAssumption DEF SessionInv, EntryIsBacked, Backs
<1> HIDE DEF gone
<1>6. HandlerHasUser' /\ SessionAtRest'
  BY <1>3 DEF SessionInv, HandlerHasUser, SessionAtRest
<1>7. EntriesOfHandler'
  BY <1>3, <1>5, Phases DEF SessionInv, EntriesOfHandler, HoldsNone, HoldsOwn
<1>8. EntryIsBacked'
  <2> SUFFICES ASSUME NEW m \in Nodes, NEW u \in Users, NEW d \in Conns, userConnMap'[m][u] = d
               PROVE  Backs(d, m, u)'
    BY <1>2 DEF SessionType, EntryIsBacked
  <2>1. d \notin gone /\ Backs(d, m, u)
    BY <1>5, ConnAssumption DEF SessionInv, EntryIsBacked
  <2> QED  BY <1>3, <2>1 DEF Backs, Node
<1>9. OneEntryPerConn'
  BY <1>4 DEF SessionInv, OneEntryPerConn
<1> QED  BY <1>2, <1>6, <1>7, <1>8, <1>9 DEF SessionInv

-----------------------------------------------------------------------------
(* The other steps of a handler, phase by phase.                           *)

StepsOn(c) ==
  /\ UNCHANGED <<link, session, userConnMap, uid>>
  /\ \E l \in Labels : SamePhase(pc[c], l) /\ pc' = [pc EXCEPT ![c] = l]

Returns(c) ==
  /\ UNCHANGED <<link, session, userConnMap>>
  /\ pc[c] \in BeforeInsert \cup AfterErase \cup Chatting
  /\ pc' = [pc EXCEPT ![c] = "idle"] /\ uid' = [uid EXCEPT ![c] = NoUser]

\* A step within a phase of the handler, or its return, keeps the invariant.
LEMMA StepKeepsInv ==
  ASSUME SessionInv, NEW c \in Conns, StepsOn(c) \/ Returns(c)
  PROVE  SessionInv'
<1>1. CASE StepsOn(c)
  <2>1. PICK l \in Labels : SamePhase(pc[c], l) /\ pc' = [pc EXCEPT ![c] = l]
    BY <1>1 DEF StepsOn
  <2> QED  BY <1>1, <2>1, MoveKeepsInv DEF StepsOn
<1>2. CASE Returns(c)
  BY <1>2, MoveKeepsInv DEF Returns
<1> QED  BY <1>1, <1>2

\* The steps of login but the insert and the answer stay in their phase or return.
LEMMA LoginSteps ==
  ASSUME NEW c \in Conns,
         \/ CheckOnline(c) \/ setUserOnline(c) \/ FriendsCached(c) \/ QueryFriends(c)
         \/ CacheFriends(c) \/ QueryGroups(c) \/ LoginGroupEntry(c) \/ LoginGroupSubscribe(c)
  PROVE  StepsOn(c) \/ Returns(c)
<1> USE Phases DEF StepsOn, Returns, SamePhase, At, Jump, JumpWith, clientVars
<1>1. CASE CheckOnline(c)
  BY <1>1 DEF CheckOnline, Return, BeforeInsert
<1>2. CASE setUserOnline(c)
  BY <1>2 DEF setUserOnline, AfterInsert, OnlineSteps
<1>3. CASE FriendsCached(c) \/ QueryFriends(c)
  BY <1>3 DEF FriendsCached, QueryFriends, AfterInsert
<1>4. CASE CacheFriends(c) \/ QueryGroups(c)
  BY <1>4 DEF CacheFriends, QueryGroups, AfterInsert
<1>5. CASE LoginGroupEntry(c) \/ LoginGroupSubscribe(c)
  BY <1>5 DEF LoginGroupEntry, LoginGroupSubscribe, AfterInsert
<1> QED  BY <1>1, <1>2, <1>3, <1>4, <1>5

\* The steps after the erase stay there until the handler returns.
LEMMA LogoutSteps ==
  ASSUME NEW c \in Conns, setUserOffline(c) \/ LeaveGroups(c)
  PROVE  StepsOn(c) \/ Returns(c)
<1> USE Phases DEF StepsOn, Returns, SamePhase, At, Jump, clientVars, AfterErase, OfflineSteps
<1>1. CASE setUserOffline(c)
  BY <1>1 DEF setUserOffline
<1>2. CASE LeaveGroups(c)
  BY <1>2 DEF LeaveGroups, Return
<1> QED  BY <1>1, <1>2

\* The steps of chat and group handlers stay among themselves or return.
LEMMA ChattingSteps ==
  ASSUME SessionInv, NEW c \in Conns, GroupStep(c) \/ ChatStep(c)
  PROVE  StepsOn(c) \/ Returns(c)
<1> USE Phases DEF StepsOn, Returns, SamePhase, At, Jump, JumpWith, Return, clientVars, Chatting
<1>1. CASE createGroupRow(c) \/ joinGroupRow(c)
  BY <1>1 DEF createGroupRow, joinGroupRow
<1>2. CASE AddLocalMember(c) \/ SubscribeGroup(c)
  BY <1>2 DEF AddLocalMember, SubscribeGroup
<1>3. CASE LookupGroup(c) \/ LoadGroup(c)
  BY <1>3 DEF LookupGroup, LoadGroup
<1>4. CASE FillGroup(c) \/ PublishGroup(c)
  BY <1>4 DEF FillGroup, PublishGroup
<1>5. CASE RouteChat(c) \/ StoreChat(c)
  BY <1>5 DEF RouteChat, StoreChat
<1>6. CASE DrainQueue(c)
  <2>1. CASE UNCHANGED threadVars
    <3>1. SamePhase(pc[c], pc[c]) /\ pc[c] \in Labels
      BY <1>6 DEF DrainQueue
    <3>2. UNCHANGED <<link, session, userConnMap, uid>>
      BY <1>6, <2>1 DEF DrainQueue, threadVars
    <3>3. pc' = [pc EXCEPT ![c] = pc[c]]
      BY <2>1 DEF threadVars, SessionInv, SessionType
    <3> QED  BY <3>1, <3>2, <3>3
  <2>2. CASE \E l \in {"store", "own"} : Jump(c, l)
    BY <1>6, <2>2 DEF DrainQueue
  <2> QED  BY <1>6, <2>1, <2>2 DEF DrainQueue, InsertThrows
<1>7. CASE InsertOwn(c) \/ QueueChat(c)
  BY <1>7 DEF InsertOwn, InsertThrows, QueueChat, Answer
<1> QED  BY <1>1, <1>2, <1>3, <1>4, <1>5, <1>6, <1>7 DEF GroupStep, ChatStep

\* The requests of a client.
LEMMA RequestKeepsInv ==
  ASSUME SessionInv, NEW c \in Conns, Request(c)
  PROVE  SessionInv'
<1>0. session[c] # NoUser => session[c] \in Users
  BY DEF SessionInv, SessionType
<1>1. ASSUME NEW u \in Users, Login(c, u) PROVE SessionInv'
  BY <1>1, StartKeepsInv DEF Login, Start, clientVars, BeforeInsert
<1>2. CASE CreateGroup(c)
  BY <1>0, <1>2, StartKeepsInv DEF CreateGroup, LoggedIn, Start, clientVars, Chatting
<1>3. ASSUME NEW g \in Groups, JoinGroup(c, g) PROVE SessionInv'
  BY <1>0, <1>3, StartKeepsInv DEF JoinGroup, LoggedIn, Start, clientVars, Chatting
<1>4. ASSUME NEW g \in Groups, GroupChat(c, g) PROVE SessionInv'
  BY <1>0, <1>4, StartKeepsInv DEF GroupChat, LoggedIn, Start, clientVars, Chatting
<1>5. ASSUME NEW v \in Users, OneChat(c, v) PROVE SessionInv'
  <2>1. CASE UNCHANGED threadVars
    BY <1>5, <2>1, QuietKeepsInv DEF OneChat, threadVars, clientVars
  <2>2. CASE Start(c, "route", session[c], [NoReq EXCEPT !.peer = v, !.msg = nextMsg])
    BY <1>0, <1>5, <2>2, StartKeepsInv DEF OneChat, LoggedIn, Start, clientVars, Chatting
  <2> QED  BY <1>5, <2>1, <2>2 DEF OneChat
<1>6. ASSUME NEW v \in Users, AddFriend(c, v) PROVE SessionInv'
  BY <1>6, QuietKeepsInv DEF AddFriend, threadVars, clientVars
<1> QED  BY <1>1, <1>2, <1>3, <1>4, <1>5, <1>6, LogoutKeepsInv DEF Request

-----------------------------------------------------------------------------
\* The servers start in the invariant.
LEMMA SessionInvInit == Init => SessionInv
<1> SUFFICES ASSUME Init PROVE SessionInv
  OBVIOUS
<1>1. SessionType
  BY Phases DEF Init, SessionType
<1>2. \A n \in Nodes, u \in Users : userConnMap[n][u] = NoConn
  BY DEF Init
<1>3. \A c \in Conns : pc[c] = "idle" /\ session[c] = NoUser
  BY DEF Init
<1> QED  BY <1>1, <1>2, <1>3, Phases, ConnAssumption
         DEF SessionInv, HandlerHasUser, SessionAtRest, EntriesOfHandler, EntryIsBacked, OneEntryPerConn

\* Every step keeps the invariant.
LEMMA SessionInvNext == SessionInv /\ [Next]_vars => SessionInv'
<1> SUFFICES ASSUME SessionInv, [Next]_vars PROVE SessionInv'
  OBVIOUS
<1>1. ASSUME NEW c \in Conns, HandlerStep(c) PROVE SessionInv'
  BY <1>1, StepKeepsInv, LoginSteps, LogoutSteps, ChattingSteps, InsertConnKeepsInv,
     LoginAckKeepsInv, EraseConnKeepsInv DEF HandlerStep, LoginStep, LogoutStep
<1>2. ASSUME NEW n \in Nodes, Deliver(n) \/ SubscriberLoop(n) PROVE SessionInv'
  BY <1>2, QuietKeepsInv DEF Deliver, Dispatch, DeliverToMember, DispatchDone, SubscriberLoop,
                            clientVars, threadVars
<1>3. ASSUME NEW u \in Users, PresenceExpires(u) \/ FriendsExpire(u) PROVE SessionInv'
  BY <1>3, QuietKeepsInv DEF PresenceExpires, FriendsExpire, clientVars, threadVars
<1>4. CASE UNCHANGED vars
  BY <1>4, QuietKeepsInv DEF vars, clientVars, threadVars
<1> QED  BY <1>1, <1>2, <1>3, <1>4, ConnectKeepsInv, ClientCloseKeepsInv, clientQuitEcptionKeepsInv,
            RequestKeepsInv, CrashKeepsInv DEF Next, Environment

\* Logins, logouts, broken connections, failing Redis calls and crashes, in any
\* interleaving, leave no stale entry in userConnMap_, as long as every request
\* arrives whole.
THEOREM EntriesAreBacked == Spec => []EntryIsBacked
<1>1. SessionInv => EntryIsBacked
  BY DEF SessionInv
<1> QED  BY <1>1, SessionInvInit, SessionInvNext, PTL DEF Spec

\* No connection is ever stored for two users, which is what lets the loop of
\* clientQuitEcption stop at the first entry it finds, as long as every loginout
\* arrives whole.
THEOREM EntriesAreSingle == Spec => []OneEntryPerConn
<1>1. SessionInv => OneEntryPerConn
  BY DEF SessionInv
<1> QED  BY <1>1, SessionInvInit, SessionInvNext, PTL DEF Spec

===============================================================================
