---------------------------- MODULE ClientSession ----------------------------
(***************************************************************************)
(* The client program (client/main.cpp) and the server's end of its TCP    *)
(* connection (ChatServer::onMessage).  The client has two threads: the    *)
(* main thread sends requests and waits on rwSem for the answer to a login *)
(* or a registration, the read thread receives answers and messages.       *)
(*                                                                         *)
(* Neither side delimits what it sends.  A stream is a sequence of pieces; *)
(* a read takes the pieces that have arrived, which may be less than one   *)
(* message or more than one, and parses them as one JSON text.             *)
(*                                                                         *)
(* Module ChatService has the steps of the handlers and the races between  *)
(* connections, with requests that arrive whole; here a handler is one     *)
(* step, except that others may write to the client between the entry and  *)
(* the answer of its login.  The accounts of Users are used by this client *)
(* only.                                                                   *)
(***************************************************************************)
EXTENDS Integers, Sequences, FiniteSets, SequencesExt

CONSTANTS
  Users,        \* accounts the user of this client has
  Names,        \* names he registers
  NoUser,       \* nobody
  BufferPieces, \* pieces in 1024 bytes, the most the client reads at once
  MaxRequests,  \* bound: requests the client sends
  MaxPushes     \* bound: messages of others to this client

ASSUME ClientAssumption ==
  /\ NoUser \notin Users \cup Names
  /\ BufferPieces \in Nat /\ BufferPieces >= 2
  /\ MaxRequests \in Nat /\ MaxPushes \in Nat

VARIABLES
  \* the client
  alive,          \* the process runs
  mainAt,         \* the main thread: "top" menu, waiting for "login" or "reg", "main" menu
  currentUser, isLoginSuccess, rwSem,
  readAt,         \* the read thread: in "recv" or about to "post"
  \* the connection
  up, down,       \* pieces on their way to the server and to the client
  \* the server
  serving,        \* the user whose login is entered and not yet answered
  entries,        \* users for whom userConnMap_ holds this connection
  online,         \* users isUserOnline is true of
  registered,     \* names in table User
  connected,      \* clientQuitEcption has not run yet
  \* history
  sentNo,         \* requests sent; a request is known by its number
  handled,        \* numbers of the requests given to a handler, in that order
  lost,           \* requests whose pieces were in a text that did not parse
  shown,          \* messages shown in the main menu: for whom, and who was logged in
  pushes          \* messages others sent to this client

clientVars == <<alive, mainAt, currentUser, isLoginSuccess, rwSem, readAt>>
serverVars == <<serving, entries, online, registered, connected>>
vars == <<clientVars, up, down, serverVars, sentNo, handled, lost, shown, pushes>>

Waits == {"login", "reg"}
Requests == [kind: {"login", "reg", "loginout", "chat", "other"},
             who: Users \cup Names \cup {NoUser}, no: 1..MaxRequests]
Answers == [kind: {"loginAck", "regAck", "chatAck", "chat", "group"},
            who: Users \cup {NoUser}, ok: BOOLEAN, size: {2, BufferPieces + 1}]

-----------------------------------------------------------------------------
(* Pieces.  A text is cut in two, so that a read may end inside it.  A      *)
(* registration is sent with its terminating NUL, a group message with a    *)
(* newline; these are pieces of their own, with number 0.                   *)

Text(m, n) == [i \in 1..n |-> [of |-> m, piece |-> i]]
End(m) == <<[of |-> m, piece |-> 0]>>

RequestPieces(m) == Text(m, 2) \o (IF m.kind = "reg" THEN End(m) ELSE <<>>)

AnswerPieces(a) == Text(a, a.size) \o (IF a.kind = "group" THEN End(a) ELSE <<>>)

Take(stream, n) == SubSeq(stream, 1, n)
Drop(stream, n) == SubSeq(stream, n + 1, Len(stream))

\* A whole text of the given size starts at index i of s.
TextAt(s, i, size) ==
  \A k \in 1..size :
    i + k - 1 \in DOMAIN s /\ s[i + k - 1] = [of |-> s[i].of, piece |-> k]

\* json::parse of what the server read: one whole text and nothing after it, or
\* a NUL, which ends the input whatever follows.
ServerParses(s) == TextAt(s, 1, 2) /\ (Len(s) > 2 => s[3].piece = 0)

\* json::parse of what the client read: newlines are skipped, one whole text,
\* here at index i, has to remain.
ClientParses(s, i) ==
  /\ TextAt(s, i, s[i].of.size)
  /\ \A j \in DOMAIN s : j \notin i..(i + s[i].of.size - 1) => s[j].piece = 0

Answer(kind, who, ok, size) ==
  AnswerPieces([kind |-> kind, who |-> who, ok |-> ok, size |-> size])

-----------------------------------------------------------------------------
(* The main thread.                                                        *)

SendRequest(kind, who) ==
  /\ alive /\ sentNo < MaxRequests
  /\ sentNo' = sentNo + 1
  /\ up' = up \o RequestPieces([kind |-> kind, who |-> who, no |-> sentNo + 1])
  /\ UNCHANGED <<down, serverVars, alive, currentUser, rwSem, readAt, handled, lost, shown, pushes>>

\* Choice 1 of the top menu.
SendLogin(u) ==
  /\ mainAt = "top" /\ SendRequest("login", u)
  /\ isLoginSuccess' = FALSE /\ mainAt' = "login"

\* Choice 2.
SendReg(name) ==
  /\ mainAt = "top" /\ SendRequest("reg", name)
  /\ mainAt' = "reg" /\ UNCHANGED isLoginSuccess

\* sem_wait returns.
Wake ==
  /\ alive /\ mainAt \in Waits /\ rwSem > 0
  /\ rwSem' = rwSem - 1
  /\ mainAt' = IF mainAt = "login" /\ isLoginSuccess THEN "main" ELSE "top"
  /\ UNCHANGED <<alive, currentUser, isLoginSuccess, readAt, up, down, serverVars,
                 sentNo, handled, lost, shown, pushes>>

\* The commands of the main menu, which wait for nothing: chat is answered,
\* addFriend, createGroup, joinGroup and groupChat are not.
SendCommand ==
  /\ mainAt = "main" /\ \E kind \in {"chat", "other"} : SendRequest(kind, currentUser)
  /\ UNCHANGED <<mainAt, isLoginSuccess>>

loginout ==
  /\ mainAt = "main" /\ SendRequest("loginout", currentUser)
  /\ mainAt' = "top" /\ UNCHANGED isLoginSuccess

\* The process ends and the kernel closes the socket.
Exit == alive' = FALSE /\ down' = <<>>

\* Choice 3.
Quit ==
  /\ alive /\ mainAt = "top" /\ Exit
  /\ UNCHANGED <<mainAt, currentUser, isLoginSuccess, rwSem, readAt, up, serverVars,
                 sentNo, handled, lost, shown, pushes>>

-----------------------------------------------------------------------------
(* The read thread.                                                        *)

\* Mutant: errno is not looked at.
doLoginResponseUnchecked(a) == isLoginSuccess' = TRUE /\ currentUser' = a.who

doLoginResponse(a) ==
  /\ isLoginSuccess' = a.ok
  /\ currentUser' = IF a.ok THEN a.who ELSE currentUser

\* Mutant: the case of a group message falls through to the next ones.
HandleFallsThrough(a) ==
  /\ readAt' = IF a.kind \in {"loginAck", "regAck", "group"} THEN "post" ELSE readAt
  /\ \/ a.kind = "loginAck" /\ doLoginResponse(a)
     \/ a.kind # "loginAck" /\ UNCHANGED <<currentUser, isLoginSuccess>>
  /\ UNCHANGED shown

\* The answer to a login or a registration is followed by sem_post; messages are
\* shown, the answer to a chat is ignored.
Handle(a) ==
  \/ /\ a.kind = "loginAck" /\ doLoginResponse(a) /\ readAt' = "post" /\ UNCHANGED shown
  \/ /\ a.kind = "regAck" /\ readAt' = "post"
     /\ UNCHANGED <<currentUser, isLoginSuccess, shown>>
  \/ /\ a.kind \in {"chat", "group"}
     /\ shown' = IF mainAt = "main" THEN shown \cup {<<a.who, currentUser>>} ELSE shown
     /\ UNCHANGED <<currentUser, isLoginSuccess, readAt>>
  \/ a.kind = "chatAck" /\ UNCHANGED <<currentUser, isLoginSuccess, readAt, shown>>

\* recv and json::parse.  No handler catches the exception of a text that does
\* not parse: it ends the process.
Recv(n) ==
  LET s == Take(down, n) IN
  /\ alive /\ readAt = "recv" /\ n \in 1..Len(down) /\ n <= BufferPieces
  /\ \/ /\ \E i \in 1..n : ClientParses(s, i) /\ Handle(s[i].of)
        /\ down' = Drop(down, n) /\ UNCHANGED alive
     \/ /\ \A i \in 1..n : ~ClientParses(s, i)
        /\ Exit
        /\ UNCHANGED <<currentUser, isLoginSuccess, readAt, shown>>
  /\ UNCHANGED <<mainAt, rwSem, up, serverVars, sentNo, handled, lost, pushes>>

\* Mutant: both the handler of a registration and its case post.
PostTwice ==
  /\ alive /\ readAt = "post" /\ readAt' = "recv"
  /\ rwSem' = IF mainAt = "reg" THEN rwSem + 2 ELSE rwSem + 1
  /\ UNCHANGED <<alive, mainAt, currentUser, isLoginSuccess, up, down, serverVars,
                 sentNo, handled, lost, shown, pushes>>

\* Mutant: a registration is not posted.
PostForgotten ==
  /\ alive /\ readAt = "post" /\ readAt' = "recv"
  /\ rwSem' = IF mainAt = "reg" THEN rwSem ELSE rwSem + 1
  /\ UNCHANGED <<alive, mainAt, currentUser, isLoginSuccess, up, down, serverVars,
                 sentNo, handled, lost, shown, pushes>>

\* sem_post.
Post ==
  /\ alive /\ readAt = "post" /\ readAt' = "recv"
  /\ rwSem' = rwSem + 1
  /\ UNCHANGED <<alive, mainAt, currentUser, isLoginSuccess, up, down, serverVars,
                 sentNo, handled, lost, shown, pushes>>

-----------------------------------------------------------------------------
(* The server.                                                             *)

ReplyOfSize(kind, who, ok, size) ==
  down' = IF alive THEN down \o Answer(kind, who, ok, size) ELSE down
Reply(kind, who, ok) == ReplyOfSize(kind, who, ok, 2)

\* An unknown id or a wrong password (errno 1), or an account that is online
\* (errno 2), is refused; else the entry and the presence are made, and the
\* answer follows.
login(u) ==
  \/ Reply("loginAck", NoUser, FALSE) /\ UNCHANGED <<serving, entries, online>>
  \/ /\ u \notin online
     /\ entries' = entries \cup {u} /\ online' = online \cup {u} /\ serving' = u
     /\ UNCHANGED down

\* With many friends, groups and members the answer does not fit in one read.
LoginAnswer ==
  /\ serving # NoUser
  /\ \E size \in {2, BufferPieces + 1} : ReplyOfSize("loginAck", serving, TRUE, size)
  /\ serving' = NoUser
  /\ UNCHANGED <<clientVars, up, entries, online, registered, connected, sentNo, handled,
                 lost, shown, pushes>>

\* Mutant: only the presence is removed.
loginOutKeepsEntry(u) ==
  online' = online \ {u} /\ UNCHANGED <<entries, serving, down>>

loginOut(u) ==
  entries' = entries \ {u} /\ online' = online \ {u} /\ UNCHANGED <<serving, down>>

\* UserModel::insert: the statement runs and answers, or throws (the name is
\* taken, MySQL is not there), perhaps after the row was written.
UserInsert(name, inserted) ==
  \/ inserted /\ name \notin registered /\ registered' = registered \cup {name}
  \/ ~inserted /\ registered' \in {registered, registered \cup {name}}

reg(name) == \E inserted \in BOOLEAN : UserInsert(name, inserted) /\ Reply("regAck", NoUser, inserted)

\* getHandler(msgid) and the call of what it returned.
Dispatch(m) ==
  \/ m.kind = "login" /\ login(m.who) /\ UNCHANGED registered
  \/ m.kind = "reg" /\ reg(m.who) /\ UNCHANGED <<serving, entries, online>>
  \/ m.kind = "loginout" /\ loginOut(m.who) /\ UNCHANGED registered
  \/ /\ m.kind = "chat" /\ \E ok \in BOOLEAN : Reply("chatAck", NoUser, ok)
     /\ UNCHANGED <<serving, entries, online, registered>>
  \/ m.kind = "other" /\ UNCHANGED <<down, serving, entries, online, registered>>

\* The requests that have text in s.
RequestsIn(s) == {s[i].of : i \in {j \in DOMAIN s : s[j].piece # 0}}

\* Mutant: a text that was handled is not retrieved from the buffer.
onMessagePeeks(n) ==
  LET s == Take(up, n) IN
  /\ connected /\ serving = NoUser /\ n \in 1..Len(up)
  /\ \/ /\ ServerParses(s) /\ Dispatch(s[1].of) /\ UNCHANGED up
        /\ handled' = Append(handled, s[1].of.no)
        /\ lost' = lost \cup (RequestsIn(s) \ {s[1].of})
     \/ /\ ~ServerParses(s) /\ lost' = lost \cup RequestsIn(s) /\ up' = Drop(up, n)
        /\ UNCHANGED <<down, serving, entries, online, registered, handled>>
  /\ UNCHANGED <<clientVars, connected, sentNo, shown, pushes>>

\* retrieveAllAsString, json::parse and the handler; the exception of a text
\* that does not parse is logged.
onMessage(n) ==
  LET s == Take(up, n) IN
  /\ connected /\ serving = NoUser /\ n \in 1..Len(up)
  /\ up' = Drop(up, n)
  /\ \/ /\ ServerParses(s) /\ Dispatch(s[1].of)
        /\ handled' = Append(handled, s[1].of.no)
        /\ lost' = lost \cup (RequestsIn(s) \ {s[1].of})
     \/ /\ ~ServerParses(s) /\ lost' = lost \cup RequestsIn(s)
        /\ UNCHANGED <<down, serving, entries, online, registered, handled>>
  /\ UNCHANGED <<clientVars, connected, sentNo, shown, pushes>>

\* Mutant: the map is not consulted.
PushUnchecked(u) ==
  /\ connected /\ pushes < MaxPushes /\ pushes' = pushes + 1
  /\ \E kind \in {"chat", "group"} : Reply(kind, u, TRUE)
  /\ UNCHANGED <<clientVars, up, serverVars, sentNo, handled, lost, shown>>

\* Another client's one-to-one or group message is written to the connection
\* the entry of its recipient holds.
Push(u) ==
  /\ connected /\ u \in entries /\ pushes < MaxPushes /\ pushes' = pushes + 1
  /\ \E kind \in {"chat", "group"} : Reply(kind, u, TRUE)
  /\ UNCHANGED <<clientVars, up, serverVars, sentNo, handled, lost, shown>>

\* Mutant: no entry is erased.
clientQuitEcptionForgets ==
  /\ ~alive /\ connected /\ serving = NoUser /\ connected' = FALSE
  /\ UNCHANGED <<clientVars, up, down, serving, entries, online, registered, sentNo, handled,
                 lost, shown, pushes>>

\* onConnection of a closed connection, after the bytes that came before the end
\* of the stream or, when the client's kernel reset the connection, without
\* them: the first entry that holds the connection is erased.
clientQuitEcption ==
  /\ ~alive /\ connected /\ serving = NoUser
  /\ connected' = FALSE /\ up' = <<>>
  /\ \/ \E u \in entries : entries' = entries \ {u} /\ online' = online \ {u}
     \/ entries = {} /\ UNCHANGED <<entries, online>>
  /\ UNCHANGED <<clientVars, down, serving, registered, sentNo, handled, lost, shown, pushes>>

\* The server process ends; recv returns 0 or -1 and the client exits.
ServerExits ==
  /\ alive /\ connected /\ Exit
  /\ connected' = FALSE /\ up' = <<>> /\ serving' = NoUser /\ entries' = {}
  /\ UNCHANGED <<mainAt, currentUser, isLoginSuccess, rwSem, readAt, online, registered,
                 sentNo, handled, lost, shown, pushes>>

PresenceExpires(u) ==
  /\ u \in online /\ online' = online \ {u}
  /\ UNCHANGED <<clientVars, up, down, serving, entries, registered, connected, sentNo, handled,
                 lost, shown, pushes>>

-----------------------------------------------------------------------------
Init ==
  /\ alive = TRUE /\ mainAt = "top" /\ currentUser = NoUser /\ isLoginSuccess = FALSE
  /\ rwSem = 0 /\ readAt = "recv"
  /\ up = <<>> /\ down = <<>>
  /\ serving = NoUser /\ entries = {} /\ online = {} /\ registered = {} /\ connected = TRUE
  /\ sentNo = 0 /\ handled = <<>> /\ lost = {} /\ shown = {} /\ pushes = 0

MainThread ==
  \/ \E u \in Users : SendLogin(u)
  \/ \E name \in Names : SendReg(name)
  \/ Wake \/ SendCommand \/ loginout \/ Quit
Receive == \E n \in 1..BufferPieces : Recv(n)
ReadThread == Receive \/ Post
OnMessage == \E n \in 1..Len(up) : onMessage(n)
Server == OnMessage \/ LoginAnswer \/ clientQuitEcption
Environment == ServerExits \/ \E u \in Users : Push(u) \/ PresenceExpires(u)

Next == MainThread \/ ReadThread \/ Server \/ Environment

Spec == Init /\ [][Next]_vars

\* Both threads and the server go on; the user of the client need not.
FairSpec ==
  /\ Spec /\ WF_vars(Wake) /\ WF_vars(Receive) /\ WF_vars(Post)
  /\ WF_vars(OnMessage) /\ WF_vars(LoginAnswer) /\ WF_vars(clientQuitEcption)

-----------------------------------------------------------------------------
(* Properties.                                                             *)

\* Every variable has its type; rwSem is a binary semaphore.
TypeOK ==
  /\ alive \in BOOLEAN /\ mainAt \in {"top", "main"} \cup Waits
  /\ currentUser \in Users \cup {NoUser} /\ isLoginSuccess \in BOOLEAN
  /\ rwSem \in {0, 1} /\ readAt \in {"recv", "post"}
  /\ up \in Seq([of: Requests, piece: Nat]) /\ down \in Seq([of: Answers, piece: Nat])
  /\ serving \in Users \cup {NoUser} /\ entries \subseteq Users /\ online \subseteq Users
  /\ registered \subseteq Names /\ connected \in BOOLEAN
  /\ sentNo \in 0..MaxRequests /\ handled \in Seq(1..MaxRequests) /\ lost \subseteq Requests
  /\ shown \subseteq Users \X Users /\ pushes \in 0..MaxPushes

Asked == {i \in DOMAIN up : up[i].piece = 1 /\ up[i].of.kind \in Waits}
Answered == {i \in DOMAIN down : down[i].piece = 1 /\ down[i].of.kind \in {"loginAck", "regAck"}}
One(b) == IF b THEN 1 ELSE 0

\* What will wake the main thread once: a request on its way, a login being
\* served, an answer on its way, a post to come, a post.
Outstanding ==
  Cardinality(Asked) + One(serving # NoUser) + Cardinality(Answered)
  + One(readAt = "post") + rwSem

\* A wait is only ended by the answer to its own request: at most one answer is
\* outstanding, none while the main thread does not wait, and it is of the kind
\* waited for.
AnswerMeetsWait ==
  alive =>
    /\ Outstanding <= One(mainAt \in Waits)
    /\ \A i \in Asked : up[i].of.kind = mainAt
    /\ \A i \in Answered : down[i].of.kind = (IF mainAt = "reg" THEN "regAck" ELSE "loginAck")
    /\ serving # NoUser => mainAt = "login"

InFlight == {p.no : p \in RequestsIn(up)}

\* However the stream is cut, the handlers run at most once for a request and in
\* the order the requests were sent, and a request of which text was thrown away is
\* never handled later.  That it should be handled at all is another matter: see
\* NothingLost, which the code does not keep.
HandledInOrder ==
  /\ \A i, j \in DOMAIN handled : i < j => handled[i] < handled[j]
  /\ Range(handled) \cap {m.no : m \in lost} = {}
  /\ connected => 1..sentNo = Range(handled) \cup {m.no : m \in lost} \cup InFlight

\* Who is in the main menu is known to the server: messages reach him.
MenuUserHasEntry == mainAt = "main" /\ connected => currentUser \in entries

LoginsOut(S) == {m.who : m \in {k \in S : k.kind = "loginout"}}

\* The user who is logged in, or for whom an accepted login is on its way back.
Arriving ==
  (IF mainAt = "main" \/ (mainAt = "login" /\ isLoginSuccess) THEN {currentUser} ELSE {})
  \cup ({serving} \ {NoUser})
  \cup {down[i].of.who : i \in {j \in Answered : down[j].of.kind = "loginAck" /\ down[j].of.ok}}

\* An entry of somebody who is not logged in means that his loginout is on its
\* way or was lost, or that the client is gone.
EntryExplained ==
  alive => entries \subseteq Arriving \cup LoginsOut(RequestsIn(up)) \cup LoginsOut(lost)

\* What is shown in the main menu is for the user who is logged in, or for one
\* whose loginout was lost.
ShownToOwner == \A s \in shown : s[1] = s[2] \/ s[1] \in LoginsOut(lost)

\* The main thread does not wait for ever, unless its request was lost.
WaitEnds ==
  alive /\ mainAt \in Waits ~> ~alive \/ mainAt \notin Waits \/ \E m \in lost : m.no = sentNo

\* When the client is gone its entries go, except one for each loginout that was
\* lost.
QuitForgets == ~alive ~> Cardinality(entries) <= Cardinality(LoginsOut(lost))

-----------------------------------------------------------------------------
(* What a document of the repository says and the code does not do; it is   *)
(* refuted by a run of its own.                                             *)

\* "解析出完整的消息包和消息类型" (README.md:71): whole messages are parsed out of
\* the byte stream.  onMessage takes whatever has arrived for one message, and
\* throws away a request that came in two reads, or with another one in one read.
NothingLost == lost = {}

===============================================================================
