# A TLA+ model of the cluster chat server

This directory models the concurrent core of the chat server in `src/`: the
sessions a node keeps, one-to-one and group chat through Redis and MySQL, the
subscriber thread, the two connection pools, the retry queue for offline
messages, and the client program with the byte streams between it and its node.
TLC checks the models on small instances; TLAPS proves every invariant the
passing runs check, for every number of nodes, connections, users, messages and
threads.

    tlc -workers 2 -config Sessions.cfg MCChatService
    tlapm ChatDeliveryProofs.tla

## 1. The system

Several server processes ("nodes") accept TCP clients behind a load balancer and
share one Redis server and one MySQL database. In each process muduo runs one
accept loop and a fixed set of IO threads; a connection belongs to one IO thread,
which calls the handlers of its requests one after the other. One more thread
waits for messages of the Redis channels the node is subscribed to.

| Component (source) | State | Operations | Talks to |
|---|---|---|---|
| `ChatServer` (`chatserver.cpp`, `main.cpp`) | muduo's connections | `onConnection`, `onMessage` | hands parsed requests to `ChatService` |
| `ChatService` (`chatservice.cpp`) | `userConnMap_` (`user_conn_mutex_`), `groupMembers_` (`group_mutex_`) | `login`, `reg`, `loginOut`, `clientQuitEcption`, `oneChat`, `addFriend`, `createGroup`, `joinGroup`, `groupChat`, inbox callback | `RedisClient`, the model classes, `TcpConnection::send` |
| `RedisClient` (`redisclient.cpp`) | `sub_tasks_`, `sub_group_set_` (`sub_mutex_`); in Redis: presence hashes with a TTL, friend cache | presence, cache, publish, subscribe and unsubscribe requests, the subscriber loop | `RedisConnectionPool`, Redis, inbox callback |
| `RedisConnectionPool` | queue of free connections, `stopped_`, a condition variable | `init`, `acquire` (with or without timeout), `release`, `stop` | its users |
| `MySQLConnectionPool` | deque of free connections | `initPool`, `getConnection`, `releaseConnection` | the model classes |
| `OfflineMessage` | `failedQueue_` (`queueMutex_`), table `OfflineMessage` | `insert` (`query` and `remove` have no caller) | `MySQLConnectionPool` |
| `FriendModel`, `GroupModel`, `UserModel` | tables `Friend`, `AllGroup`, `GroupUser`, `User` | insert and query | `MySQLConnectionPool` |
| Client (`client/main.cpp`) | current user, friend and group lists | commands of the main thread, answers in the read thread, a semaphore between them | server |

What is hard about it, and what would make it correct:

- **Sessions.** A login is a check in Redis, an insert into a map under a mutex,
  four Redis commands and several queries, with every other thread between any
  two of them. A connection may break, be re-used by another user after a
  logout, or lose its node. Correct: an entry of `userConnMap_` always stands
  for that user on that connection, one connection is stored for one user, and
  an entry goes away after its connection did.
- **Messages.** What is looked up for one user must not be written to another
  one, and an accepted message must be in exactly one place, through retries,
  partial drains of the retry queue and crashes.
- **Presence.** A client that vanishes leaves its presence in Redis, which a TTL
  has to remove. Correct: no interleaving of logins, logouts and expiry makes a
  hash without TTL.
- **Groups.** Subscriptions are requested by handlers and carried out later by
  the subscriber thread; messages pass Redis, a socket and a callback that holds
  one lock while it takes another. Correct: order is kept, nothing is delivered
  twice, local members get what arrives, and nobody is blocked for ever.
- **Pools.** No connection is handed out twice or lost, no wakeup is lost, a
  timeout returns, `stop` leaves nobody waiting.
- **Framing.** Neither side delimits its texts: a read may return half a request
  or two of them. Correct: every request is handled, once and in order (the first
  does not hold, see `Framing` below), and the client never takes one answer for
  another.
- **The client.** Its main thread waits on a semaphore its read thread posts.
  Correct: a wait ends with the answer to its own request, whoever sees the main
  menu is known to the server, and nothing meant for another user is shown.
- **Retries.** A message survives failing connections and statements, keeps its
  place in the conversation, and is doubled only where a reply was lost.

`PROJECT.json` lists these hazards line by line with the properties that watch
them.

## 2. Modules

| Module | Models |
|---|---|
| `RedisClient` | what Redis holds for the servers, the task queue and the subscriber thread of every node |
| `ChatService` | all nodes: connections, handlers, the callback, tables, faults and crashes; extends `RedisClient`, of which it is the client |
| `MCChatService` | constants of `ChatService` for TLC |
| `ResourcePool` | what a pool promises: a free resource is taken, given back, and a closed pool hands out nothing |
| `RedisConnectionPool`, `MCRedisConnectionPool` | the Redis pool with its condition variable; shown to implement `ResourcePool` |
| `MySQLConnectionPool` | the MySQL pool and the paths on which its users give connections back |
| `OfflineMessage` | the steps of `OfflineMessage::insert` on one node, with its count of retries and the order of messages; `ChatService` has the same steps without the count |
| `MessageStore` | what `OfflineMessage::insert` promises its callers; `OfflineMessage` is shown to implement it |
| `ClientSession` | one client process with its two threads, the streams in both directions, `ChatServer::onMessage`, and the server's side of that one connection |
| `PoolQueue` | lemmas about queues of distinct connections, shared by the two pools |
| `ChatServiceProofs`, `ChatDeliveryProofs`, `ChatMessageProofs` | theorems about `ChatService`, each module resting on the one before: sessions, types and delivery, what becomes of messages |
| `ClientSessionProofs`, `OfflineMessageProofs`, `RedisConnectionPoolProofs`, `MySQLConnectionPoolProofs` | theorems about the module of that name |

### How the code becomes steps

In `ChatService` the variable `pc[c]` is the position of the handler that runs
for connection `c`, `uid[c]` and `req[c]` are its locals. A step is one command
sent to Redis or MySQL, or one section under a mutex; between two steps every
other thread may run. A handler starts with a request of the client (`Login`,
`Logout`, `OneChat`, `AddFriend`, `CreateGroup`, `JoinGroup`, `GroupChat`) or with
`clientQuitEcption`, and every call it makes follows in the order of the code:

    login       CheckOnline, InsertConn, setUserOnline (4 commands), FriendsCached,
                QueryFriends, CacheFriends, QueryGroups,
                LoginGroupEntry and LoginGroupSubscribe per group, LoginAck
    loginOut    EraseConn, setUserOffline (3 commands), LeaveGroups
    oneChat     OneChat (friend check), RouteChat, and OfflineMessage::insert:
                StoreChat (head of the loop), DrainQueue per queued message,
                InsertOwn, or QueueChat after three missing connections
    joinGroup   joinGroupRow, AddLocalMember, SubscribeGroup  (createGroup first
                runs createGroupRow)
    groupChat   LookupGroup, LoadGroup, FillGroup, PublishGroup

The subscriber thread of a node alternates between one `consume()`, which runs
the callback (`Dispatch`, one `DeliverToMember` per member, `DispatchDone`) or
nothing, and the tasks it swaps out of the queue (`SwapTasks`, `RunTask`,
`DropTask` when Redis refuses, `TasksDone`). While the callback runs it holds
`group_mutex_` shared, so a writer waits (`GroupMutexFree`); while a handler
drains the retry queue it holds `queueMutex_`, so that other handlers of the node
wait (`QueueMutexFree`). When the connection of the subscriber breaks
(`SubscriberBreaks`) it stays broken: the loop goes on, every task is dropped
(`DropAll`), nothing arrives.

Which failures `ChatService` has: a Redis command or a MySQL call that fails
without effect, an INSERT of an offline message that ran although it threw, a
failed PUBLISH or SUBSCRIBE, a subscriber connection that breaks, a client that
goes at any moment, an expiring key, a node that crashes and starts again. Which
it has not: requests that TCP cuts or joins, and with them a loginout that is lost
(`ClientSession`, where `EntryExplained`, `ShownToOwner` and `QuitForgets` say what
that does to entries and messages). The properties of sessions and delivery of
`ChatService` hold for requests that arrive whole.

Abstractions, each because nothing in the code tells the difference:

- The client waits for the answer to a login and sends the rest only while it is
  logged in, under its own id, as `client/main.cpp` does. A wrong password, an
  unknown id or a failed user query changes nothing and is not a step;
  `Accounts` says whose password a client knows.
- Each connection of a model is served by a thread of its own, the most
  concurrent case (a node has four IO threads; runs have at most two
  connections).
- The values of the hash fields `node` and `conn` and the sets
  `group_members:<id>` are written and never read; only whether fields exist is
  kept. `offline:<id>` is never filled (nothing publishes to a node inbox), so
  `popOfflineMessages` returns nothing.
- A Redis or MySQL call that fails has no effect, except the row of
  `createGroup`, whose id query may fail after the insert, and the INSERT of an
  offline message, which the code repeats.
- The three attempts to get a connection for an offline message are one step of
  `ChatService` that fails; `OfflineMessage` counts them.
- SUBSCRIBE, its execution by Redis and the update of `sub_group_set_` are one
  step (`RunTask`): only the subscriber thread writes that set, and a handler that
  reads it in between queues a task without effect.
- A node whose subscriber thread got no connection when it started
  (`redisclient.cpp:292`) is left out; it behaves like one whose connection broke
  at once, except that its tasks pile up.
- `Send` is `TcpConnection::send`, which returns nothing: a message handed to a
  connection whose client is gone is lost without the sender knowing. `AckedOnce`
  counts it as handed over and promises no more than that.
- `LeaveGroups` queues its unsubscribes in one step: they are queued under
  `group_mutex_`, in the order of a hash map, hence in any order. A turn of the
  subscriber loop that finds no task is left out.
- A SUBSCRIBE reply that `consume()` reads instead of a message is
  `ConsumeNothing`.
- MySQL 5.7 ignores `CHECK` constraints and, in its default strict mode, refuses
  a text longer than its column. MySQL is reachable when the servers start.

### The client and the streams

`ClientSession` is the other half of the picture: `ChatService` has many
connections and requests that arrive whole, `ClientSession` has one connection
and requests that do not. `mainAt` is where the main thread stands (top menu,
`sem_wait` after a login or a registration, main menu), `readAt` whether the read
thread is in `recv` or has handled an answer and is about to `sem_post`. A text
on its way is two pieces (a login answer longer than 1024 bytes more than
`BufferPieces`), and a read takes any number of the pieces that have arrived.

- A registration is sent with its terminating NUL (`main.cpp:130`), a group
  message with a newline (`chatservice.cpp:57`): pieces of their own. For
  `json::parse` a NUL is the end of the input (`json.hpp:6999`), a newline is
  skipped (`json.hpp:6953`), and anything else after a value is an error
  (`json.hpp:7170`). Every text is an object, no proper prefix of which is a
  value; that is why two pieces are enough.
- An exception is caught in `onMessage` and ends the process in the client.
- A handler is one step, except that messages of others may be written to the
  connection between the entry and the answer of a login. `Push` is such a
  message. The accounts in `Users` are used by this client only; what several
  clients do to each other is the subject of `ChatService`.
- The presence may vanish at any time (TTL, or a Redis command that failed).
- `handled`, `lost`, `shown` and the numbers of requests are history.

`sent`, `acked`, `forgotten`, `published`, the flag `answered` of a row and `nextMsg` (and `returned`, `earlier` in
`OfflineMessage`) are history: no guard except the bound on messages reads them.

## 3. What TLC checks

Every run names its bounds in its `.cfg`. `Budget` limits how often the
environment does something; `Always` is no limit.

| Run | Instance | Shows |
|---|---|---|
| `Sessions` | 1 node, 2 connections, 2 users; 3 logins, closes and TTLs without bound, one failed Redis command; symmetric connections | `EntryIsBacked`, `OneEntryPerConn`, `LastingNeedsFailure` |
| `Chat` | 1 node, 2 connections, 2 users, 2 messages, 1 friendship, 3 logins, 1 MySQL failure, 1 lost reply, 1 crash (broken links are the subject of `Sessions` and `Live`) | `NoMisdelivery`, `AckedOnce`, and `EntryIsBacked` across a crash |
| `Groups` | 2 nodes with 1 connection each, 1 group, 2 messages, 1 join or new friend, 2 logins, 1 failing command or broken connection of the subscriber | `GroupOrder` |
| `Live` | 1 connection, 2 users, 1 friendship, 1 group, 1 message, 1 create or join, 2 logins, 1 close, 1 MySQL failure, 1 lost reply; `FairSpec` | `TypeOK`, `NoMisdelivery` also when the local set was filled from a query that is stale; `SubscribeTakesEffect`, `ReachesLocalMember`, `HandlersReturn`, `BrokenIsForgotten` |
| `RedisPool` | 5 threads (2 with a timeout), 2 connections; `FairSpec` | `Exclusive`, `Conserved`, `NoLostWakeup`, `ImplementsResourcePool`, `AcquireReturns`, `StopDrains` |
| `MySQLPool` | 2 threads, 3 connections, methods of every kind; `FairSpec` | `TypeOK`, `Exclusive`, `UndefinedNeedsLeaks`, `BorrowedComesBack` |
| `Offline` | 2 threads, 3 messages, 4 missing connections, 1 exception, 1 lost reply; `FairSpec` | `TypeOK`, `ReturnedIsKept`, `DoubledOnlyByLostReplies`, `OrderKept`, `ImplementsMessageStore`, `InsertReturns` |
| `Client` | 2 users, 1 name to register, 5 requests, 1 message of others, reads of at most 4 pieces; `FairSpec` | `TypeOK`, `AnswerMeetsWait`, `HandledInOrder`, `MenuUserHasEntry`, `EntryExplained`, `ShownToOwner`, `WaitEnds`, `QuitForgets` |

Why the bounds are enough. Two connections and two users are what the session
races need: two logins of one user, one user moving between connections, one
connection serving two users. Two messages are the least for an order or for a
drained queue with a follower; a login, a logout and a login as somebody else
fit in three logins. One join or one fault at any point of any handler reaches
each error path; one failure, one lost reply and one crash let a message be
queued, drained by the other thread, thrown out of the drain, doubled by a lost
reply and forgotten with its node. In the pools there are more threads than connections (Redis),
so that sleeping, waking and overtaking happen and `stop` finds more sleepers
than later releases would wake, and one connection more than
threads (MySQL), so that leaks decide. Three messages and four missing
connections let one message use up its three attempts (`maxRetries`) while
another is retried and a third drains the queue. Five requests are a login, a
logout that is joined with the request after it and lost, a login as the other
user and two more requests; a read of four pieces holds two whole texts, and an
answer of five pieces does not fit into it.

`CHECK_DEADLOCK FALSE` is set where bounded messages or logins run out, where the
MySQL model stops after undefined behaviour, where all messages were inserted,
and where the client waits for an answer to a request that was lost; the other runs check for deadlock.

### Fairness

- `ChatService`: a handler that has started goes on and a closed connection is
  noticed (weak fairness per connection: muduo's loops and blocking calls that
  return). The subscriber loop goes on (weak). The delivery of a waiting message
  is strongly fair, because each `consume()` takes the next reply from the
  socket and only finitely many SUBSCRIBE replies can be ahead of it. That
  `HandlersReturn` covers `oneChat` rests on the budget of throwing statements; with
  one that always throws, `OfflineTooLong` shows that it does not. No client,
  operator, expiry or fault is forced to act.
- `RedisConnectionPool`: woken threads run, holders release, `stop` reaches
  `notify_all` (weak); a deadline comes even when the thread wakes up for other
  reasons in between (strong), because `wait_for` with a predicate computes it
  once.
- `MySQLConnectionPool`: a method that has started ends (weak).
- `ClientSession`: both threads of the client and the server go on (weak): what
  has arrived is read, a post wakes the waiter, a login is answered, a closed
  connection is noticed. The user, the other clients, expiry and the exit of the
  server are not forced.
- `OfflineMessage`: threads go on (weak), and a mutex that is free again and
  again is got in the end (strong).

### Where the code and its documents disagree

Four runs refute a statement of the repository; TLC's trace is the scenario.

- `SingleSession`: "该账号已经登陆，请重新输入账号" (`chatservice.cpp:109`) promises
  one session per account. Check and `setUserOnline` are separate steps, so two
  logins pass.
- `JoinWhileLeaving`: "ensure node subscribes to this group channel"
  (`chatservice.cpp:502`). `subscribeGroupChannel` looks at the channels
  subscribed now; a join between the queueing and the running of the last
  leaver's Unsubscribe queues nothing, and the node is left with a local member
  and without the channel.
- `OfflineTooLong`: `maxRetries` (`offlinemessage.cpp:8`) counts missing
  connections only; a statement that always throws is tried for ever and its IO
  thread never returns.

- `Framing`: "解析出完整的消息包和消息类型" (`README.md:71`), complete messages are
  parsed out of the stream. `onMessage` (`chatserver.cpp:40`) takes the bytes that
  have arrived for one text; a request that came in two reads, or in one read with
  another, is logged and dropped. `HandledInOrder` says what is kept all the same.

Further disagreements are plain from reading and are part of the models as they
are in the code:

- `README.md:95` promises chat between nodes; `oneChat` looks for the recipient
  on its own node, stores the message otherwise (`chatservice.cpp:343`), and
  nothing reads the table;
- the client prints "userid is ..., do not forget it" (`main.cpp:162`), but
  `UserModel::insert` never asks for the id MySQL assigned and the answer says -1;
- a client that registers or logs in while its request is lost, cut or joined
  with another, waits for ever (`WaitEnds` excludes that case);
- nothing refreshes the presence key although "heartbeat should refresh"
  (`redisclient.cpp:81`);
- `FriendModel::query` reads one direction of a row that stands for both
  (`friendmodel.cpp:50`);
- a cached friend list never reaches the response (`chatservice.cpp:143`), so
  that a client which changes its user shows the list of the previous one;
- `queryGroups` fills the members of copies (`groupmodel.cpp:91`), so that a
  login puts nobody into `groupMembers_`;
- `FriendModel::query` keeps its connection (`friendmodel.cpp:63`) and most
  methods keep theirs after an exception. The unlocked size check of
  `getConnection` (`mysqlconnectionpool.cpp:71`) lets two threads pop the last
  connection; `UndefinedNeedsLeaks` says that leaks have to come first.

## 4. What is proved

For every value of the constants allowed by their assumptions
(`IdAssumption`: ids are naturals and there are finitely many groups;
`ConnAssumption`, `DataAssumption`, `BoundAssumption`: the constants have their
types and the "no value" markers are not values; `PoolAssumption`: finite sets of
threads and connections; `OfflineAssumption` and `ClientAssumption`: the bounds are
naturals, the markers are not values and the client's receive buffer holds at least
two pieces), for all interleavings and any
number of the failures section 2 names (for `ChatService`: with requests that
arrive whole):

| Theorem | Statement |
|---|---|
| `ChatServiceProofs!EntriesAreBacked`, `EntriesAreSingle` | `EntryIsBacked`, `OneEntryPerConn` |
| `ChatDeliveryProofs!TypeCorrect`, `NeverMisdelivered`, `LastingIsPaid` | `TypeOK`, `NoMisdelivery`, `LastingNeedsFailure` |
| `ChatMessageProofs!GroupMessagesOrdered`, `AnsweredOnce` | `GroupOrder`, `AckedOnce` |
| `ClientSessionProofs!ClientTypes`, `AnswersMeetWaits`, `RequestsHandledInOrder`, `MenuUsersHaveEntries`, `EntriesExplained`, `MessagesShownToOwner` | `TypeOK`, `AnswerMeetsWait`, `HandledInOrder`, `MenuUserHasEntry`, `EntryExplained`, `ShownToOwner` |
| `RedisConnectionPoolProofs!PoolExclusive`, `PoolNoLostWakeup`, `PoolConserved`, `PoolRefinement` | the safety properties of the Redis pool and that it implements `ResourcePool` |
| `MySQLConnectionPoolProofs!TypeCorrect`, `PoolExclusive`, `PoolUndefinedNeedsLeaks` | the safety properties of the MySQL pool |
| `OfflineMessageProofs!TypeCorrect`, `NothingLost`, `DoublesAreLostReplies`, `OrderIsKept`, `StoreRefinement` | the safety properties of `OfflineMessage::insert` and that it implements `MessageStore` |

**Sessions.** `EntryIsBacked` alone is not inductive: a step that erases or
acknowledges must know for which user its handler works. `SessionInv` adds that
a running handler has a user (`HandlerHasUser`), that a session means an open
link with no login or logout running, and a closed link nothing but the rest of
a logout (`SessionAtRest`), that a connection has no entry before the insert and
after the erase, and that from the insert to the answer, and until the erase, an
entry that holds it is that of the handler's own user (`EntriesOfHandler`). `OneEntryPerConn` then follows when a new entry is
inserted: the connection had none. Each action has a step; the many actions that
touch neither sessions nor entries share one lemma.

**Delivery.** `NoMisdelivery` speaks of messages already written, so its step is
about the moment of `Send`: the entry that is used is backed by the very user
the message is for (`SessionInv`), or nobody is logged in. That needs types of
everything a send reads: `DeliveryInv` adds `RequestInv` (a handler on its way to
send, store or publish has a message, and a recipient if it is a chat),
`ChannelInv` (the callback runs only while the message it serves is at the head
of the channel) and the types of the other variables, from which `TypeOK`
follows.

**Messages.** `MessageInv` adds to `DeliveryInv` where a message can be. A number
is carried by one handler until it is published or answered and by none after
(`CarryInv`), and whatever is on a channel, a connection, in a row that counts or in a
queue was published or answered (`HeldInv`); so a message that is published,
written or stored is new everywhere. The steps of `Next` fall into
a few kinds (`StepKinds`), and each invariant has one lemma per kind.

- *Order* (`OrderInv`). `GroupOrder` speaks of what was written and says nothing
  of what is waiting. A channel is in the order of publication; what was written
  to a connection comes before all that waits on the channel of its node, except
  that the head of the channel, while the callback walks the members, has been
  written for those already served (`JustServed`). One-to-one messages are not
  among the published ones, and a crash only empties a channel.
- *Places* (`PlaceInv`). An answered message that was not forgotten is at one
  position of one connection, of the table or of one queue, and nowhere else; one
  that was forgotten is nowhere (`Placed`). Of the table only rows whose INSERT
  was answered count; the row of a lost reply is one too many, its message is still
  carried by its handler or at the head of the queue. A drain moves the head of a queue to a new row and
  every other item one position forward (`Drains`); a message with a handler of
  its own is in no place yet, so storing or queueing it makes the first one. A
  crash forgets the queue of its node, and a message in a queue is in no other
  place.

**Presence.** `LastingNeedsFailure` counts users, and so does its proof. A step
that neither spends a failure nor crashes a node adds no user to `Lasting`
(`Passes`, `LastingStep`): a hash without TTL is left behind by no handler, because
whoever sets a field is on its way to EXPIRE, and an expiry or HDEL removes the TTL
only with the whole hash. A failed command adds at most the user of its handler
(`OneMore`). `PaidInv` is the property with the set finite; `BudgetInv` says
that a bounded budget stays a number and that the one of crashes never grows.

**The client.** `ClientInv` has five parts. `UpInv` orders the pieces of requests
on their way; `FateInv` says what of a request is left once it was handled or
lost; with both, `HandledInOrder` is inductive. `WaitInv` is the heart: while the
client lives, its latest request on the stream, a login being served, an answer,
a post to come and a post exclude each other, and there is none of them unless
the main thread waits for it; so a wait meets its own answer (`AnswerMeetsWait`)
and `rwSem` stays 0 or 1. `EntryInv` adds that no loginout is on its way while a
login has been taken up, which is what keeps the entry of the user in the menu,
and `MessageInv` that a message on its way is for whom it will find in the main
menu, or for a user whose loginout was lost.

**Redis pool.** `NoLostWakeup` is inductive once the queue has no duplicates and
disjoint holders (`Exclusive`): `release` adds one connection and wakes one
sleeper; a thread that takes a connection without having slept removes one; a
woken thread either takes one or finds the queue empty. The refinement maps the
owner of a connection to the thread that holds it.

**MySQL pool.** Counting: a thread between the size check and the pop, or with a
connection, accounts for one; `UndefinedNeedsLeaks` follows because free,
borrowed and leaked connections are disjoint and are all there are.

**Retries.** `OfflineInv` ties a call to its message (`CallInv`: one thread per
message, numbers not yet given out appear nowhere). Counting copies needs to know
whether a message still has to be stored (`CountInv`: a pending message has only
the copies of lost replies, any other at most one more). The order needs the
queue: whoever returned before message m began is in the table or ahead of m in
the queue, and in the table once a thread has drained the queue and comes to m
itself (`EarlierInv`); rows are only appended, so `OrderKept` follows. The
refinement maps `kept` to the rows and the queue together: draining moves a
message from one to the other in one step, and only returning accepts it.

Only model-checked: the liveness properties, which need temporal reasoning under
fairness that is out of the prover's reach (`SubscribeTakesEffect`,
`ReachesLocalMember`, `HandlersReturn`, `BrokenIsForgotten`,
`AcquireReturns`, `StopDrains`, `BorrowedComesBack`, `InsertReturns`, `WaitEnds`,
`QuitForgets`). Every invariant and every refinement of a passing run has its
theorem.

## 5. What is not modelled

- `resetState` (a column nothing reads) and the hash `user_info:<id>` of a
  registration (nothing reads it).
- Operations without a caller: `publishNodeInbox`, `getUserConnId`, `sismember`,
  `del`, `updateState`, `OfflineMessage::query` and `remove`, `Config::load`.
- The destruction of the pools and of the subscriber thread at exit, the SIGINT
  handler that leads to it, and a MySQL pool whose `initConnection` failed. For
  the models an exit is a crash.
- A client whose `send` fails: the connection is broken then, and its read thread
  ends the process.
- Vendored code: `json.hpp` is seven eighths of the lines of the repository. Only
  what its `parse` accepts of a cut or joined text matters here, and that is in
  `ClientSession`. Also muduo, the test programs and the load generator.

## 6. Plan

1. *Composition.* The pools as what `Fault` abstracts, and `ClientSession` as the
   source of the requests of `ChatService`, so that a lost loginout meets other
   clients of the same node.
2. *More proofs.* Action properties of the tables (rows of `GroupUser` and
   `Friend` only grow) and of the history.
3. *Shutdown.* The subscriber thread and the pools at exit.
