-------------------------- MODULE MySQLConnectionPool --------------------------
(***************************************************************************)
(* MySQLConnectionPool (mysqlconnectionpool.cpp) and the way the model     *)
(* classes borrow from it: every method of UserModel, FriendModel,         *)
(* GroupModel and OfflineMessage gets one connection, runs its statements  *)
(* and, on some of its paths, gives the connection back.                   *)
(***************************************************************************)
EXTENDS Integers, Sequences, FiniteSets

CONSTANTS
  Threads,      \* threads that run handlers
  Connections,  \* connections initPool() created
  Calls,        \* kinds of method the threads call, a subset of Kinds
  TornReads,    \* whether size() may answer wrongly while a push or pop runs
  NoConn, NoCall

\* The methods differ in when they call releaseConnection: OfflineMessage::insert
\* on every path ("both"); FriendModel::query on none ("never"); all others only
\* when no SQLException was thrown ("success").
Kinds == {"both", "success", "never"}

ASSUME PoolAssumption ==
  /\ IsFiniteSet(Threads) /\ IsFiniteSet(Connections)
  /\ NoConn \notin Connections
  /\ Calls \subseteq Kinds /\ NoCall \notin Kinds
  /\ TornReads \in BOOLEAN

VARIABLES
  connections,  \* connections_, the deque of free connections
  at,           \* at[t]: where thread t stands
  call,         \* call[t]: the kind of method thread t runs
  holds,        \* holds[t]: the connection thread t got
  leaked,       \* connections no thread and no deque knows any more
  undefined     \* front() or pop_front() was called on an empty deque

vars == <<connections, at, call, holds, leaked, undefined>>

Init ==
  /\ connections \in {s \in [1..Cardinality(Connections) -> Connections] :
                        \A c \in Connections : \E i \in DOMAIN s : s[i] = c}
  /\ at = [t \in Threads |-> "idle"]
  /\ call = [t \in Threads |-> NoCall]
  /\ holds = [t \in Threads |-> NoConn]
  /\ leaked = {}
  /\ undefined = FALSE

\* Another thread may be inside push_back or pop_front: the read of the size,
\* which takes no mutex, races with it and can come out either way.
Torn(t) == TornReads /\ \E s \in Threads \ {t} : at[s] # "idle"

\* The first line of getConnection.  A method that gets nullptr returns (or, in
\* OfflineMessage::insert, tries again).  After undefined behaviour nothing is
\* claimed, and the model stops.
CheckSize(t, k) ==
  /\ ~undefined /\ at[t] = "idle"
  /\ \/ /\ connections # <<>> \/ Torn(t)
        /\ at' = [at EXCEPT ![t] = "pop"] /\ call' = [call EXCEPT ![t] = k]
     \/ /\ connections = <<>> \/ Torn(t)
        /\ UNCHANGED <<at, call>>
  /\ UNCHANGED <<connections, holds, leaked, undefined>>

\* Mutant: front() without pop_front().
PopFrontKeeps(t) ==
  /\ ~undefined /\ at[t] = "pop" /\ connections # <<>>
  /\ holds' = [holds EXCEPT ![t] = Head(connections)]
  /\ at' = [at EXCEPT ![t] = "query"]
  /\ UNCHANGED <<connections, undefined, call, leaked>>

\* Its last lines pop the front with the mutex, without looking again.
PopFront(t) ==
  /\ ~undefined /\ at[t] = "pop"
  /\ \/ /\ connections # <<>>
        /\ holds' = [holds EXCEPT ![t] = Head(connections)]
        /\ connections' = Tail(connections)
        /\ at' = [at EXCEPT ![t] = "query"]
        /\ UNCHANGED undefined
     \/ connections = <<>> /\ undefined' = TRUE /\ UNCHANGED <<connections, holds, at>>
  /\ UNCHANGED <<call, leaked>>

Finish(t) ==
  /\ at' = [at EXCEPT ![t] = "idle"]
  /\ call' = [call EXCEPT ![t] = NoCall]
  /\ holds' = [holds EXCEPT ![t] = NoConn]
  /\ UNCHANGED undefined

\* Mutant: what comes back is a pointer that was reset.
releaseConnectionNull(t) ==
  connections' = Append(connections, NoConn) /\ UNCHANGED leaked

\* Mutant: the connection is closed instead of being kept.
releaseConnectionCloses(t) == UNCHANGED <<connections, leaked>>

releaseConnection(t) ==
  connections' = Append(connections, holds[t]) /\ UNCHANGED leaked

\* The pointer goes out of scope.
Forget(t) == leaked' = leaked \cup {holds[t]} /\ UNCHANGED connections

\* The statements succeed.
QueryDone(t) ==
  /\ ~undefined /\ at[t] = "query" /\ Finish(t)
  /\ IF call[t] = "never" THEN Forget(t) ELSE releaseConnection(t)

\* Mutant: OfflineMessage::insert returns from its catch block.
QueryThrowsForgets(t) ==
  /\ ~undefined /\ at[t] = "query" /\ Finish(t) /\ Forget(t)

\* One of them throws.
QueryThrows(t) ==
  /\ ~undefined /\ at[t] = "query" /\ Finish(t)
  /\ IF call[t] = "both" THEN releaseConnection(t) ELSE Forget(t)

Step(t) == PopFront(t) \/ QueryDone(t) \/ QueryThrows(t)
Next == \E t \in Threads : Step(t) \/ \E k \in Calls : CheckSize(t, k)

Spec == Init /\ [][Next]_vars

\* A method that has started runs to its end.
FairSpec == Spec /\ \A t \in Threads : WF_vars(Step(t))

-----------------------------------------------------------------------------
(* Properties.                                                             *)

Free == {connections[i] : i \in DOMAIN connections}

\* Every variable has its type; the deque never holds a null pointer.
TypeOK ==
  /\ connections \in Seq(Connections)
  /\ at \in [Threads -> {"idle", "pop", "query"}]
  /\ call \in [Threads -> Kinds \cup {NoCall}]
  /\ holds \in [Threads -> Connections \cup {NoConn}]
  /\ leaked \subseteq Connections
  /\ undefined \in BOOLEAN

\* A connection is free, borrowed by one thread, or leaked: two threads never
\* run statements on the same connection, and none comes back twice.
Exclusive ==
  /\ \A i, j \in DOMAIN connections : connections[i] = connections[j] => i = j
  /\ Free \cap leaked = {}
  /\ \A t \in Threads : holds[t] \notin Free \cup leaked
  /\ \A s, t \in Threads : holds[s] = holds[t] /\ holds[s] # NoConn => s = t
  /\ \A t \in Threads : holds[t] # NoConn <=> at[t] = "query"

\* The unlocked size check is harmless as long as there are connections for all
\* threads: an empty deque is popped only after leaks took the reserve.  With
\* the eight connections and four IO threads of the server it takes five leaks.
UndefinedNeedsLeaks ==
  undefined => Cardinality(leaked) + Cardinality(Threads) > Cardinality(Connections)

\* The connection OfflineMessage::insert works with reaches the deque again,
\* exceptions or not, whatever the other methods leak meanwhile.
BorrowedComesBack ==
  \A t \in Threads, c \in Connections :
    call[t] = "both" /\ holds[t] = c ~> c \in Free \/ undefined

===============================================================================
