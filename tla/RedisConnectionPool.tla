-------------------------- MODULE RedisConnectionPool --------------------------
(***************************************************************************)
(* RedisConnectionPool (redisconnectionpool.cpp) and the threads that use  *)
(* it.  Every section under mutex_ is one step.  The condition variable is *)
(* the set of threads asleep in it; a thread that was notified, woke by    *)
(* itself or timed out has yet to get the mutex back and look again.       *)
(***************************************************************************)
EXTENDS Integers, Sequences, FiniteSets

CONSTANTS
  Threads,      \* IO threads and the subscriber thread
  Connections,  \* connections init() put into the pool
  Timed,        \* threads whose acquire has a positive timeout
  NoConn, NoThread

ASSUME PoolAssumption ==
  /\ IsFiniteSet(Threads) /\ IsFiniteSet(Connections)
  /\ Timed \subseteq Threads
  /\ NoConn \notin Connections /\ NoThread \notin Threads

VARIABLES
  connections,  \* connections_, the queue of free connections
  stopped,      \* stopped_
  notified,     \* whether stop() has reached its notify_all
  at,           \* at[t]: where thread t stands
  holds         \* holds[t]: the connection thread t acquired

vars == <<connections, stopped, notified, at, holds>>

Asleep == {t \in Threads : at[t] = "asleep"}
Woken == {t \in Threads : at[t] = "woken"}

Init ==
  /\ connections \in {s \in [1..Cardinality(Connections) -> Connections] :
                        \A c \in Connections : \E i \in DOMAIN s : s[i] = c}
  /\ stopped = FALSE /\ notified = FALSE
  /\ at = [t \in Threads |-> "idle"]
  /\ holds = [t \in Threads |-> NoConn]

Move(t, to) == at' = [at EXCEPT ![t] = to]

\* Mutant: front() without pop().
TakeFrontKeeps(t) ==
  \/ /\ stopped \/ connections = <<>>
     /\ Move(t, "idle") /\ UNCHANGED <<connections, holds>>
  \/ /\ ~stopped /\ connections # <<>>
     /\ holds' = [holds EXCEPT ![t] = Head(connections)]
     /\ Move(t, "using") /\ UNCHANGED connections

\* Mutant: stopped_ is not tested again after the wait.
TakeFrontOfStopped(t) ==
  \/ /\ connections = <<>>
     /\ Move(t, "idle") /\ UNCHANGED <<connections, holds>>
  \/ /\ connections # <<>>
     /\ holds' = [holds EXCEPT ![t] = Head(connections)]
     /\ connections' = Tail(connections)
     /\ Move(t, "using")

\* The end of acquire: nullptr from a stopped or empty pool, else the oldest.
TakeFront(t) ==
  \/ /\ stopped \/ connections = <<>>
     /\ Move(t, "idle") /\ UNCHANGED <<connections, holds>>
  \/ /\ ~stopped /\ connections # <<>>
     /\ holds' = [holds EXCEPT ![t] = Head(connections)]
     /\ connections' = Tail(connections)
     /\ Move(t, "using")

\* acquire up to its wait: a stopped pool is left at once, an empty one waited for.
Acquire(t) ==
  /\ at[t] = "idle"
  /\ \/ stopped /\ UNCHANGED <<connections, at, holds>>
     \/ ~stopped /\ connections # <<>> /\ TakeFront(t)
     \/ ~stopped /\ connections = <<>> /\ Move(t, "asleep") /\ UNCHANGED <<connections, holds>>
  /\ UNCHANGED <<stopped, notified>>

\* A condition variable may wake a thread for no reason.
WakeSpuriously(t) ==
  /\ at[t] = "asleep" /\ Move(t, "woken")
  /\ UNCHANGED <<connections, stopped, notified, holds>>

TimeOut(t) ==
  /\ t \in Timed /\ at[t] = "asleep" /\ Move(t, "late")
  /\ UNCHANGED <<connections, stopped, notified, holds>>

\* The predicate of wait and wait_for, tested with the mutex held.
CanProceed == connections # <<>> \/ stopped

\* A notified thread looks again, and sleeps again when another was faster.
LookAgain(t) ==
  /\ at[t] = "woken"
  /\ \/ CanProceed /\ TakeFront(t)
     \/ ~CanProceed /\ Move(t, "asleep") /\ UNCHANGED <<connections, holds>>
  /\ UNCHANGED <<stopped, notified>>

\* Mutant: a thread whose time is over waits again.
LookLateWaits(t) ==
  /\ at[t] = "late"
  /\ \/ CanProceed /\ TakeFront(t)
     \/ ~CanProceed /\ Move(t, "asleep") /\ UNCHANGED <<connections, holds>>
  /\ UNCHANGED <<stopped, notified>>

\* wait_for returns the predicate when its time is over.
LookLate(t) ==
  /\ at[t] = "late"
  /\ \/ CanProceed /\ TakeFront(t)
     \/ ~CanProceed /\ Move(t, "idle") /\ UNCHANGED <<connections, holds>>
  /\ UNCHANGED <<stopped, notified>>

\* Mutant: release notifies nobody.
NotifyNobody(t) == Move(t, "idle")

\* notify_one: one sleeper, if there is any, is woken.
NotifyOne(t) ==
  \/ \E s \in Asleep : at' = [at EXCEPT ![t] = "idle", ![s] = "woken"]
  \/ Asleep = {} /\ Move(t, "idle")

\* Mutant: the connection is closed instead of queued.
ReleaseDrops(t) ==
  /\ at[t] = "using"
  /\ holds' = [holds EXCEPT ![t] = NoConn]
  /\ NotifyOne(t)
  /\ UNCHANGED <<connections, stopped, notified>>

\* release does not look at stopped_.
Release(t) ==
  /\ at[t] = "using"
  /\ connections' = Append(connections, holds[t])
  /\ holds' = [holds EXCEPT ![t] = NoConn]
  /\ NotifyOne(t)
  /\ UNCHANGED <<stopped, notified>>

\* stop marks the pool and drops the free connections under the mutex, and
\* notifies after it let the mutex go.
Stop ==
  /\ ~stopped /\ stopped' = TRUE
  /\ connections' = <<>>
  /\ UNCHANGED <<notified, at, holds>>

\* Mutant: stop notifies nobody.
NotifyAllForgotten ==
  /\ stopped /\ ~notified /\ notified' = TRUE
  /\ UNCHANGED <<connections, stopped, at, holds>>

NotifyAll ==
  /\ stopped /\ ~notified /\ notified' = TRUE
  /\ at' = [t \in Threads |-> IF at[t] = "asleep" THEN "woken" ELSE at[t]]
  /\ UNCHANGED <<connections, stopped, holds>>

Step(t) ==
  \/ Acquire(t) \/ WakeSpuriously(t) \/ TimeOut(t)
  \/ LookAgain(t) \/ LookLate(t) \/ Release(t)

Next == Stop \/ NotifyAll \/ \E t \in Threads : Step(t)

Spec == Init /\ [][Next]_vars

\* A thread that may run does, whoever holds a connection gives it back, stop
\* gets to its notify_all, and a deadline that stays ahead of a sleeping thread
\* comes (it is absolute, so waking up in between does not move it).
Fairness ==
  /\ WF_vars(NotifyAll)
  /\ \A t \in Threads : /\ WF_vars(LookAgain(t) \/ LookLate(t))
                        /\ WF_vars(Release(t))
                        /\ SF_vars(TimeOut(t))

FairSpec == Spec /\ Fairness

-----------------------------------------------------------------------------
(* Properties.                                                             *)

Free == {connections[i] : i \in DOMAIN connections}

\* Every variable has its type.
TypeOK ==
  /\ connections \in Seq(Connections)
  /\ stopped \in BOOLEAN /\ notified \in BOOLEAN
  /\ at \in [Threads -> {"idle", "asleep", "woken", "late", "using"}]
  /\ holds \in [Threads -> Connections \cup {NoConn}]

\* No connection is in two places: it is queued once or held by one thread, and
\* only a thread between acquire and release holds one.
Exclusive ==
  /\ \A i, j \in DOMAIN connections : connections[i] = connections[j] => i = j
  /\ \A t \in Threads : holds[t] \notin Free
  /\ \A s, t \in Threads : holds[s] = holds[t] /\ holds[s] # NoConn => s = t
  /\ \A t \in Threads : holds[t] # NoConn <=> at[t] = "using"

\* Until the pool is stopped none of its connections is lost.
Conserved ==
  ~stopped => \A c \in Connections : c \in Free \/ \E t \in Threads : holds[t] = c

\* No wakeup is lost: while a thread sleeps, every free connection has a woken
\* thread on its way to it.  notify_one, threads that acquire without waiting,
\* spurious wakeups and timeouts all race for the same connections here.
NoLostWakeup ==
  ~stopped /\ Asleep # {} => Len(connections) <= Cardinality(Woken)

\* acquire with a timeout returns, whatever other threads do.
AcquireReturns ==
  \A t \in Timed : at[t] = "asleep" ~> at[t] \in {"idle", "using"}

\* stop releases everybody: nobody is left in acquire for ever.
StopDrains ==
  \A t \in Threads : stopped ~> [](at[t] \notin {"asleep", "woken", "late"})

\* The pool implements ResourcePool: the owner of a connection is the thread
\* that holds it.
Owner == [c \in Connections |->
            IF \E t \in Threads : holds[t] = c THEN CHOOSE t \in Threads : holds[t] = c
                                               ELSE NoThread]

Pool == INSTANCE ResourcePool WITH
          Users <- Threads, Resources <- Connections, Nobody <- NoThread,
          free <- Free, owner <- Owner, closed <- stopped

\* Every step of acquire, release and stop is a Take, a Give, a Close or
\* invisible to the users of the pool; a stopped pool hands out nothing.
ImplementsResourcePool == Pool!PoolSpec

===============================================================================
