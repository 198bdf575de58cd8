----------------------- MODULE RedisConnectionPoolProofs -----------------------
(***************************************************************************)
(* Theorems about RedisConnectionPool, for any number of threads and       *)
(* connections.  PoolInv is inductive: Exclusive needs TypeOK, and nothing *)
(* else needs more than the two.                                           *)
(***************************************************************************)
EXTENDS RedisConnectionPool, PoolQueue

\* Exclusive in the words of PoolQueue.
LEMMA ExclusiveQueue ==
  /\ Free = Elements(connections)
  /\ Exclusive => Distinct(connections)
BY DEF Free, Elements, Exclusive, Distinct

PoolInv == TypeOK /\ Exclusive

\* init leaves every connection in the queue once.
LEMMA PoolInvInit == Init => PoolInv
<1> SUFFICES ASSUME Init PROVE PoolInv
  OBVIOUS
<1>1. connections \in Seq(Connections) /\ Distinct(connections)
  BY FullQueueIsDistinct, PoolAssumption DEF Init
<1>2. TypeOK
  BY <1>1 DEF Init, TypeOK
<1>3. \A t \in Threads : holds[t] = NoConn /\ at[t] # "using"
  BY DEF Init
<1>4. NoConn \notin Free
  BY <1>1, PoolAssumption DEF Free
<1> QED  BY <1>1, <1>2, <1>3, <1>4 DEF PoolInv, Exclusive, Distinct

\* The end of acquire, from which every thread gets its connection, keeps the
\* connections apart, whatever thread t did before.
LEMMA TakeFrontKeepsInv ==
  ASSUME PoolInv, NEW t \in Threads, at[t] # "using", TakeFront(t), UNCHANGED <<stopped, notified>>
  PROVE  PoolInv'
<1> USE DEF PoolInv
<1>1. CASE stopped \/ connections = <<>>
  <2> SUFFICES ASSUME Move(t, "idle"), UNCHANGED <<connections, holds>> PROVE PoolInv'
    BY <1>1 DEF TakeFront
  <2>1. TypeOK'
    BY DEF TypeOK, Move
  <2>2. Free' = Free
    BY DEF Free
  <2> QED  BY <2>1, <2>2 DEF TypeOK, Exclusive, Move
<1>2. CASE ~stopped /\ connections # <<>>
  <2>1. /\ holds' = [holds EXCEPT ![t] = Head(connections)]
        /\ connections' = Tail(connections)
        /\ at' = [at EXCEPT ![t] = "using"]
    BY <1>2 DEF TakeFront, Move
  <2>2. connections \in Seq(Connections) /\ Distinct(connections) /\ Free = Elements(connections)
    BY ExclusiveQueue DEF TypeOK
  <2>3. /\ Head(connections) \in Free /\ Head(connections) \in Connections
        /\ connections' \in Seq(Connections) /\ Distinct(connections')
        /\ Free' = Free \ {Head(connections)}
    <3>1. Free' = Elements(connections')
      BY DEF Free, Elements
    <3>2. /\ Head(connections) \in Elements(connections) /\ Head(connections) \in Connections
          /\ Tail(connections) \in Seq(Connections) /\ Distinct(Tail(connections))
          /\ Elements(Tail(connections)) = Elements(connections) \ {Head(connections)}
      BY <1>2, <2>2, PopFrontOfDistinct
    <3> QED  BY <2>1, <2>2, <3>1, <3>2
  <2>4. TypeOK'
    BY <2>1, <2>3 DEF TypeOK
  <2>5. \A s \in Threads : /\ holds'[s] = IF s = t THEN Head(connections) ELSE holds[s]
                           /\ at'[s] = IF s = t THEN "using" ELSE at[s]
    BY <2>1 DEF TypeOK
  <2>6. Head(connections) # NoConn
    BY <2>3, PoolAssumption
  <2>7. \A s \in Threads : holds[s] # Head(connections)
    BY <2>3 DEF Exclusive
  <2> QED  BY <2>3, <2>4, <2>5, <2>6, <2>7 DEF Exclusive, Distinct
<1> QED  BY <1>1, <1>2

\* A step that touches neither the queue nor what the threads hold, and moves
\* threads that hold nothing.
LEMMA MoveKeepsInv ==
  ASSUME PoolInv, UNCHANGED <<connections, holds>>,
         stopped' \in BOOLEAN, notified' \in BOOLEAN,
         at' \in [Threads -> {"idle", "asleep", "woken", "late", "using"}],
         \A t \in Threads : at'[t] = "using" <=> at[t] = "using"
  PROVE  PoolInv'
<1>1. Free' = Free
  BY DEF Free
<1> QED  BY <1>1 DEF PoolInv, TypeOK, Exclusive

\* release queues the connection its thread held.
LEMMA ReleaseKeepsInv ==
  ASSUME PoolInv, NEW t \in Threads, Release(t)
  PROVE  PoolInv' /\ Free' = Free \cup {holds[t]} /\ Len(connections') = Len(connections) + 1
<1> USE DEF PoolInv
<1>1. holds[t] \in Connections /\ holds[t] \notin Free /\ at[t] = "using"
  BY DEF Release, TypeOK, Exclusive
<1>2. connections \in Seq(Connections) /\ Distinct(connections) /\ Free = Elements(connections)
  BY ExclusiveQueue DEF TypeOK
<1>3. /\ connections' \in Seq(Connections) /\ Distinct(connections')
      /\ Free' = Free \cup {holds[t]} /\ Len(connections') = Len(connections) + 1
  BY <1>1, <1>2, PushBackOnDistinct DEF Release, Free, Elements
<1>4. /\ holds' = [holds EXCEPT ![t] = NoConn]
      /\ UNCHANGED <<stopped, notified>>
  BY DEF Release
<1>5. /\ at' \in [Threads -> {"idle", "asleep", "woken", "late", "using"}]
      /\ at'[t] = "idle"
      /\ \A s \in Threads \ {t} : at'[s] = "using" <=> at[s] = "using"
  <2>1. CASE \E s \in Asleep : at' = [at EXCEPT ![t] = "idle", ![s] = "woken"]
    <3>1. PICK s \in Threads : at[s] = "asleep" /\ at' = [at EXCEPT ![t] = "idle", ![s] = "woken"]
      BY <2>1 DEF Asleep
    <3>2. s # t
      BY <3>1, <1>1
    <3> QED  BY <3>1, <3>2 DEF TypeOK
  <2>2. CASE Move(t, "idle")
    BY <2>2 DEF TypeOK, Move
  <2> QED  BY <2>1, <2>2 DEF Release, NotifyOne
<1>6. TypeOK'
  BY <1>3, <1>4, <1>5 DEF TypeOK
<1>7. \A s \in Threads : holds'[s] = IF s = t THEN NoConn ELSE holds[s]
  BY <1>4 DEF TypeOK
<1>8. NoConn \notin Free'
  BY <1>3, PoolAssumption DEF Free
<1>9. \A s \in Threads \ {t} : holds[s] # holds[t]
  BY <1>1, PoolAssumption DEF Exclusive
<1>10. Exclusive'
  BY <1>1, <1>3, <1>5, <1>7, <1>8, <1>9 DEF Exclusive, Distinct
<1> QED  BY <1>3, <1>6, <1>10

\* Every step keeps the invariant.
LEMMA PoolInvNext == PoolInv /\ [Next]_vars => PoolInv'
<1> SUFFICES ASSUME PoolInv, [Next]_vars PROVE PoolInv'
  OBVIOUS
<1>1. ASSUME NEW t \in Threads, Acquire(t) PROVE PoolInv'
  <2>1. CASE UNCHANGED <<connections, at, holds>>
    BY <1>1, <2>1, MoveKeepsInv DEF Acquire, PoolInv, TypeOK
  <2>2. CASE TakeFront(t)
    BY <1>1, <2>2, TakeFrontKeepsInv DEF Acquire
  <2>3. CASE Move(t, "asleep") /\ UNCHANGED <<connections, holds>>
    BY <1>1, <2>3, MoveKeepsInv DEF Acquire, PoolInv, TypeOK, Move
  <2> QED  BY <1>1, <2>1, <2>2, <2>3 DEF Acquire
<1>2. ASSUME NEW t \in Threads, WakeSpuriously(t) \/ TimeOut(t) PROVE PoolInv'
  BY <1>2, MoveKeepsInv DEF WakeSpuriously, TimeOut, PoolInv, TypeOK, Move
<1>3. ASSUME NEW t \in Threads, LookAgain(t) \/ LookLate(t) PROVE PoolInv'
  <2>1. CASE TakeFront(t)
    BY <1>3, <2>1, TakeFrontKeepsInv DEF LookAgain, LookLate
  <2>2. CASE (Move(t, "asleep") \/ Move(t, "idle")) /\ UNCHANGED <<connections, holds>>
    BY <1>3, <2>2, MoveKeepsInv DEF LookAgain, LookLate, PoolInv, TypeOK, Move
  <2> QED  BY <1>3, <2>1, <2>2 DEF LookAgain, LookLate
<1>4. ASSUME NEW t \in Threads, Release(t) PROVE PoolInv'
  BY <1>4, ReleaseKeepsInv
<1>5. CASE Stop
  <2>1. connections' = <<>> /\ Free' = {}
    BY <1>5 DEF Stop, Free
  <2> QED  BY <1>5, <2>1 DEF Stop, PoolInv, TypeOK, Exclusive
<1>6. CASE NotifyAll
  BY <1>6, MoveKeepsInv DEF NotifyAll, PoolInv, TypeOK
<1>7. CASE UNCHANGED vars
  BY <1>7, MoveKeepsInv DEF vars, PoolInv, TypeOK
<1> QED  BY <1>1, <1>2, <1>3, <1>4, <1>5, <1>6, <1>7 DEF Next, Step

\* How many threads are on their way to a connection, when one joins or leaves.
LEMMA WokenCount ==
  ASSUME NEW S \in SUBSET Threads, NEW T \in SUBSET Threads
  PROVE  /\ Cardinality(S) \in Nat /\ Cardinality(T) \in Nat
         /\ S \subseteq T => Cardinality(S) <= Cardinality(T)
         /\ \A t \in T : S = T \ {t} => Cardinality(S) = Cardinality(T) - 1
<1>1. IsFiniteSet(S) /\ IsFiniteSet(T)
  BY FS_Subset, PoolAssumption
<1>2. Cardinality(S) \in Nat /\ Cardinality(T) \in Nat
  BY <1>1, FS_CardinalityType
<1>3. S \subseteq T => Cardinality(S) <= Cardinality(T)
  BY <1>1, FS_Subset
<1>4. \A t \in T : Cardinality(T \ {t}) = Cardinality(T) - 1
  BY <1>1, FS_RemoveElement
<1> QED  BY <1>2, <1>3, <1>4

\* Taking the front of the queue removes one connection and, when a woken thread
\* takes it, one woken thread.
LEMMA TakeFrontKeepsWakeup ==
  ASSUME PoolInv, NoLostWakeup, NEW t \in Threads, at[t] \in {"idle", "woken", "late"},
         TakeFront(t), at[t] = "woken" => CanProceed, UNCHANGED stopped
  PROVE  NoLostWakeup'
<1> SUFFICES ASSUME ~stopped, Asleep' # {}
             PROVE  Len(connections') <= Cardinality(Woken')
  BY DEF NoLostWakeup
<1>1. /\ connections \in Seq(Connections) /\ Len(connections) \in Nat
      /\ at \in [Threads -> {"idle", "asleep", "woken", "late", "using"}]
  BY DEF PoolInv, TypeOK
<1>2. Asleep' = Asleep /\ Woken' = Woken \ {t} /\ Woken \subseteq Threads
  BY <1>1 DEF TakeFront, Move, Asleep, Woken
<1>3. Len(connections) <= Cardinality(Woken)
  BY <1>2 DEF NoLostWakeup
<1>4. /\ Cardinality(Woken) \in Nat /\ Cardinality(Woken') \in Nat
      /\ t \in Woken => Cardinality(Woken') = Cardinality(Woken) - 1
      /\ t \notin Woken => Woken' = Woken
  BY <1>2, WokenCount
<1>5. CASE connections = <<>>
  <2>1. connections' = <<>>
    BY <1>5 DEF TakeFront
  <2> QED  BY <2>1, <1>4
<1>6. CASE connections # <<>>
  <2>1. Len(connections') = Len(connections) - 1
    BY <1>6, <1>1 DEF TakeFront
  <2> QED  BY <2>1, <1>1, <1>3, <1>4
<1> QED  BY <1>5, <1>6

\* A step that leaves the queue alone while it is empty, or wakes threads.
LEMMA MoveKeepsWakeup ==
  ASSUME PoolInv, NoLostWakeup, UNCHANGED <<connections, stopped>>,
         \/ connections = <<>>
         \/ Asleep' \subseteq Asleep /\ Woken \subseteq Woken'
  PROVE  NoLostWakeup'
<1>1. connections \in Seq(Connections) /\ Len(connections) \in Nat
  BY DEF PoolInv, TypeOK
<1>2. Woken \subseteq Threads /\ Woken' \subseteq Threads
  BY DEF Woken
<1>3. /\ Cardinality(Woken) \in Nat /\ Cardinality(Woken') \in Nat
      /\ Woken \subseteq Woken' => Cardinality(Woken) <= Cardinality(Woken')
  BY <1>2, WokenCount
<1>4. CASE connections = <<>>
  BY <1>3, <1>4 DEF NoLostWakeup
<1>5. CASE Asleep' \subseteq Asleep /\ Woken \subseteq Woken'
  BY <1>1, <1>3, <1>5 DEF NoLostWakeup
<1> QED  BY <1>4, <1>5

\* Every step keeps a woken thread for every free connection.
LEMMA WakeupNext == PoolInv /\ NoLostWakeup /\ [Next]_vars => NoLostWakeup'
<1> SUFFICES ASSUME PoolInv, NoLostWakeup, [Next]_vars PROVE NoLostWakeup'
  OBVIOUS
<1>0. at \in [Threads -> {"idle", "asleep", "woken", "late", "using"}]
  BY DEF PoolInv, TypeOK
<1>1. ASSUME NEW t \in Threads, Acquire(t) PROVE NoLostWakeup'
  <2>1. CASE UNCHANGED <<connections, at, holds>>
    BY <1>1, <2>1, MoveKeepsWakeup DEF Acquire, Asleep, Woken
  <2>2. CASE TakeFront(t)
    BY <1>1, <2>2, TakeFrontKeepsWakeup DEF Acquire
  <2>3. CASE connections = <<>> /\ UNCHANGED <<connections, holds>>
    BY <1>1, <2>3, MoveKeepsWakeup DEF Acquire
  <2> QED  BY <1>1, <2>1, <2>2, <2>3 DEF Acquire
<1>2. ASSUME NEW t \in Threads, WakeSpuriously(t) \/ TimeOut(t) PROVE NoLostWakeup'
  <2>1. Asleep' \subseteq Asleep /\ Woken \subseteq Woken'
    BY <1>0, <1>2 DEF WakeSpuriously, TimeOut, Move, Asleep, Woken
  <2> QED  BY <1>2, <2>1, MoveKeepsWakeup DEF WakeSpuriously, TimeOut
<1>3. ASSUME NEW t \in Threads, LookAgain(t) \/ LookLate(t) PROVE NoLostWakeup'
  <2>1. CASE CanProceed
    BY <1>3, <2>1, TakeFrontKeepsWakeup DEF LookAgain, LookLate
  <2>2. CASE ~CanProceed
    BY <1>3, <2>2, MoveKeepsWakeup DEF LookAgain, LookLate, CanProceed
  <2> QED  BY <2>1, <2>2
<1>4. ASSUME NEW t \in Threads, Release(t) PROVE NoLostWakeup'
  <2>1. /\ Len(connections) \in Nat /\ Len(connections') = Len(connections) + 1
        /\ UNCHANGED stopped /\ at[t] = "using"
    BY <1>4, ReleaseKeepsInv DEF Release, PoolInv, TypeOK
  <2>2. CASE \E s \in Asleep : at' = [at EXCEPT ![t] = "idle", ![s] = "woken"]
    <3>1. PICK s \in Threads : at[s] = "asleep" /\ at' = [at EXCEPT ![t] = "idle", ![s] = "woken"]
      BY <2>2 DEF Asleep
    <3>2. /\ s \in Asleep /\ s \in Woken' /\ Woken = Woken' \ {s}
          /\ Woken \subseteq Threads /\ Woken' \subseteq Threads
      BY <3>1, <2>1, <1>0 DEF Asleep, Woken
    <3>3. /\ Cardinality(Woken) \in Nat /\ Cardinality(Woken') \in Nat
          /\ Cardinality(Woken) = Cardinality(Woken') - 1
      BY <3>2, WokenCount
    <3> QED  BY <2>1, <3>2, <3>3 DEF NoLostWakeup
  <2>3. CASE Asleep = {} /\ Move(t, "idle")
    <3>1. Asleep' = {}
      BY <2>3, <1>0 DEF Asleep, Move
    <3> QED  BY <3>1 DEF NoLostWakeup
  <2> QED  BY <1>4, <2>2, <2>3 DEF Release, NotifyOne
<1>5. CASE Stop \/ NotifyAll
  BY <1>5 DEF Stop, NotifyAll, NoLostWakeup
<1>6. CASE UNCHANGED vars
  BY <1>6, MoveKeepsWakeup DEF vars, Asleep, Woken
<1> QED  BY <1>1, <1>2, <1>3, <1>4, <1>5, <1>6 DEF Next, Step

\* Until stop, every step keeps all connections.
LEMMA ConservedNext == PoolInv /\ Conserved /\ [Next]_vars => Conserved'
<1> SUFFICES ASSUME PoolInv, Conserved, [Next]_vars, ~stopped', NEW c \in Connections
             PROVE  c \in Free' \/ \E t \in Threads : holds'[t] = c
  BY DEF Conserved
<1>0. /\ ~stopped /\ holds \in [Threads -> Connections \cup {NoConn}]
      /\ connections \in Seq(Connections) /\ Distinct(connections)
      /\ Free = Elements(connections) /\ Free' = Elements(connections')
      /\ c # NoConn
  <2>1. ~stopped
    BY DEF Next, Step, Acquire, WakeSpuriously, TimeOut, LookAgain, LookLate, Release, Stop, NotifyAll, vars
  <2> QED  BY <2>1, ExclusiveQueue, PoolAssumption DEF PoolInv, TypeOK, Free, Elements
<1>1. c \in Free \/ \E t \in Threads : holds[t] = c
  BY <1>0 DEF Conserved
<1>2. CASE UNCHANGED <<connections, holds>>
  BY <1>1, <1>2 DEF Free
<1>3. ASSUME NEW t \in Threads, at[t] # "using", TakeFront(t)
      PROVE  c \in Free' \/ \E s \in Threads : holds'[s] = c
  <2>1. CASE connections = <<>>
    BY <1>0, <1>2, <1>3, <2>1 DEF TakeFront
  <2>2. CASE connections # <<>>
    <3>1. Elements(Tail(connections)) = Elements(connections) \ {Head(connections)}
      BY <1>0, <2>2, PopFrontOfDistinct
    <3>2. /\ holds' = [holds EXCEPT ![t] = Head(connections)]
          /\ Free' = Free \ {Head(connections)}
      BY <1>0, <1>3, <2>2, <3>1 DEF TakeFront
    <3>3. holds[t] # c
      BY <1>0, <1>3 DEF PoolInv, Exclusive
    <3>4. \A s \in Threads : holds'[s] = IF s = t THEN Head(connections) ELSE holds[s]
      BY <1>0, <3>2
    <3>5. CASE c = Head(connections)
      BY <3>4, <3>5
    <3>6. CASE c \in Free /\ c # Head(connections)
      BY <3>2, <3>6
    <3>7. CASE \E s \in Threads : holds[s] = c
      BY <3>3, <3>4, <3>7
    <3> QED  BY <1>1, <3>5, <3>6, <3>7
  <2> QED  BY <2>1, <2>2
<1>4. ASSUME NEW t \in Threads, Release(t)
      PROVE  c \in Free' \/ \E s \in Threads : holds'[s] = c
  <2>1. Free' = Free \cup {holds[t]} /\ holds' = [holds EXCEPT ![t] = NoConn]
    BY <1>4, ReleaseKeepsInv DEF Release
  <2>2. \A s \in Threads \ {t} : holds'[s] = holds[s]
    BY <1>0, <2>1
  <2> QED  BY <1>1, <2>1, <2>2
<1>5. ASSUME NEW t \in Threads, Acquire(t) \/ WakeSpuriously(t) \/ TimeOut(t) \/ LookAgain(t) \/ LookLate(t)
      PROVE  UNCHANGED <<connections, holds>> \/ (at[t] # "using" /\ TakeFront(t))
  BY <1>5 DEF Acquire, WakeSpuriously, TimeOut, LookAgain, LookLate
<1>6. Stop \/ NotifyAll \/ UNCHANGED vars => UNCHANGED <<connections, holds>>
  BY DEF Stop, NotifyAll, vars
<1> QED  BY <1>2, <1>3, <1>4, <1>5, <1>6 DEF Next, Step

\* RedisConnectionPool::acquire and release never put one connection into two
\* hands, or into a hand and the queue.
THEOREM PoolExclusive == Spec => [](TypeOK /\ Exclusive)
BY PoolInvInit, PoolInvNext, PTL DEF Spec, PoolInv

\* notify_one, called after the mutex was released, suffices: no thread sleeps
\* in acquire while a connection is free and nobody is on the way to it.
THEOREM PoolNoLostWakeup == Spec => []NoLostWakeup
<1>1. Init => NoLostWakeup
  BY DEF Init, NoLostWakeup, Asleep
<1> QED  BY <1>1, PoolInvInit, PoolInvNext, WakeupNext, PTL DEF Spec

\* An open pool loses no connection.
THEOREM PoolConserved == Spec => []Conserved
<1>1. Init => Conserved
  <2> SUFFICES ASSUME Init PROVE Conserved
    OBVIOUS
  <2>1. Elements(connections) = Connections
    BY FullQueueIsDistinct, PoolAssumption DEF Init
  <2> QED  BY <2>1, ExclusiveQueue DEF Conserved
<1> QED  BY <1>1, PoolInvInit, PoolInvNext, ConservedNext, PTL DEF Spec

-----------------------------------------------------------------------------
(* The pool implements ResourcePool.                                       *)

\* The owner of a connection is well defined: the one thread that holds it.
LEMMA OwnerIsHolder ==
  ASSUME PoolInv
  PROVE  /\ Owner \in [Connections -> Threads \cup {NoThread}]
         /\ \A c \in Connections, t \in Threads : Owner[c] = t <=> holds[t] = c
         /\ \A c \in Connections :
              (\A t \in Threads : holds[t] # c) => Owner[c] = NoThread
<1>1. ASSUME NEW c \in Connections, NEW t \in Threads, holds[t] = c
      PROVE  Owner[c] = t
  <2>1. c # NoConn
    BY PoolAssumption
  <2>2. \A s \in Threads : holds[s] = c => s = t
    BY <1>1, <2>1 DEF PoolInv, Exclusive
  <2>3. Owner[c] = CHOOSE s \in Threads : holds[s] = c
    BY <1>1 DEF Owner
  <2> QED  BY <1>1, <2>2, <2>3
<1>2. ASSUME NEW c \in Connections, \A t \in Threads : holds[t] # c
      PROVE  Owner[c] = NoThread
  BY <1>2 DEF Owner
<1>3. Owner \in [Connections -> Threads \cup {NoThread}]
  BY DEF Owner
<1> QED  BY <1>1, <1>2, <1>3, PoolAssumption

\* Owner is the only function that agrees with what the threads hold.
OwnerIsUnique ==
  \A f \in [Connections -> Threads \cup {NoThread}] :
    (\A c \in Connections, t \in Threads : f[c] = t <=> holds[t] = c) => Owner = f

\* A function that names the holder of every connection is Owner.
LEMMA OwnerUnique == PoolInv => OwnerIsUnique
<1> SUFFICES ASSUME PoolInv, NEW f \in [Connections -> Threads \cup {NoThread}],
                    \A c \in Connections, t \in Threads : f[c] = t <=> holds[t] = c
             PROVE  Owner = f
  BY DEF OwnerIsUnique
<1>1. \A c \in Connections : Owner[c] = f[c]
  BY OwnerIsHolder, PoolAssumption
<1> QED  BY <1>1, OwnerIsHolder

\* Taking the front is a Take of the abstract pool.
LEMMA TakeIsTake ==
  ASSUME PoolInv, PoolInv', NEW t \in Threads, at[t] # "using", TakeFront(t), UNCHANGED stopped
  PROVE  Pool!PoolNext \/ UNCHANGED <<connections, holds, stopped>>
<1> SUFFICES ASSUME ~stopped, connections # <<>>
             PROVE  Pool!PoolNext
  BY DEF TakeFront
<1> DEFINE c == Head(connections)
<1>1. /\ holds' = [holds EXCEPT ![t] = c] /\ connections' = Tail(connections)
      /\ holds \in [Threads -> Connections \cup {NoConn}]
  BY DEF TakeFront, PoolInv, TypeOK
<1>2. /\ c \in Connections /\ c \in Free /\ Free' = Free \ {c}
  <2>1. connections \in Seq(Connections) /\ Distinct(connections)
    BY ExclusiveQueue DEF PoolInv, TypeOK
  <2>2. /\ c \in Elements(connections) /\ c \in Connections
        /\ Elements(Tail(connections)) = Elements(connections) \ {c}
    BY <2>1, PopFrontOfDistinct
  <2> QED  BY <1>1, <2>2 DEF Free, Elements
<1>3. \A s \in Connections : Owner[s] # t
  BY OwnerIsHolder, PoolAssumption DEF PoolInv, Exclusive
<1>4. Owner' = [Owner EXCEPT ![c] = t]
  <2>1. [Owner EXCEPT ![c] = t] \in [Connections -> Threads \cup {NoThread}]
    BY OwnerIsHolder
  <2>2. ASSUME NEW d \in Connections, NEW s \in Threads
        PROVE  [Owner EXCEPT ![c] = t][d] = s <=> holds'[s] = d
    <3>1. \A r \in Threads : holds'[r] = IF r = t THEN c ELSE holds[r]
      BY <1>1
    <3>2. \A r \in Threads : holds[r] # c
      BY <1>2 DEF PoolInv, Exclusive
    <3> QED  BY <3>1, <3>2, <1>2, <1>3, OwnerIsHolder
  <2>3. OwnerIsUnique'
    BY OwnerUnique, PTL
  <2> QED  BY <2>1, <2>2, <2>3 DEF OwnerIsUnique
<1>5. Pool!Take(t, c)
  BY <1>2, <1>3, <1>4 DEF Pool!Take
<1> QED  BY <1>2, <1>5 DEF Pool!PoolNext

\* release is a Give of the abstract pool.
LEMMA ReleaseIsGive ==
  ASSUME PoolInv, PoolInv', NEW t \in Threads, Release(t)
  PROVE  Pool!PoolNext
<1> DEFINE c == holds[t]
<1>1. /\ holds' = [holds EXCEPT ![t] = NoConn] /\ UNCHANGED stopped
      /\ holds \in [Threads -> Connections \cup {NoConn}]
      /\ c \in Connections
  BY DEF Release, PoolInv, TypeOK, Exclusive
<1>2. Free' = Free \cup {c}
  BY ReleaseKeepsInv
<1>3. Owner[c] = t
  BY <1>1, OwnerIsHolder
<1>4. Owner' = [Owner EXCEPT ![c] = NoThread]
  <2>1. [Owner EXCEPT ![c] = NoThread] \in [Connections -> Threads \cup {NoThread}]
    BY OwnerIsHolder
  <2>2. ASSUME NEW d \in Connections, NEW s \in Threads
        PROVE  [Owner EXCEPT ![c] = NoThread][d] = s <=> holds'[s] = d
    <3>1. \A r \in Threads : holds'[r] = IF r = t THEN NoConn ELSE holds[r]
      BY <1>1
    <3>2. \A r \in Threads : holds[r] = c => r = t
      BY <1>1, PoolAssumption DEF PoolInv, Exclusive
    <3> QED  BY <3>1, <3>2, <1>1, OwnerIsHolder, PoolAssumption
  <2>3. OwnerIsUnique'
    BY OwnerUnique, PTL
  <2> QED  BY <2>1, <2>2, <2>3 DEF OwnerIsUnique
<1>5. Pool!Give(t, c)
  BY <1>1, <1>2, <1>3, <1>4 DEF Pool!Give
<1> QED  BY <1>1, <1>5 DEF Pool!PoolNext

\* Every step is a step of the abstract pool or invisible there.
LEMMA StepRefines == PoolInv /\ PoolInv' /\ [Next]_vars => [Pool!PoolNext]_(Pool!poolVars)
<1> SUFFICES ASSUME PoolInv, PoolInv', [Next]_vars
             PROVE  Pool!PoolNext \/ UNCHANGED <<Free, Owner, stopped>>
  BY DEF Pool!poolVars
<1>1. UNCHANGED <<connections, holds, stopped>> => UNCHANGED <<Free, Owner, stopped>>
  BY DEF Free, Owner
<1>2. ASSUME NEW t \in Threads, Acquire(t) \/ WakeSpuriously(t) \/ TimeOut(t) \/ LookAgain(t) \/ LookLate(t)
      PROVE  Pool!PoolNext \/ UNCHANGED <<connections, holds, stopped>>
  BY <1>2, TakeIsTake DEF Acquire, WakeSpuriously, TimeOut, LookAgain, LookLate
<1>3. ASSUME NEW t \in Threads, Release(t) PROVE Pool!PoolNext
  BY <1>3, ReleaseIsGive
<1>4. CASE Stop
  <2>1. Free' = {} /\ UNCHANGED Owner
    BY <1>4 DEF Stop, Free, Owner
  <2>2. Pool!Close
    BY <1>4, <2>1 DEF Stop, Pool!Close
  <2> QED  BY <2>2 DEF Pool!PoolNext
<1>5. NotifyAll \/ UNCHANGED vars => UNCHANGED <<connections, holds, stopped>>
  BY DEF NotifyAll, vars
<1> QED  BY <1>1, <1>2, <1>3, <1>4, <1>5 DEF Next, Step

\* For the users of the pool, acquire is Take, release is Give and stop is Close.
THEOREM PoolRefinement == Spec => ImplementsResourcePool
<1>1. Init => Pool!PoolInit
  <2> SUFFICES ASSUME Init PROVE Pool!PoolInit
    OBVIOUS
  <2>1. Free = Connections
    BY ExclusiveQueue, FullQueueIsDistinct, PoolAssumption DEF Init
  <2>2. \A c \in Connections, t \in Threads : holds[t] # c
    BY PoolAssumption DEF Init
  <2>3. Owner = [c \in Connections |-> NoThread]
    BY <2>2 DEF Owner
  <2> QED  BY <2>1, <2>3 DEF Init, Pool!PoolInit
<1> QED  BY <1>1, PoolInvInit, PoolInvNext, StepRefines, PTL
         DEF Spec, ImplementsResourcePool, Pool!PoolSpec

===============================================================================
