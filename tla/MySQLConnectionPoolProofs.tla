----------------------- MODULE MySQLConnectionPoolProofs -----------------------
(***************************************************************************)
(* Theorems about MySQLConnectionPool, for any number of threads and       *)
(* connections and with the unlocked read of the size as wrong as it may   *)
(* be.  PoolInv is inductive; Accounted is what turns the emptiness of the *)
(* deque into a number of leaked connections.                              *)
(***************************************************************************)
EXTENDS MySQLConnectionPool, PoolQueue

\* Every connection is free, borrowed or leaked.
Accounted ==
  \A c \in Connections : c \in Free \cup leaked \/ \E t \in Threads : holds[t] = c

PoolInv == TypeOK /\ Exclusive /\ Accounted

\* Exclusive in the words of PoolQueue.
LEMMA ExclusiveQueue ==
  /\ Free = Elements(connections)
  /\ Exclusive => Distinct(connections)
BY DEF Free, Elements, Exclusive, Distinct

\* initPool leaves every connection in the deque once.
LEMMA PoolInvInit == Init => PoolInv
<1> SUFFICES ASSUME Init PROVE PoolInv
  OBVIOUS
<1>1. /\ connections \in Seq(Connections) /\ Distinct(connections)
      /\ Elements(connections) = Connections
  BY FullQueueIsDistinct, PoolAssumption DEF Init
<1>2. TypeOK
  BY <1>1 DEF Init, TypeOK
<1>3. Exclusive
  BY <1>1, ExclusiveQueue, PoolAssumption DEF Init, Exclusive, Distinct
<1>4. Accounted
  BY <1>1, ExclusiveQueue DEF Accounted
<1> QED  BY <1>2, <1>3, <1>4 DEF PoolInv

\* The size check moves no connection, whatever it reads.
LEMMA CheckSizeKeepsInv ==
  ASSUME PoolInv, NEW t \in Threads, NEW k \in Calls, CheckSize(t, k)
  PROVE  PoolInv'
<1>1. TypeOK'
  BY PoolAssumption DEF PoolInv, TypeOK, CheckSize
<1>2. Free' = Free
  BY DEF CheckSize, Free
<1>3. \A s \in Threads : at'[s] = "query" <=> at[s] = "query"
  BY DEF PoolInv, TypeOK, CheckSize
<1> QED  BY <1>1, <1>2, <1>3 DEF PoolInv, Exclusive, Accounted, CheckSize

\* The connection at the front goes to one thread.
LEMMA PopFrontKeepsInv ==
  ASSUME PoolInv, NEW t \in Threads, PopFront(t)
  PROVE  PoolInv'
<1>1. CASE connections = <<>>
  <2>1. Free' = Free
    BY <1>1 DEF PopFront, Free
  <2> QED  BY <1>1, <2>1 DEF PoolInv, TypeOK, Exclusive, Accounted, PopFront
<1>2. CASE connections # <<>>
  <2>1. /\ holds' = [holds EXCEPT ![t] = Head(connections)]
        /\ connections' = Tail(connections)
        /\ at' = [at EXCEPT ![t] = "query"]
        /\ UNCHANGED <<call, leaked, undefined>> /\ at[t] = "pop"
    BY <1>2 DEF PopFront
  <2>2. /\ Head(connections) \in Free /\ Head(connections) \in Connections
        /\ connections' \in Seq(Connections) /\ Distinct(connections')
        /\ Free' = Free \ {Head(connections)}
    <3>1. connections \in Seq(Connections) /\ Distinct(connections)
      BY ExclusiveQueue DEF PoolInv, TypeOK
    <3>2. /\ Head(connections) \in Elements(connections) /\ Head(connections) \in Connections
          /\ Tail(connections) \in Seq(Connections) /\ Distinct(Tail(connections))
          /\ Elements(Tail(connections)) = Elements(connections) \ {Head(connections)}
      BY <1>2, <3>1, PopFrontOfDistinct
    <3>3. Free' = Elements(connections') /\ Free = Elements(connections)
      BY DEF Free, Elements
    <3> QED  BY <2>1, <3>2, <3>3
  <2>3. \A s \in Threads : /\ holds'[s] = IF s = t THEN Head(connections) ELSE holds[s]
                           /\ at'[s] = IF s = t THEN "query" ELSE at[s]
    BY <2>1 DEF PoolInv, TypeOK
  <2>4. TypeOK'
    BY <2>1, <2>2 DEF PoolInv, TypeOK
  <2>5. Exclusive'
    <3>1. Head(connections) # NoConn /\ Head(connections) \notin leaked
      BY <2>2, PoolAssumption DEF PoolInv, Exclusive
    <3>2. \A s \in Threads : holds[s] # Head(connections)
      BY <2>2 DEF PoolInv, Exclusive
    <3> QED  BY <2>1, <2>2, <2>3, <3>1, <3>2 DEF PoolInv, Exclusive, Distinct
  <2>6. Accounted'
    <3>1. holds[t] = NoConn
      BY <2>1 DEF PoolInv, Exclusive
    <3> QED  BY <2>1, <2>2, <2>3, <3>1, PoolAssumption DEF PoolInv, Accounted
  <2> QED  BY <2>4, <2>5, <2>6 DEF PoolInv
<1> QED  BY <1>1, <1>2

\* Both ends of a method: the connection goes back, or nobody knows it any more.
LEMMA FinishKeepsInv ==
  ASSUME PoolInv, NEW t \in Threads, at[t] = "query", Finish(t),
         releaseConnection(t) \/ Forget(t)
  PROVE  PoolInv'
<1>1. /\ holds[t] \in Connections /\ holds[t] \notin Free \cup leaked
      /\ connections \in Seq(Connections) /\ Distinct(connections)
  BY ExclusiveQueue DEF PoolInv, TypeOK, Exclusive
<1>2. \A s \in Threads \ {t} : holds[s] # holds[t]
  BY <1>1, PoolAssumption DEF PoolInv, Exclusive
<1>3. \A s \in Threads : /\ holds'[s] = IF s = t THEN NoConn ELSE holds[s]
                         /\ at'[s] = IF s = t THEN "idle" ELSE at[s]
  BY DEF Finish, PoolInv, TypeOK
<1>4. /\ connections' \in Seq(Connections) /\ Distinct(connections')
      /\ \/ Free' = Free \cup {holds[t]} /\ leaked' = leaked
         \/ Free' = Free /\ leaked' = leaked \cup {holds[t]}
  <2>1. Free' = Elements(connections') /\ Free = Elements(connections)
    BY DEF Free, Elements
  <2>2. CASE releaseConnection(t)
    <3>1. /\ Append(connections, holds[t]) \in Seq(Connections)
          /\ Distinct(Append(connections, holds[t]))
          /\ Elements(Append(connections, holds[t])) = Elements(connections) \cup {holds[t]}
      BY <1>1, <2>1, PushBackOnDistinct
    <3> QED  BY <2>1, <2>2, <3>1 DEF releaseConnection
  <2>3. CASE Forget(t)
    BY <1>1, <2>1, <2>3 DEF Forget
  <2> QED  BY <2>2, <2>3
<1>5. TypeOK'
  BY <1>1, <1>4 DEF Finish, PoolInv, TypeOK
<1>6. NoConn \notin Free' \cup leaked'
  BY <1>4, <1>5, PoolAssumption DEF TypeOK, Free
<1>7. Exclusive'
  BY <1>1, <1>2, <1>3, <1>4, <1>6 DEF PoolInv, Exclusive, Distinct
<1>8. Accounted'
  BY <1>3, <1>4 DEF PoolInv, Accounted
<1> QED  BY <1>5, <1>7, <1>8 DEF PoolInv

\* Every step keeps the invariant.
LEMMA PoolInvNext == PoolInv /\ [Next]_vars => PoolInv'
<1> SUFFICES ASSUME PoolInv, [Next]_vars PROVE PoolInv'
  OBVIOUS
<1>1. ASSUME NEW t \in Threads, QueryDone(t) \/ QueryThrows(t) PROVE PoolInv'
  BY <1>1, FinishKeepsInv DEF QueryDone, QueryThrows
<1>2. CASE UNCHANGED vars
  <2>1. Free' = Free
    BY <1>2 DEF vars, Free
  <2> QED  BY <1>2, <2>1 DEF vars, PoolInv, TypeOK, Exclusive, Accounted
<1> QED  BY <1>1, <1>2, CheckSizeKeepsInv, PopFrontKeepsInv DEF Next, Step

\* Threads other than t hold at most one connection each.
LEMMA HeldIsBounded ==
  ASSUME PoolInv, NEW t \in Threads, connections = <<>>, holds[t] = NoConn
  PROVE  Cardinality(leaked) + Cardinality(Threads) > Cardinality(Connections)
<1> DEFINE Held == Connections \ leaked
           Holders == {s \in Threads : holds[s] \in Held}
           f == [s \in Holders |-> holds[s]]
<1>1. \A c \in Held : \E s \in Threads : holds[s] = c
  BY DEF PoolInv, Accounted, Free
<1>2. f \in Surjection(Holders, Held)
  BY <1>1 DEF Surjection
<1>3. Holders \subseteq Threads \ {t}
  BY PoolAssumption
<1>4. /\ IsFiniteSet(Threads \ {t}) /\ Cardinality(Threads \ {t}) = Cardinality(Threads) - 1
      /\ Cardinality(Threads) \in Nat
  BY FS_RemoveElement, FS_CardinalityType, PoolAssumption
<1>5. IsFiniteSet(Holders) /\ Cardinality(Holders) <= Cardinality(Threads) - 1
  BY <1>3, <1>4, FS_Subset
<1>6. IsFiniteSet(Held) /\ Cardinality(Held) <= Cardinality(Holders)
  BY <1>2, <1>5, FS_Surjection
<1>7. IsFiniteSet(leaked) /\ leaked \subseteq Connections
  BY FS_Subset, PoolAssumption DEF PoolInv, TypeOK
<1>8. /\ Connections = Held \cup leaked /\ Held \cap leaked = {}
  BY <1>7
<1>9. Cardinality(Connections) = Cardinality(Held) + Cardinality(leaked)
  <2>1. Cardinality(Held \cup leaked) = Cardinality(Held) + Cardinality(leaked) - Cardinality(Held \cap leaked)
    BY <1>6, <1>7, FS_Union
  <2>2. Cardinality(Held \cap leaked) = 0
    BY <1>8, FS_EmptySet
  <2> HIDE DEF Held
  <2>3. Cardinality(Held) \in Nat /\ Cardinality(leaked) \in Nat
    BY <1>6, <1>7, FS_CardinalityType
  <2> QED  BY <1>8, <2>1, <2>2, <2>3
<1>10. Cardinality(Held) \in Nat /\ Cardinality(leaked) \in Nat /\ Cardinality(Holders) \in Nat
  BY <1>5, <1>6, <1>7, FS_CardinalityType
<1> HIDE DEF Held, Holders
<1> QED  BY <1>4, <1>5, <1>6, <1>9, <1>10

\* An empty deque is popped only when leaks took the reserve.
LEMMA UndefinedNext ==
  PoolInv /\ UndefinedNeedsLeaks /\ [Next]_vars => UndefinedNeedsLeaks'
<1> SUFFICES ASSUME PoolInv, UndefinedNeedsLeaks, [Next]_vars, undefined'
             PROVE  UndefinedNeedsLeaks'
  BY DEF UndefinedNeedsLeaks
<1>1. CASE UNCHANGED vars
  BY <1>1 DEF vars, UndefinedNeedsLeaks
<1>2. ASSUME NEW t \in Threads, PopFront(t) PROVE UndefinedNeedsLeaks'
  <2>1. connections = <<>> /\ UNCHANGED leaked
    BY <1>2 DEF PopFront
  <2>2. holds[t] = NoConn
    BY <1>2 DEF PopFront, PoolInv, Exclusive
  <2> QED  BY <2>1, <2>2, HeldIsBounded DEF UndefinedNeedsLeaks
<1>3. ASSUME NEW t \in Threads,
             QueryDone(t) \/ QueryThrows(t) \/ \E k \in Calls : CheckSize(t, k)
      PROVE  FALSE
  BY <1>3 DEF QueryDone, QueryThrows, CheckSize, Finish
<1> QED  BY <1>1, <1>2, <1>3 DEF Next, Step

\* Every variable keeps its type; no null pointer gets into the deque.
THEOREM TypeCorrect == Spec => []TypeOK
<1>1. PoolInv => TypeOK
  BY DEF PoolInv
<1> QED  BY <1>1, PoolInvInit, PoolInvNext, PTL DEF Spec

\* No two threads ever run statements on the same MySQL connection.
THEOREM PoolExclusive == Spec => [](TypeOK /\ Exclusive)
<1>1. PoolInv => TypeOK /\ Exclusive
  BY DEF PoolInv
<1> QED  BY <1>1, PoolInvInit, PoolInvNext, PTL DEF Spec

\* getConnection pops an empty deque only after the methods that lose
\* connections have lost more than the pool holds beyond one for every thread.
THEOREM PoolUndefinedNeedsLeaks == Spec => []UndefinedNeedsLeaks
<1>1. Init => UndefinedNeedsLeaks
  BY DEF Init, UndefinedNeedsLeaks
<1> QED  BY <1>1, PoolInvInit, PoolInvNext, UndefinedNext, PTL DEF Spec

===============================================================================
