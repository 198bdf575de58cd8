------------------------- MODULE OfflineMessageProofs -------------------------
(***************************************************************************)
(* Proofs about OfflineMessage::insert: its safety properties hold for any *)
(* number of threads, messages and failures, and it implements             *)
(* MessageStore.                                                           *)
(***************************************************************************)
EXTENDS OfflineMessage, FiniteSetTheorems, TLAPS

USE OfflineAssumption

-----------------------------------------------------------------------------
(* Sequences.                                                              *)

LEMMA AppendFacts ==
  ASSUME NEW S, NEW s \in Seq(S), NEW x \in S
  PROVE  /\ Append(s, x) \in Seq(S)
         /\ Len(s) \in Nat /\ DOMAIN s = 1..Len(s)
         /\ DOMAIN Append(s, x) = 1..(Len(s) + 1)
         /\ \A i \in 1..Len(s) : Append(s, x)[i] = s[i]
         /\ Append(s, x)[Len(s) + 1] = x
  OBVIOUS

LEMMA TailFacts ==
  ASSUME NEW S, NEW s \in Seq(S), s # <<>>
  PROVE  /\ Tail(s) \in Seq(S) /\ Head(s) \in S /\ Head(s) = s[1]
         /\ Len(s) \in Nat \ {0} /\ DOMAIN s = 1..Len(s)
         /\ DOMAIN Tail(s) = 1..(Len(s) - 1)
         /\ \A i \in 1..(Len(s) - 1) : Tail(s)[i] = s[i + 1]
  OBVIOUS

LEMMA StoresType ==
  ASSUME NEW S, NEW s \in Seq(S)
  PROVE  Stores(s) \subseteq S /\ \A i \in DOMAIN s : s[i] \in Stores(s) /\ s[i] \in S
  BY DEF Stores

LEMMA StoresAppend ==
  ASSUME NEW S, NEW s \in Seq(S), NEW x \in S
  PROVE  Stores(Append(s, x)) = Stores(s) \cup {x}
<1>1. \A y \in Stores(s) : y \in Stores(Append(s, x))
  BY AppendFacts DEF Stores
<1>2. x \in Stores(Append(s, x))
  BY AppendFacts DEF Stores
<1>3. \A y \in Stores(Append(s, x)) : y \in Stores(s) \cup {x}
  BY AppendFacts DEF Stores
<1> QED  BY <1>1, <1>2, <1>3

LEMMA StoresTail ==
  ASSUME NEW S, NEW s \in Seq(S), s # <<>>
  PROVE  Stores(s) = Stores(Tail(s)) \cup {Head(s)}
<1>1. Head(s) \in Stores(s)
  BY TailFacts DEF Stores
<1>2. \A y \in Stores(Tail(s)) : y \in Stores(s)
  <2> TAKE y \in Stores(Tail(s))
  <2>1. PICK i \in 1..(Len(s) - 1) : y = Tail(s)[i]
    BY TailFacts DEF Stores
  <2>2. i + 1 \in DOMAIN s /\ y = s[i + 1]
    BY <2>1, TailFacts
  <2> QED  BY <2>2 DEF Stores
<1>3. \A y \in Stores(s) : y \in Stores(Tail(s)) \cup {Head(s)}
  <2> TAKE y \in Stores(s)
  <2>1. PICK i \in 1..Len(s) : y = s[i]
    BY TailFacts DEF Stores
  <2>2. CASE i = 1
    BY <2>1, <2>2, TailFacts
  <2>3. CASE i # 1
    <3>1. i - 1 \in DOMAIN Tail(s) /\ Tail(s)[i - 1] = y
      BY <2>1, <2>3, TailFacts
    <3> QED  BY <3>1 DEF Stores
  <2> QED  BY <2>2, <2>3
<1> QED  BY <1>1, <1>2, <1>3

\* The places of m in s.
Places(s, m) == {i \in DOMAIN s : s[i] = m}
Count(s, m) == Cardinality(Places(s, m))

LEMMA PlacesFinite ==
  ASSUME NEW S, NEW s \in Seq(S), NEW m
  PROVE  IsFiniteSet(Places(s, m)) /\ Count(s, m) \in Nat
<1>1. DOMAIN s = 1..Len(s) /\ Len(s) \in Nat
  OBVIOUS
<1>2. IsFiniteSet(1..Len(s))
  BY <1>1, FS_Interval
<1>3. Places(s, m) \subseteq 1..Len(s)
  BY <1>1 DEF Places
<1> QED  BY <1>2, <1>3, FS_Subset, FS_CardinalityType DEF Count

LEMMA CountAppend ==
  ASSUME NEW S, NEW s \in Seq(S), NEW x \in S, NEW m
  PROVE  Count(Append(s, x), m) = Count(s, m) + (IF x = m THEN 1 ELSE 0)
<1>1. IsFiniteSet(Places(s, m)) /\ Count(s, m) \in Nat
  BY PlacesFinite
<1>2. CASE x = m
  <2>1. Places(Append(s, x), m) = Places(s, m) \cup {Len(s) + 1}
    BY <1>2, AppendFacts DEF Places
  <2>2. Len(s) + 1 \notin Places(s, m)
    BY AppendFacts DEF Places
  <2>3. Count(Append(s, x), m) = Count(s, m) + 1
    BY <1>1, <2>1, <2>2, FS_AddElement DEF Count
  <2> QED  BY <1>2, <2>3
<1>3. CASE x # m
  <2>1. Places(Append(s, x), m) = Places(s, m)
    BY <1>3, AppendFacts DEF Places
  <2> QED  BY <1>1, <1>3, <2>1 DEF Count
<1> QED  BY <1>2, <1>3

LEMMA CountTail ==
  ASSUME NEW S, NEW s \in Seq(S), s # <<>>, NEW m
  PROVE  Count(s, m) = Count(Tail(s), m) + (IF Head(s) = m THEN 1 ELSE 0)
<1> DEFINE rest == Places(s, m) \ {1}
<1> DEFINE f == [i \in Places(Tail(s), m) |-> i + 1]
<1>1. IsFiniteSet(Places(s, m)) /\ Count(s, m) \in Nat
  BY PlacesFinite
<1>2. IsFiniteSet(Places(Tail(s), m)) /\ Count(Tail(s), m) \in Nat
  BY PlacesFinite, TailFacts
<1>3. f \in Bijection(Places(Tail(s), m), rest)
  <2>1. \A i \in Places(Tail(s), m) : i \in Nat /\ i + 1 \in rest
    BY TailFacts DEF Places
  <2>2. f \in [Places(Tail(s), m) -> rest]
    BY <2>1
  <2>3. \A i, j \in Places(Tail(s), m) : f[i] = f[j] => i = j
    BY <2>1
  <2>4. \A j \in rest : \E i \in Places(Tail(s), m) : f[i] = j
    <3> TAKE j \in rest
    <3>1. j - 1 \in Places(Tail(s), m) /\ (j - 1) + 1 = j
      BY TailFacts DEF Places
    <3>2. f[j - 1] = j
      BY <3>1
    <3> QED  BY <3>1, <3>2
  <2> HIDE DEF rest, f
  <2>5. f \in Injection(Places(Tail(s), m), rest)
    BY <2>2, <2>3 DEF Injection, IsInjective
  <2>6. f \in Surjection(Places(Tail(s), m), rest)
    BY <2>2, <2>4 DEF Surjection
  <2> QED  BY <2>5, <2>6 DEF Bijection
<1> HIDE DEF f
<1>4. Cardinality(rest) = Count(Tail(s), m)
  <2>1. ExistsBijection(Places(Tail(s), m), rest)
    BY <1>3 DEF ExistsBijection
  <2> QED  BY <2>1, <1>2, FS_Bijection DEF Count
<1>5. 1 \in Places(s, m) <=> Head(s) = m
  BY TailFacts DEF Places
<1>6. CASE Head(s) = m
  <2>1. Cardinality(rest) = Count(s, m) - 1
    BY <1>1, <1>5, <1>6, FS_RemoveElement DEF Count
  <2> QED  BY <2>1, <1>1, <1>2, <1>4, <1>6
<1>7. CASE Head(s) # m
  <2>1. rest = Places(s, m)
    BY <1>5, <1>7
  <2>2. Cardinality(rest) = Count(s, m)
    BY <2>1 DEF Count
  <2> QED  BY <2>2, <1>1, <1>2, <1>4, <1>7
<1> QED  BY <1>6, <1>7

-----------------------------------------------------------------------------
(* The inductive invariant.                                                *)

Running == {"try", "lock", "drain", "own", "failed", "done"}

\* An insert has a message exactly while it runs, a number of its own that was
\* given out and has not returned, and an attempt left until it gives up.
CallInv ==
  /\ \A t \in Threads : at[t] = "idle" <=> msg[t] = 0
  /\ \A t, u \in Threads : msg[t] = msg[u] /\ msg[t] # 0 => t = u
  /\ \A t \in Threads : msg[t] < nextMsg /\ msg[t] \notin returned
  /\ \A t \in Threads : at[t] \in Running => retryCount[t] < maxRetries

\* Only messages that were given out are kept or have returned.
GivenOut ==
  \A m \in Stores(table) \cup Stores(failedQueue) \cup returned : m < nextMsg

\* A statement that returned has stored the message.
DoneIsStored == \A t \in Threads : at[t] = "done" => msg[t] \in Stores(table)

\* Message m is being inserted and its statement has not returned.
Pending(m) == \E t \in Threads : msg[t] = m /\ at[t] # "done"

\* A message that still has to be stored once more has only the copies of lost
\* replies.
CountInv ==
  \A m \in Msgs :
    Count(table, m) + Count(failedQueue, m)
      <= (LostReplies - lostReplies) + (IF Pending(m) THEN 0 ELSE 1)

\* Who came earlier has returned; he is in the table when a thread gets to its own
\* message, and in the table or further ahead in the queue for a queued message.
EarlierInv ==
  /\ \A m \in Msgs : earlier[m] \subseteq returned
  /\ \A t \in Threads : at[t] = "own" => earlier[msg[t]] \subseteq Stores(table)
  /\ \A j \in DOMAIN failedQueue : \A k \in earlier[failedQueue[j]] :
       k \in Stores(table) \/ \E i \in 1..(j - 1) : failedQueue[i] = k

OfflineInv ==
  /\ TypeOK /\ CallInv /\ GivenOut /\ DoneIsStored /\ ReturnedIsKept
  /\ CountInv /\ EarlierInv /\ OrderKept

\* The outcomes of one executeUpdate.
LEMMA StatementOutcome ==
  ASSUME TypeOK, NEW m \in Msgs, Stored(m) \/ Thrown(m)
  PROVE  /\ noConns' \in 0..NoConns /\ throws' \in 0..Throws /\ lostReplies' \in 0..LostReplies
         /\ \/ table' = table /\ lostReplies' = lostReplies /\ Thrown(m)
            \/ table' = Append(table, m) /\ lostReplies' = lostReplies /\ Stored(m)
            \/ table' = Append(table, m) /\ lostReplies' = lostReplies - 1 /\ Thrown(m)
  BY SMTT(20) DEF TypeOK, Stored, Thrown, budgetVars

LEMMA InitInv == Init => OfflineInv
<1> SUFFICES ASSUME Init PROVE OfflineInv
  OBVIOUS
<1>1. TypeOK /\ CallInv /\ GivenOut /\ DoneIsStored /\ ReturnedIsKept
  BY DEF Init, TypeOK, CallInv, GivenOut, DoneIsStored, ReturnedIsKept, Stores, Msgs,
         Running, maxRetries
<1>2. EarlierInv /\ OrderKept
  BY DEF Init, EarlierInv, OrderKept, Stores, Msgs
<1>3. CountInv
  <2> SUFFICES ASSUME NEW m \in Msgs
               PROVE  Count(table, m) + Count(failedQueue, m)
                        <= (LostReplies - lostReplies) + (IF Pending(m) THEN 0 ELSE 1)
    BY DEF CountInv
  <2>1. ~Pending(m)
    BY DEF Init, Pending, Msgs
  <2>2. Places(<<>>, m) = {}
    BY DEF Places
  <2>3. Count(<<>>, m) = 0
    BY <2>2, FS_EmptySet DEF Count
  <2>4. LostReplies - lostReplies = 0
    BY DEF Init
  <2> QED  BY <2>1, <2>3, <2>4 DEF Init
<1> QED  BY <1>1, <1>2, <1>3 DEF OfflineInv

\* A step that leaves messages, tables and history alone and only moves a thread
\* between the other positions of its loop.
LEMMA MovePreserves ==
  ASSUME OfflineInv, NEW t \in Threads,
         UNCHANGED <<msg, failedQueue, table, nextMsg, returned, earlier, lostReplies>>,
         TypeOK', at[t] # "idle", at[t] # "done",
         NEW to, Move(t, to), to # "idle", to # "done",
         to = "own" => earlier[msg[t]] \subseteq Stores(table),
         \A u \in Threads : at'[u] \in Running => retryCount'[u] < maxRetries
  PROVE  OfflineInv'
<1>1. at' = [at EXCEPT ![t] = to] /\ at \in [Threads -> {"idle", "try", "lock", "drain", "own", "failed", "done", "queue"}]
  BY DEF Move, OfflineInv, TypeOK
<1>2. at'[t] = to /\ \A u \in Threads \ {t} : at'[u] = at[u]
  BY <1>1
<1>3. CallInv'
  BY <1>2 DEF OfflineInv, CallInv
<1>4. GivenOut' /\ ReturnedIsKept' /\ OrderKept'
  BY DEF OfflineInv, GivenOut, ReturnedIsKept, OrderKept, Stores
<1>5. DoneIsStored'
  BY <1>2 DEF OfflineInv, DoneIsStored, Stores
<1>6. EarlierInv'
  BY <1>2 DEF OfflineInv, EarlierInv, Stores
<1>7. \A m : Pending(m)' <=> Pending(m)
  BY <1>2 DEF Pending
<1>8. CountInv'
  BY <1>7 DEF OfflineInv, CountInv, Count, Places
<1> QED  BY <1>3, <1>4, <1>5, <1>6, <1>8 DEF OfflineInv

LEMMA InsertPreserves ==
  ASSUME OfflineInv, NEW t \in Threads, Insert(t)
  PROVE  OfflineInv'
<1>1. TypeOK' /\ nextMsg \in Msgs /\ nextMsg \in Nat
  BY DEF OfflineInv, TypeOK, Insert, Move, Msgs, budgetVars, maxRetries
<1>2. /\ at'[t] = "try" /\ msg'[t] = nextMsg /\ retryCount'[t] = 0
      /\ \A u \in Threads \ {t} : at'[u] = at[u] /\ msg'[u] = msg[u] /\ retryCount'[u] = retryCount[u]
      /\ earlier'[nextMsg] = returned
      /\ \A m \in Msgs \ {nextMsg} : earlier'[m] = earlier[m]
      /\ UNCHANGED <<failedQueue, table, returned, lostReplies>> /\ nextMsg' = nextMsg + 1
      /\ at[t] = "idle"
  BY <1>1 DEF OfflineInv, TypeOK, Insert, Move, budgetVars
<1>3. CallInv'
  <2>1. \A u \in Threads : msg[u] \in Int
    BY DEF OfflineInv, TypeOK
  <2>2. nextMsg \notin returned
    BY <1>1 DEF OfflineInv, GivenOut
  <2>3. (\A u \in Threads : at[u] = "idle" <=> msg[u] = 0)'
    BY <1>1, <1>2 DEF OfflineInv, CallInv, Msgs
  <2>4. (\A u, v \in Threads : msg[u] = msg[v] /\ msg[u] # 0 => u = v)'
    BY <1>1, <1>2, <2>1 DEF OfflineInv, CallInv, Msgs
  <2>5. (\A u \in Threads : msg[u] < nextMsg /\ msg[u] \notin returned)'
    BY <1>1, <1>2, <2>1, <2>2 DEF OfflineInv, CallInv
  <2>6. (\A u \in Threads : at[u] \in Running => retryCount[u] < maxRetries)'
    BY <1>2 DEF OfflineInv, CallInv, maxRetries
  <2> QED  BY <2>3, <2>4, <2>5, <2>6 DEF CallInv
<1>4. GivenOut'
  <2>1. \A m \in Stores(table) \cup Stores(failedQueue) \cup returned : m \in Nat
    <3>1. Stores(table) \subseteq Msgs /\ Stores(failedQueue) \subseteq Msgs /\ returned \subseteq Msgs
      BY StoresType DEF OfflineInv, TypeOK
    <3>2. \A m \in Msgs : m \in Nat
      BY DEF Msgs
    <3> QED  BY <3>1, <3>2
  <2> QED  BY <1>1, <1>2, <2>1 DEF OfflineInv, GivenOut, Stores
<1>5. DoneIsStored' /\ ReturnedIsKept'
  BY <1>2 DEF OfflineInv, DoneIsStored, ReturnedIsKept, Stores
<1>6. \A i \in DOMAIN table : table[i] # nextMsg
  BY <1>1 DEF OfflineInv, GivenOut, Stores
<1>7. \A i \in DOMAIN failedQueue : failedQueue[i] # nextMsg /\ failedQueue[i] \in Msgs
  <2>1. \A i \in DOMAIN failedQueue : failedQueue[i] \in Stores(failedQueue) /\ failedQueue[i] \in Msgs
    BY StoresType DEF OfflineInv, TypeOK
  <2> QED  BY <1>1, <2>1 DEF OfflineInv, GivenOut
<1>8. EarlierInv'
  <2>1. (\A m \in Msgs : earlier[m] \subseteq returned)'
    BY <1>1, <1>2 DEF OfflineInv, EarlierInv
  <2>2. (\A u \in Threads : at[u] = "own" => earlier[msg[u]] \subseteq Stores(table))'
    <3> SUFFICES ASSUME NEW u \in Threads, at'[u] = "own"
                 PROVE  earlier'[msg'[u]] \subseteq Stores(table)'
      OBVIOUS
    <3>1. u # t /\ at[u] = "own" /\ msg'[u] = msg[u]
      BY <1>2
    <3>2. msg[u] \in Msgs /\ msg[u] # nextMsg
      <4>1. msg[u] \in 0..MaxMsgs /\ msg[u] < nextMsg
        BY DEF OfflineInv, CallInv, TypeOK
      <4>2. msg[u] # 0
        BY <3>1 DEF OfflineInv, CallInv
      <4> QED  BY <1>1, <4>1, <4>2 DEF Msgs
    <3> QED  BY <1>2, <3>1, <3>2 DEF OfflineInv, EarlierInv, Stores
  <2>3. (\A j \in DOMAIN failedQueue : \A k \in earlier[failedQueue[j]] :
           k \in Stores(table) \/ \E i \in 1..(j - 1) : failedQueue[i] = k)'
    BY <1>2, <1>7 DEF OfflineInv, EarlierInv, Stores
  <2> QED  BY <2>1, <2>2, <2>3 DEF EarlierInv
<1>9. OrderKept'
  BY <1>1, <1>2, <1>6 DEF OfflineInv, OrderKept, Msgs
<1>10. CountInv'
  <2> SUFFICES ASSUME NEW m \in Msgs
               PROVE  Count(table, m) + Count(failedQueue, m)
                        <= (LostReplies - lostReplies) + (IF Pending(m)' THEN 0 ELSE 1)
    BY <1>2 DEF CountInv, Count, Places
  <2>1. CASE m = nextMsg
    <3>1. Places(table, m) = {} /\ Places(failedQueue, m) = {}
      BY <1>6, <1>7, <2>1 DEF Places
    <3>2. Count(table, m) = 0 /\ Count(failedQueue, m) = 0
      BY <3>1, FS_EmptySet DEF Count
    <3>3. LostReplies - lostReplies \in Nat
      BY DEF OfflineInv, TypeOK
    <3> QED  BY <3>2, <3>3
  <2>2. CASE m # nextMsg
    <3>1. Pending(m)' <=> Pending(m)
      BY <1>1, <1>2, <2>2 DEF Pending, OfflineInv, CallInv, Msgs
    <3> QED  BY <3>1 DEF OfflineInv, CountInv
  <2> QED  BY <2>1, <2>2
<1> QED  BY <1>1, <1>3, <1>4, <1>5, <1>8, <1>9, <1>10 DEF OfflineInv

\* The steps between the statements.
LEMMA ControlPreserves ==
  ASSUME OfflineInv, NEW t \in Threads,
         GetConnection(t) \/ LockQueue(t) \/ DrainDone(t) \/ (GiveBack(t) /\ at[t] = "failed")
  PROVE  OfflineInv'
<1>1. CASE GetConnection(t)
  <2>1. retryCount[t] \in 0..2 /\ retryCount \in [Threads -> 0..maxRetries]
    BY <1>1 DEF GetConnection, OfflineInv, TypeOK, CallInv, Running, maxRetries
  <2>2. PICK to \in {"try", "lock", "queue"} :
          /\ Move(t, to)
          /\ to \in Running => retryCount'[t] < maxRetries
          /\ retryCount' \in [Threads -> 0..maxRetries]
          /\ \A u \in Threads \ {t} : retryCount'[u] = retryCount[u]
          /\ noConns' \in 0..NoConns
    <3>1. CASE Move(t, "lock") /\ UNCHANGED <<retryCount, noConns>>
      BY <2>1, <3>1 DEF OfflineInv, TypeOK, maxRetries
    <3>2. CASE /\ noConns > 0 /\ noConns' = noConns - 1
               /\ retryCount' = [retryCount EXCEPT ![t] = @ + 1]
               /\ Move(t, IF retryCount[t] + 1 < maxRetries THEN "try" ELSE "queue")
      <4>1. /\ retryCount'[t] = retryCount[t] + 1 /\ noConns' \in 0..NoConns
            /\ retryCount' \in [Threads -> 0..maxRetries]
            /\ \A u \in Threads \ {t} : retryCount'[u] = retryCount[u]
        BY <2>1, <3>2 DEF OfflineInv, TypeOK, maxRetries
      <4>2. CASE retryCount[t] + 1 < maxRetries
        <5>1. Move(t, "try")
          BY <3>2, <4>2
        <5> QED  BY <4>1, <4>2, <5>1
      <4>3. CASE ~(retryCount[t] + 1 < maxRetries)
        <5>1. Move(t, "queue")
          BY <3>2, <4>3
        <5> QED  BY <4>1, <5>1 DEF Running
      <4> QED  BY <4>2, <4>3
    <3> QED  BY <1>1, <3>1, <3>2 DEF GetConnection
  <2>3. UNCHANGED <<msg, queueMutex, failedQueue, table, nextMsg, returned, earlier, throws, lostReplies>>
        /\ at[t] = "try"
    BY <1>1 DEF GetConnection
  <2>4. TypeOK'
    BY <2>2, <2>3 DEF OfflineInv, TypeOK, Move
  <2>5. \A u \in Threads \ {t} : at'[u] = at[u]
    BY <2>2 DEF Move, OfflineInv, TypeOK
  <2>6. at'[t] = to
    BY <2>2 DEF Move, OfflineInv, TypeOK
  <2>7. \A u \in Threads : at'[u] \in Running => retryCount'[u] < maxRetries
    BY <2>2, <2>5, <2>6 DEF OfflineInv, CallInv
  <2> QED  BY <2>2, <2>3, <2>4, <2>7, MovePreserves
<1>2. CASE LockQueue(t)
  <2>1. TypeOK' /\ Move(t, "drain") /\ at[t] = "lock"
    BY <1>2 DEF LockQueue, OfflineInv, TypeOK, Move, budgetVars
  <2>2. \A u \in Threads : at'[u] \in Running => retryCount'[u] < maxRetries
    BY <1>2, <2>1 DEF LockQueue, Move, OfflineInv, CallInv, TypeOK, Running
  <2> QED  BY <1>2, <2>1, <2>2, MovePreserves DEF LockQueue, budgetVars
<1>3. CASE DrainDone(t)
  <2>1. TypeOK' /\ Move(t, "own") /\ at[t] = "drain"
    BY <1>3 DEF DrainDone, OfflineInv, TypeOK, Move, budgetVars
  <2>2. \A u \in Threads : at'[u] \in Running => retryCount'[u] < maxRetries
    BY <1>3, <2>1 DEF DrainDone, Move, OfflineInv, CallInv, TypeOK, Running
  <2>3. earlier[msg[t]] \subseteq Stores(table)
    <3>1. msg[t] \in Msgs
      BY <2>1 DEF OfflineInv, TypeOK, CallInv, Msgs
    <3>2. Stores(failedQueue) = {}
      BY <1>3 DEF DrainDone, Stores
    <3> QED  BY <3>1, <3>2 DEF OfflineInv, EarlierInv, ReturnedIsKept
  <2> QED  BY <1>3, <2>1, <2>2, <2>3, MovePreserves DEF DrainDone, budgetVars
<1>4. CASE GiveBack(t) /\ at[t] = "failed"
  <2>1. TypeOK' /\ Move(t, "try")
        /\ UNCHANGED <<retryCount, msg, failedQueue, table, nextMsg, returned, earlier, lostReplies>>
    BY <1>4 DEF GiveBack, OfflineInv, TypeOK, Move, budgetVars
  <2>2. \A u \in Threads : at'[u] \in Running => retryCount'[u] < maxRetries
    BY <1>4, <2>1 DEF Move, OfflineInv, CallInv, TypeOK, Running
  <2> QED  BY <1>4, <2>1, <2>2, MovePreserves
<1> QED  BY <1>1, <1>2, <1>3, <1>4

\* The end of an insert that stored its message, and the end of one that gave up.
LEMMA ReturnPreserves ==
  ASSUME OfflineInv, NEW t \in Threads,
         (GiveBack(t) /\ at[t] = "done") \/ QueueFailed(t)
  PROVE  OfflineInv'
<1>0. PICK m : m = msg[t]
  OBVIOUS
<1> USE <1>0
<1>1. /\ m \in Msgs /\ m \notin returned
      /\ at' = [at EXCEPT ![t] = "idle"] /\ msg' = [msg EXCEPT ![t] = 0]
      /\ returned' = returned \cup {m}
      /\ UNCHANGED <<retryCount, queueMutex, table, nextMsg, earlier, noConns, throws, lostReplies>>
      /\ at[t] # "idle"
  BY DEF GiveBack, QueueFailed, Move, OfflineInv, TypeOK, CallInv, Msgs, budgetVars
<1>2. /\ at'[t] = "idle" /\ msg'[t] = 0
      /\ \A u \in Threads \ {t} : at'[u] = at[u] /\ msg'[u] = msg[u]
  BY <1>1 DEF OfflineInv, TypeOK
<1>3. \/ failedQueue' = failedQueue /\ m \in Stores(table) /\ at[t] = "done"
      \/ failedQueue' = Append(failedQueue, m) /\ at[t] = "queue"
  BY DEF GiveBack, QueueFailed, OfflineInv, DoneIsStored
<1>4. /\ failedQueue' \in Seq(Msgs)
      /\ Stores(failedQueue)' \in {Stores(failedQueue), Stores(failedQueue) \cup {m}}
      /\ Stores(failedQueue) \subseteq Stores(failedQueue)'
      /\ m \in Stores(table) \cup Stores(failedQueue)'
  <2>1. failedQueue \in Seq(Msgs)
    BY DEF OfflineInv, TypeOK
  <2>2. CASE failedQueue' = failedQueue
    BY <1>3, <2>1, <2>2, StoresAppend, <1>1 DEF Stores
  <2>3. CASE failedQueue' = Append(failedQueue, m)
    <3>1. Stores(failedQueue)' = Stores(Append(failedQueue, m))
      BY <2>3 DEF Stores
    <3>2. Stores(Append(failedQueue, m)) = Stores(failedQueue) \cup {m}
      BY <2>1, <1>1, StoresAppend
    <3> QED  BY <3>1, <3>2, <2>1, <2>3, <1>1
  <2> QED  BY <1>3, <2>2, <2>3
<1>5. TypeOK'
  <2>1. at' \in [Threads -> {"idle", "try", "lock", "drain", "own", "failed", "done", "queue"}]
    BY <1>1 DEF OfflineInv, TypeOK
  <2>2. msg' \in [Threads -> 0..MaxMsgs] /\ returned' \subseteq Msgs
    <3>1. 0 \in 0..MaxMsgs
      OBVIOUS
    <3> QED  BY <1>1, <3>1 DEF OfflineInv, TypeOK
  <2> QED  BY <1>1, <1>4, <2>1, <2>2 DEF OfflineInv, TypeOK
<1>6. m < nextMsg /\ \A u \in Threads \ {t} : msg[u] # m
  BY <1>1 DEF OfflineInv, CallInv, Msgs
<1>7. CallInv'
  <2>1. (\A u \in Threads : at[u] = "idle" <=> msg[u] = 0)'
    BY <1>2 DEF OfflineInv, CallInv
  <2>2. (\A u, v \in Threads : msg[u] = msg[v] /\ msg[u] # 0 => u = v)'
    BY <1>2 DEF OfflineInv, CallInv
  <2>3. (\A u \in Threads : msg[u] < nextMsg /\ msg[u] \notin returned)'
    <3>1. 0 < nextMsg /\ 0 \notin returned'
      BY <1>1 DEF OfflineInv, TypeOK, Msgs
    <3> QED  BY <1>1, <1>2, <1>6, <3>1 DEF OfflineInv, CallInv
  <2>4. (\A u \in Threads : at[u] \in Running => retryCount[u] < maxRetries)'
    BY <1>1, <1>2 DEF OfflineInv, CallInv, Running
  <2> QED  BY <2>1, <2>2, <2>3, <2>4 DEF CallInv
<1>8. Stores(table)' = Stores(table)
  BY <1>1 DEF Stores
<1>9. GivenOut' /\ DoneIsStored' /\ ReturnedIsKept'
  <2>1. GivenOut'
    BY <1>1, <1>4, <1>6, <1>8 DEF OfflineInv, GivenOut
  <2>2. DoneIsStored'
    BY <1>2, <1>8 DEF OfflineInv, DoneIsStored
  <2>3. ReturnedIsKept'
    BY <1>1, <1>4, <1>8 DEF OfflineInv, ReturnedIsKept
  <2> QED  BY <2>1, <2>2, <2>3
<1>10. OrderKept'
  BY <1>1 DEF OfflineInv, OrderKept
<1>11. EarlierInv'
  <2>1. (\A k \in Msgs : earlier[k] \subseteq returned)'
    BY <1>1 DEF OfflineInv, EarlierInv
  <2>2. (\A u \in Threads : at[u] = "own" => earlier[msg[u]] \subseteq Stores(table))'
    BY <1>1, <1>2, <1>8 DEF OfflineInv, EarlierInv
  <2>3. (\A j \in DOMAIN failedQueue : \A k \in earlier[failedQueue[j]] :
           k \in Stores(table) \/ \E i \in 1..(j - 1) : failedQueue[i] = k)'
    <3>1. CASE failedQueue' = failedQueue
      BY <1>1, <1>8, <3>1 DEF OfflineInv, EarlierInv
    <3>2. CASE failedQueue' = Append(failedQueue, m)
      <4> DEFINE q == failedQueue
      <4>1. /\ q \in Seq(Msgs) /\ Len(q) \in Nat /\ DOMAIN q = 1..Len(q)
            /\ DOMAIN failedQueue' = 1..(Len(q) + 1)
            /\ \A i \in 1..Len(q) : failedQueue'[i] = q[i]
            /\ failedQueue'[Len(q) + 1] = m
        BY <1>1, <3>2, AppendFacts DEF OfflineInv, TypeOK
      <4> SUFFICES ASSUME NEW j \in 1..(Len(q) + 1), NEW k \in earlier[failedQueue'[j]]
                   PROVE  k \in Stores(table) \/ \E i \in 1..(j - 1) : failedQueue'[i] = k
        BY <1>1, <1>8, <4>1
      <4>2. CASE j \in 1..Len(q)
        <5>1. k \in Stores(table) \/ \E i \in 1..(j - 1) : q[i] = k
          BY <4>1, <4>2 DEF OfflineInv, EarlierInv
        <5> QED  BY <4>1, <4>2, <5>1
      <4>3. CASE j = Len(q) + 1
        <5>1. k \in Stores(table) \/ k \in Stores(q)
          BY <1>1, <4>1, <4>3 DEF OfflineInv, EarlierInv, ReturnedIsKept
        <5>2. k \in Stores(q) => \E i \in 1..Len(q) : q[i] = k
          BY <4>1 DEF Stores
        <5> QED  BY <4>1, <4>3, <5>1, <5>2
      <4> QED  BY <4>1, <4>2, <4>3
    <3> QED  BY <1>3, <3>1, <3>2
  <2> QED  BY <2>1, <2>2, <2>3 DEF EarlierInv
<1>12. CountInv'
  <2> SUFFICES ASSUME NEW k \in Msgs
               PROVE  Count(table, k) + Count(failedQueue', k)
                        <= (LostReplies - lostReplies) + (IF Pending(k)' THEN 0 ELSE 1)
    BY <1>1 DEF CountInv, Count, Places
  <2>1. /\ Count(table, k) \in Nat /\ Count(failedQueue, k) \in Nat
        /\ LostReplies - lostReplies \in Nat
        /\ Count(table, k) + Count(failedQueue, k)
             <= (LostReplies - lostReplies) + (IF Pending(k) THEN 0 ELSE 1)
    BY PlacesFinite DEF OfflineInv, TypeOK, CountInv
  <2>2. k # m => (Pending(k)' <=> Pending(k))
    BY <1>1, <1>2 DEF Pending, Msgs
  <2>3. ~Pending(m)'
    BY <1>1, <1>2, <1>6 DEF Pending, Msgs
  <2>4. CASE failedQueue' = failedQueue /\ at[t] = "done"
    <3>1. ~Pending(m)
      BY <1>6, <2>4 DEF Pending
    <3> QED  BY <2>1, <2>2, <2>3, <2>4, <3>1
  <2>5. CASE failedQueue' = Append(failedQueue, m) /\ at[t] = "queue"
    <3>1. Pending(m)
      BY <2>5 DEF Pending
    <3>2. Count(failedQueue', k) = Count(failedQueue, k) + (IF m = k THEN 1 ELSE 0)
      BY <1>1, <2>5, CountAppend DEF OfflineInv, TypeOK
    <3> QED  BY <2>1, <2>2, <2>3, <3>1, <3>2
  <2> QED  BY <1>3, <2>4, <2>5
<1> QED  BY <1>5, <1>7, <1>9, <1>10, <1>11, <1>12 DEF OfflineInv

\* One statement for message h: from the front of the queue (DrainOne) or the
\* thread's own (InsertOwn).  Every place of the loop it may lead to is covered.
LEMMA RowPreserves ==
  ASSUME OfflineInv, NEW t \in Threads, NEW h \in Msgs,
         Stored(h) \/ Thrown(h),
         earlier[h] \subseteq Stores(table), h < nextMsg,
         UNCHANGED <<msg, retryCount, nextMsg, returned, earlier>>,
         at[t] \in {"drain", "own"},
         NEW to \in {"drain", "done", "failed"}, at' = [at EXCEPT ![t] = to],
         to = "done" <=> at[t] = "own" /\ Stored(h),
         queueMutex' \in Threads \cup {NoThread},
         \/ at[t] = "own" /\ h = msg[t] /\ failedQueue' = failedQueue
         \/ at[t] = "drain" /\ Thrown(h) /\ failedQueue # <<>> /\ h = Head(failedQueue) /\ failedQueue' = failedQueue
         \/ at[t] = "drain" /\ Stored(h) /\ failedQueue # <<>> /\ h = Head(failedQueue) /\ failedQueue' = Tail(failedQueue)
  PROVE  OfflineInv'
<1>1. /\ noConns' \in 0..NoConns /\ throws' \in 0..Throws /\ lostReplies' \in 0..LostReplies
      /\ \/ table' = table /\ lostReplies' = lostReplies /\ Thrown(h)
         \/ table' = Append(table, h) /\ lostReplies' = lostReplies /\ Stored(h)
         \/ table' = Append(table, h) /\ lostReplies' = lostReplies - 1 /\ Thrown(h)
  BY StatementOutcome DEF OfflineInv
<1>2. ~(Stored(h) /\ Thrown(h)) /\ (Stored(h) => table' = Append(table, h))
  BY SMTT(20) DEF Stored, Thrown, budgetVars, OfflineInv, TypeOK
<1>3. table \in Seq(Msgs) /\ failedQueue \in Seq(Msgs)
  BY DEF OfflineInv, TypeOK
<1>4. /\ table' \in Seq(Msgs) /\ failedQueue' \in Seq(Msgs)
      /\ Stores(table)' \in {Stores(table), Stores(table) \cup {h}}
      /\ Stored(h) => h \in Stores(table)'
      /\ Stores(table) \subseteq Stores(table)'
  <2>1. CASE table' = table
    BY <1>2, <1>3, <2>1, TailFacts, <1>1 DEF Stores
  <2>2. CASE table' = Append(table, h)
    <3>1. Stores(table)' = Stores(Append(table, h))
      BY <2>2 DEF Stores
    <3>2. Stores(Append(table, h)) = Stores(table) \cup {h}
      BY <1>3, StoresAppend
    <3>3. table' \in Seq(Msgs) /\ failedQueue' \in Seq(Msgs)
      <4>1. Append(table, h) \in Seq(Msgs)
        BY <1>3
      <4>2. failedQueue # <<>> => Tail(failedQueue) \in Seq(Msgs)
        BY <1>3, TailFacts
      <4> QED  BY <1>3, <2>2, <4>1, <4>2
    <3> QED  BY <3>1, <3>2, <3>3
  <2> QED  BY <1>1, <2>1, <2>2
<1>5. /\ Stores(failedQueue)' \subseteq Stores(failedQueue)
      /\ Stores(failedQueue) \subseteq Stores(failedQueue)' \cup Stores(table)'
  <2>1. CASE failedQueue' = failedQueue
    BY <2>1 DEF Stores
  <2>2. CASE Stored(h) /\ failedQueue # <<>> /\ h = Head(failedQueue) /\ failedQueue' = Tail(failedQueue)
    <3>1. Stores(failedQueue) = Stores(Tail(failedQueue)) \cup {h}
      BY <1>3, <2>2, StoresTail
    <3>2. Stores(failedQueue)' = Stores(Tail(failedQueue))
      BY <2>2 DEF Stores
    <3> QED  BY <1>4, <2>2, <3>1, <3>2
  <2> QED  BY <2>1, <2>2
<1>6. at'[t] = to /\ \A u \in Threads \ {t} : at'[u] = at[u]
  BY DEF OfflineInv, TypeOK
<1>7. TypeOK'
  <2>1. at' \in [Threads -> {"idle", "try", "lock", "drain", "own", "failed", "done", "queue"}]
    BY DEF OfflineInv, TypeOK
  <2> QED  BY <1>1, <1>4, <2>1 DEF OfflineInv, TypeOK
<1>8. CallInv'
  BY <1>6 DEF OfflineInv, CallInv, Running
<1>9. GivenOut'
  BY <1>4, <1>5 DEF OfflineInv, GivenOut
<1>10. DoneIsStored'
  BY <1>4, <1>6 DEF OfflineInv, DoneIsStored
<1>11. ReturnedIsKept'
  BY <1>4, <1>5 DEF OfflineInv, ReturnedIsKept
<1>12. OrderKept'
  <2>1. CASE table' = table
    BY <2>1 DEF OfflineInv, OrderKept
  <2>2. CASE table' = Append(table, h)
    <3>1. /\ Len(table) \in Nat /\ DOMAIN table = 1..Len(table)
          /\ DOMAIN table' = 1..(Len(table) + 1)
          /\ \A i \in 1..Len(table) : table'[i] = table[i]
          /\ table'[Len(table) + 1] = h
      BY <1>3, <2>2, AppendFacts
    <3> SUFFICES ASSUME NEW m \in Msgs, NEW k \in earlier[m], NEW j \in 1..(Len(table) + 1),
                        table'[j] = m
                 PROVE  \E i \in 1..(j - 1) : table'[i] = k
      BY <3>1 DEF OrderKept
    <3>2. CASE j \in 1..Len(table)
      <4>1. \E i \in 1..(j - 1) : table[i] = k
        BY <3>1, <3>2, SMTT(20) DEF OfflineInv, OrderKept
      <4> QED  BY <3>1, <3>2, <4>1
    <3>3. CASE j = Len(table) + 1
      <4>1. k \in Stores(table)
        BY <3>1, <3>3
      <4>2. \E i \in 1..Len(table) : table[i] = k
        BY <3>1, <4>1 DEF Stores
      <4> QED  BY <3>1, <3>3, <4>2
    <3> QED  BY <3>1, <3>2, <3>3
  <2> QED  BY <1>1, <2>1, <2>2
<1>13. EarlierInv'
  <2>1. (\A k \in Msgs : earlier[k] \subseteq returned)'
    BY DEF OfflineInv, EarlierInv
  <2>2. (\A u \in Threads : at[u] = "own" => earlier[msg[u]] \subseteq Stores(table))'
    BY <1>4, <1>6 DEF OfflineInv, EarlierInv
  <2>3. (\A j \in DOMAIN failedQueue : \A k \in earlier[failedQueue[j]] :
           k \in Stores(table) \/ \E i \in 1..(j - 1) : failedQueue[i] = k)'
    <3>1. CASE failedQueue' = failedQueue
      BY <1>4, <3>1 DEF OfflineInv, EarlierInv
    <3>2. CASE Stored(h) /\ failedQueue # <<>> /\ h = Head(failedQueue) /\ failedQueue' = Tail(failedQueue)
      <4> DEFINE q == failedQueue
      <4>1. /\ Len(q) \in Nat \ {0} /\ DOMAIN q = 1..Len(q) /\ q[1] = h
            /\ DOMAIN failedQueue' = 1..(Len(q) - 1)
            /\ \A i \in 1..(Len(q) - 1) : failedQueue'[i] = q[i + 1]
        BY <1>3, <3>2, TailFacts
      <4> SUFFICES ASSUME NEW j \in 1..(Len(q) - 1), NEW k \in earlier[failedQueue'[j]]
                   PROVE  k \in Stores(table)' \/ \E i \in 1..(j - 1) : failedQueue'[i] = k
        BY <4>1
      <4>2. k \in Stores(table) \/ \E i \in 1..j : q[i] = k
        <5>1. j + 1 \in DOMAIN q /\ failedQueue'[j] = q[j + 1] /\ (j + 1) - 1 = j
          BY <4>1
        <5> QED  BY <5>1 DEF OfflineInv, EarlierInv
      <4>3. ASSUME NEW i \in 1..j, q[i] = k PROVE k \in Stores(table)' \/ \E l \in 1..(j - 1) : failedQueue'[l] = k
        <5>1. CASE i = 1
          BY <1>4, <3>2, <4>1, <4>3, <5>1
        <5>2. CASE i # 1
          <6>1. i - 1 \in 1..(j - 1) /\ failedQueue'[i - 1] = k
            BY <4>1, <4>3, <5>2
          <6> QED  BY <6>1
        <5> QED  BY <5>1, <5>2
      <4> QED  BY <1>4, <4>2, <4>3
    <3> QED  BY <3>1, <3>2
  <2> QED  BY <2>1, <2>2, <2>3 DEF EarlierInv
<1>14. CountInv'
  <2> SUFFICES ASSUME NEW k \in Msgs
               PROVE  Count(table', k) + Count(failedQueue', k)
                        <= (LostReplies - lostReplies') + (IF Pending(k)' THEN 0 ELSE 1)
    BY DEF CountInv, Count, Places
  <2>1. /\ Count(table, k) \in Nat /\ Count(failedQueue, k) \in Nat
        /\ LostReplies - lostReplies \in Nat /\ lostReplies \in Nat
        /\ Count(table, k) + Count(failedQueue, k)
             <= (LostReplies - lostReplies) + (IF Pending(k) THEN 0 ELSE 1)
    BY <1>3, PlacesFinite DEF OfflineInv, TypeOK, CountInv
  <2>2. Count(Append(table, h), k) = Count(table, k) + (IF h = k THEN 1 ELSE 0)
    BY <1>3, CountAppend
  <2>3. CASE at[t] = "own"
    <3>1. h = msg[t] /\ failedQueue' = failedQueue
      BY <2>3
    <3>2. Pending(h)
      BY <2>3, <3>1 DEF Pending
    <3>3. k # h => (Pending(k)' <=> Pending(k))
      BY <1>6, <3>1 DEF Pending
    <3>4. to # "done" => Pending(h)'
      BY <1>6, <3>1 DEF Pending
    <3>5. CASE Stored(h)
      <4>1. to = "done" /\ table' = Append(table, h) /\ lostReplies' = lostReplies
        BY <1>1, <1>2, <2>3, <3>5
      <4>2. ~Pending(h)'
        <5>1. \A u \in Threads : msg[u] = h => u = t
          BY <2>3, <3>1 DEF OfflineInv, CallInv, Msgs
        <5> QED  BY <1>6, <4>1, <5>1 DEF Pending
      <4> QED  BY <2>1, <2>2, <3>1, <3>2, <3>3, <4>1, <4>2
    <3>6. CASE Thrown(h)
      <4>1. to # "done"
        BY <1>2, <3>6
      <4>2. Pending(k)' <=> Pending(k)
        BY <3>2, <3>3, <3>4, <4>1
      <4>3. \/ table' = table /\ lostReplies' = lostReplies
            \/ table' = Append(table, h) /\ lostReplies' = lostReplies - 1
        BY <1>1, <1>2, <3>6
      <4>4. CASE table' = table /\ lostReplies' = lostReplies
        BY <2>1, <3>1, <4>2, <4>4
      <4>5. CASE table' = Append(table, h) /\ lostReplies' = lostReplies - 1
        <5>1. LostReplies - lostReplies' = (LostReplies - lostReplies) + 1
          BY <2>1, <4>5
        <5> QED  BY <2>1, <2>2, <3>1, <4>2, <4>5, <5>1
      <4> QED  BY <4>3, <4>4, <4>5
    <3> QED  BY <3>5, <3>6
  <2>4. CASE at[t] = "drain"
    <3>1. Pending(k)' <=> Pending(k)
      BY <1>6, <2>4 DEF Pending
    <3>2. CASE Thrown(h)
      <4>1. \/ table' = table /\ lostReplies' = lostReplies
            \/ table' = Append(table, h) /\ lostReplies' = lostReplies - 1
        BY <1>1, <1>2, <3>2
      <4>2. failedQueue' = failedQueue
        BY <1>2, <2>4, <3>2
      <4>3. CASE table' = table /\ lostReplies' = lostReplies
        BY <2>1, <3>1, <4>2, <4>3
      <4>4. CASE table' = Append(table, h) /\ lostReplies' = lostReplies - 1
        <5>1. LostReplies - lostReplies' = (LostReplies - lostReplies) + 1
          BY <2>1, <4>4
        <5> QED  BY <2>1, <2>2, <3>1, <4>2, <4>4, <5>1
      <4> QED  BY <4>1, <4>3, <4>4
    <3>3. CASE Stored(h)
      <4>1. table' = Append(table, h) /\ lostReplies' = lostReplies
        BY <1>1, <1>2, <3>3
      <4>2. failedQueue # <<>> /\ h = Head(failedQueue) /\ failedQueue' = Tail(failedQueue)
        BY <1>2, <2>4, <3>3
      <4>3. Count(failedQueue, k) = Count(Tail(failedQueue), k) + (IF h = k THEN 1 ELSE 0)
        BY <1>3, <4>2, CountTail
      <4>4. Count(Tail(failedQueue), k) \in Nat
        BY <1>3, <4>2, TailFacts, PlacesFinite
      <4> QED  BY <2>1, <2>2, <3>1, <4>1, <4>2, <4>3, <4>4
    <3> QED  BY <3>2, <3>3
  <2> QED  BY <2>3, <2>4
<1> QED  BY <1>7, <1>8, <1>9, <1>10, <1>11, <1>12, <1>13, <1>14 DEF OfflineInv

\* The two places that run a statement.
LEMMA StatementPreserves ==
  ASSUME OfflineInv, NEW t \in Threads, DrainOne(t) \/ InsertOwn(t)
  PROVE  OfflineInv'
<1>1. CASE DrainOne(t)
  <2>1. PICK h : h = Head(failedQueue)
    OBVIOUS
  <2>2. h \in Msgs /\ h \in Stores(failedQueue) /\ failedQueue # <<>> /\ h = failedQueue[1]
        /\ 1 \in DOMAIN failedQueue
    BY <1>1, <2>1, TailFacts, StoresTail DEF DrainOne, OfflineInv, TypeOK
  <2>3. earlier[h] \subseteq Stores(table) /\ h < nextMsg
    <3>1. \A k \in earlier[h] : k \in Stores(table) \/ \E i \in 1..(1 - 1) : failedQueue[i] = k
      BY <2>2 DEF OfflineInv, EarlierInv
    <3> QED  BY <2>2, <3>1 DEF OfflineInv, GivenOut
  <2>4. ~(Stored(h) /\ Thrown(h))
    BY DEF Stored, Thrown, budgetVars, OfflineInv, TypeOK
  <2>5. CASE Stored(h) /\ failedQueue' = Tail(failedQueue) /\ UNCHANGED <<at, queueMutex>>
    <3>1. at' = [at EXCEPT ![t] = "drain"] /\ at[t] = "drain"
      BY <1>1, <2>5 DEF DrainOne, OfflineInv, TypeOK
    <3>2. queueMutex' \in Threads \cup {NoThread}
      BY <2>5 DEF OfflineInv, TypeOK
    <3> QED  BY <1>1, <2>1, <2>2, <2>3, <2>5, <3>1, <3>2, RowPreserves DEF DrainOne
  <2>6. CASE Thrown(h) /\ queueMutex' = NoThread /\ Move(t, "failed") /\ UNCHANGED failedQueue
    <3>1. at' = [at EXCEPT ![t] = "failed"] /\ at[t] = "drain"
      BY <1>1, <2>6 DEF DrainOne, Move
    <3> QED  BY <1>1, <2>1, <2>2, <2>3, <2>4, <2>6, <3>1, RowPreserves DEF DrainOne
  <2> QED  BY <1>1, <2>1, <2>5, <2>6 DEF DrainOne
<1>2. CASE InsertOwn(t)
  <2>1. PICK h : h = msg[t]
    OBVIOUS
  <2>2. h \in Msgs /\ h < nextMsg /\ earlier[h] \subseteq Stores(table) /\ at[t] = "own"
    BY <1>2, <2>1 DEF InsertOwn, OfflineInv, TypeOK, CallInv, EarlierInv, Msgs
  <2>3. ~(Stored(h) /\ Thrown(h))
    BY DEF Stored, Thrown, budgetVars, OfflineInv, TypeOK
  <2>4. queueMutex' \in Threads \cup {NoThread}
    BY <1>2 DEF InsertOwn, OfflineInv, TypeOK
  <2>5. CASE Stored(h) /\ Move(t, "done")
    BY <1>2, <2>1, <2>2, <2>4, <2>5, RowPreserves DEF InsertOwn, Move
  <2>6. CASE Thrown(h) /\ Move(t, "failed")
    BY <1>2, <2>1, <2>2, <2>3, <2>4, <2>6, RowPreserves DEF InsertOwn, Move
  <2> QED  BY <1>2, <2>1, <2>5, <2>6 DEF InsertOwn
<1> QED  BY <1>1, <1>2

LEMMA StutterPreserves == OfflineInv /\ UNCHANGED vars => OfflineInv'
<1> SUFFICES ASSUME OfflineInv, UNCHANGED vars PROVE OfflineInv'
  OBVIOUS
<1>1. /\ at' = at /\ msg' = msg /\ retryCount' = retryCount /\ queueMutex' = queueMutex
      /\ failedQueue' = failedQueue /\ table' = table /\ nextMsg' = nextMsg
      /\ returned' = returned /\ earlier' = earlier
      /\ noConns' = noConns /\ throws' = throws /\ lostReplies' = lostReplies
  BY DEF vars
<1>2. TypeOK'
  BY <1>1 DEF OfflineInv, TypeOK
<1>3. CallInv'
  BY <1>1 DEF OfflineInv, CallInv
<1>4. GivenOut' /\ DoneIsStored' /\ ReturnedIsKept'
  BY <1>1 DEF OfflineInv, GivenOut, DoneIsStored, ReturnedIsKept, Stores
<1>5. CountInv'
  <2>1. \A m : Pending(m)' <=> Pending(m)
    BY <1>1 DEF Pending
  <2>2. \A m : Count(table, m)' = Count(table, m) /\ Count(failedQueue, m)' = Count(failedQueue, m)
    BY <1>1 DEF Count, Places
  <2> QED  BY <1>1, <2>1, <2>2 DEF OfflineInv, CountInv
<1>6. EarlierInv'
  BY <1>1 DEF OfflineInv, EarlierInv, Stores
<1>7. OrderKept'
  BY <1>1 DEF OfflineInv, OrderKept
<1> QED  BY <1>2, <1>3, <1>4, <1>5, <1>6, <1>7 DEF OfflineInv

\* The conjunction is invariant: threads may interleave, statements fail and
\* replies get lost in any way.
THEOREM OfflineInvariant == Spec => []OfflineInv
<1>1. OfflineInv /\ [Next]_vars => OfflineInv'
  <2> SUFFICES ASSUME OfflineInv, [Next]_vars PROVE OfflineInv'
    OBVIOUS
  <2>1. ASSUME NEW t \in Threads, Insert(t) \/ Step(t) PROVE OfflineInv'
    <3>1. CASE Insert(t)
      BY <3>1, InsertPreserves
    <3>2. CASE GetConnection(t) \/ LockQueue(t) \/ DrainDone(t)
      BY <3>2, ControlPreserves
    <3>3. CASE DrainOne(t) \/ InsertOwn(t)
      BY <3>3, StatementPreserves
    <3>4. CASE GiveBack(t)
      <4>1. at[t] = "failed" \/ at[t] = "done"
        BY <3>4 DEF GiveBack
      <4> QED  BY <3>4, <4>1, ControlPreserves, ReturnPreserves
    <3>5. CASE QueueFailed(t)
      BY <3>5, ReturnPreserves
    <3> QED  BY <2>1, <3>1, <3>2, <3>3, <3>4, <3>5 DEF Step
  <2>2. CASE UNCHANGED vars
    BY <2>2, StutterPreserves
  <2> QED  BY <2>1, <2>2 DEF Next
<1> QED  BY <1>1, InitInv, PTL DEF Spec

\* Every variable keeps its type; an insert never counts more than maxRetries
\* missing connections.
THEOREM TypeCorrect == Spec => []TypeOK
  BY OfflineInvariant, PTL DEF OfflineInv

\* A message whose insert returned, with success or not, is in the table or in
\* the queue.
THEOREM NothingLost == Spec => []ReturnedIsKept
  BY OfflineInvariant, PTL DEF OfflineInv

\* A message has at most one copy more than there were lost replies.
THEOREM DoublesAreLostReplies == Spec => []DoubledOnlyByLostReplies
<1>1. OfflineInv => DoubledOnlyByLostReplies
  <2> SUFFICES ASSUME OfflineInv, NEW m \in Msgs
               PROVE  Copies(m) <= 1 + (LostReplies - lostReplies)
    BY DEF DoubledOnlyByLostReplies
  <2>1. /\ Count(table, m) \in Nat /\ Count(failedQueue, m) \in Nat
        /\ LostReplies - lostReplies \in Nat
        /\ Count(table, m) + Count(failedQueue, m)
             <= (LostReplies - lostReplies) + (IF Pending(m) THEN 0 ELSE 1)
    BY PlacesFinite DEF OfflineInv, TypeOK, CountInv
  <2>2. Copies(m) = Count(table, m) + Count(failedQueue, m)
    BY DEF Copies, Count, Places
  <2> QED  BY <2>1, <2>2
<1> QED  BY <1>1, OfflineInvariant, PTL

\* A message that was handed over completely before another one's insert began
\* has its row first.
THEOREM OrderIsKept == Spec => []OrderKept
  BY OfflineInvariant, PTL DEF OfflineInv

\* insert implements the store its callers rely on.
THEOREM StoreRefinement == Spec => ImplementsMessageStore
<1>1. Init => Store!Init
  BY DEF Init, Store!Init, Stores
<1>2. OfflineInv /\ [Next]_vars => [Store!Next]_<<Stores(table) \cup Stores(failedQueue), returned>>
  <2> SUFFICES ASSUME OfflineInv, [Next]_vars
               PROVE  [Store!Next]_<<Stores(table) \cup Stores(failedQueue), returned>>
    OBVIOUS
  <2> DEFINE kept == Stores(table) \cup Stores(failedQueue)
  <2>0. table \in Seq(Msgs) /\ failedQueue \in Seq(Msgs)
    BY DEF OfflineInv, TypeOK
  <2>1. CASE UNCHANGED <<table, failedQueue, returned>>
    BY <2>1 DEF Stores
  <2>2. ASSUME NEW t \in Threads, DrainOne(t)
        PROVE  UNCHANGED <<Stores(table) \cup Stores(failedQueue), returned>>
    <3>1. PICK h : h = Head(failedQueue)
      OBVIOUS
    <3>2. failedQueue # <<>> /\ returned' = returned /\ (Stored(h) \/ Thrown(h))
      BY <2>2, <3>1 DEF DrainOne
    <3>3. h \in Msgs /\ Stores(failedQueue) = Stores(Tail(failedQueue)) \cup {h}
      BY <2>0, <3>1, <3>2, StoresTail, TailFacts
    <3>4. table' = table \/ table' = Append(table, h)
      BY <3>2, <3>3, StatementOutcome DEF OfflineInv
    <3>5. Stores(Append(table, h)) = Stores(table) \cup {h}
      BY <2>0, <3>3, StoresAppend
    <3>6. CASE failedQueue' = failedQueue
      <4>1. Stores(table)' \in {Stores(table), Stores(table) \cup {h}}
        BY <3>4, <3>5 DEF Stores
      <4>2. Stores(failedQueue)' = Stores(failedQueue)
        BY <3>6 DEF Stores
      <4> QED  BY <3>2, <3>3, <4>1, <4>2
    <3>7. CASE Stored(h) /\ failedQueue' = Tail(failedQueue)
      <4>1. table' = Append(table, h)
        BY <3>7 DEF Stored
      <4>2. Stores(table)' = Stores(table) \cup {h}
        BY <3>5, <4>1 DEF Stores
      <4>3. Stores(failedQueue)' = Stores(Tail(failedQueue))
        BY <3>7 DEF Stores
      <4> QED  BY <3>2, <3>3, <4>2, <4>3
    <3> QED  BY <2>2, <3>1, <3>6, <3>7 DEF DrainOne
  <2>3. ASSUME NEW t \in Threads, InsertOwn(t)
        PROVE  Store!Next \/ UNCHANGED <<Stores(table) \cup Stores(failedQueue), returned>>
    <3>1. PICK h : h = msg[t]
      OBVIOUS
    <3>2. h \in Msgs /\ returned' = returned /\ failedQueue' = failedQueue /\ (Stored(h) \/ Thrown(h))
      BY <2>3, <3>1 DEF InsertOwn, OfflineInv, TypeOK, CallInv, Msgs
    <3>3. table' = table \/ table' = Append(table, h)
      BY <3>2, StatementOutcome DEF OfflineInv
    <3>4. Stores(Append(table, h)) = Stores(table) \cup {h}
      BY <2>0, <3>2, StoresAppend
    <3>5. kept' \in {kept, kept \cup {h}}
      BY <3>2, <3>3, <3>4 DEF Stores
    <3>6. CASE kept' = kept
      BY <3>2, <3>6
    <3>7. CASE kept' = kept \cup {h} /\ h \notin kept
      <4>1. Store!Keep(h)
        BY <3>2, <3>7 DEF Store!Keep
      <4> QED  BY <3>2, <4>1 DEF Store!Next
    <3> QED  BY <3>5, <3>6, <3>7
  <2>4. ASSUME NEW t \in Threads, GiveBack(t), at[t] = "done" PROVE Store!Next
    <3>1. PICK h : h = msg[t]
      OBVIOUS
    <3>2. /\ h \in Msgs /\ h \in Stores(table) /\ h \notin returned
          /\ returned' = returned \cup {h} /\ UNCHANGED <<table, failedQueue>>
      BY <2>4, <3>1 DEF GiveBack, OfflineInv, TypeOK, CallInv, DoneIsStored, Msgs
    <3>3. Store!Accept(h)
      BY <3>2 DEF Store!Accept, Stores
    <3> QED  BY <3>2, <3>3 DEF Store!Next
  <2>5. ASSUME NEW t \in Threads, QueueFailed(t) PROVE Store!Next
    <3>1. PICK h : h = msg[t]
      OBVIOUS
    <3>2. /\ h \in Msgs /\ h \notin returned /\ returned' = returned \cup {h}
          /\ table' = table /\ failedQueue' = Append(failedQueue, h)
      BY <2>5, <3>1 DEF QueueFailed, OfflineInv, TypeOK, CallInv, Msgs
    <3>3. Stores(Append(failedQueue, h)) = Stores(failedQueue) \cup {h}
      BY <2>0, <3>2, StoresAppend
    <3>4. kept' = kept \cup {h}
      BY <3>2, <3>3 DEF Stores
    <3>5. Store!KeepAndAccept(h)
      BY <3>2, <3>4 DEF Store!KeepAndAccept
    <3> QED  BY <3>2, <3>5 DEF Store!Next
  <2>6. ASSUME NEW t \in Threads,
               Insert(t) \/ GetConnection(t) \/ LockQueue(t) \/ DrainDone(t) \/ (GiveBack(t) /\ at[t] # "done")
        PROVE  UNCHANGED <<table, failedQueue, returned>>
    BY <2>6 DEF Insert, GetConnection, LockQueue, DrainDone, GiveBack
  <2>7. UNCHANGED vars => UNCHANGED <<table, failedQueue, returned>>
    BY DEF vars
  <2> QED  BY <2>1, <2>2, <2>3, <2>4, <2>5, <2>6, <2>7 DEF Next, Step
<1> QED  BY <1>1, <1>2, OfflineInvariant, PTL DEF Spec, ImplementsMessageStore, Store!Spec

===============================================================================
