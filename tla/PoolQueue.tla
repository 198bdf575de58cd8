-------------------------------- MODULE PoolQueue --------------------------------
(***************************************************************************)
(* The queue of free connections, which both connection pools keep: what   *)
(* the first come, first served operations of std::deque and std::queue do *)
(* to the set of its elements.                                             *)
(***************************************************************************)
EXTENDS Integers, Sequences, FiniteSets, FiniteSetTheorems, TLAPS

Elements(q) == {q[i] : i \in DOMAIN q}
Distinct(q) == \A i, j \in DOMAIN q : q[i] = q[j] => i = j

\* pop_front on a queue without duplicates takes its front away and nothing else
\* (getConnection, acquire).
LEMMA PopFrontOfDistinct ==
  ASSUME NEW S, NEW q \in Seq(S), q # <<>>, Distinct(q)
  PROVE  /\ Head(q) \in Elements(q) /\ Head(q) \in S
         /\ Tail(q) \in Seq(S) /\ Distinct(Tail(q))
         /\ Elements(Tail(q)) = Elements(q) \ {Head(q)}
         /\ Len(q) \in Nat /\ Len(Tail(q)) = Len(q) - 1
<1>1. Len(q) \in Nat /\ Len(q) > 0 /\ DOMAIN q = 1..Len(q)
  OBVIOUS
<1>2. Head(q) = q[1] /\ q[1] \in S
  BY <1>1
<1>3. Tail(q) \in Seq(S) /\ Len(Tail(q)) = Len(q) - 1 /\ DOMAIN Tail(q) = 1..(Len(q) - 1)
  BY <1>1
<1>4. \A i \in DOMAIN Tail(q) : Tail(q)[i] = q[i + 1]
  BY <1>1, <1>3
<1>5. Head(q) \in Elements(q)
  BY <1>1, <1>2 DEF Elements
<1>6. Distinct(Tail(q))
  <2> SUFFICES ASSUME NEW i \in DOMAIN Tail(q), NEW j \in DOMAIN Tail(q), Tail(q)[i] = Tail(q)[j]
               PROVE  i = j
    BY DEF Distinct
  <2>1. i + 1 \in DOMAIN q /\ j + 1 \in DOMAIN q /\ q[i + 1] = q[j + 1]
    BY <1>1, <1>3, <1>4
  <2>2. i + 1 = j + 1
    BY <2>1 DEF Distinct
  <2> QED  BY <2>2, <1>3
<1>7. Elements(Tail(q)) = Elements(q) \ {Head(q)}
  <2>1. ASSUME NEW x \in Elements(Tail(q)) PROVE x \in Elements(q) /\ x # Head(q)
    <3>1. PICK i \in DOMAIN Tail(q) : x = Tail(q)[i]
      BY DEF Elements
    <3>2. i + 1 \in DOMAIN q /\ 1 \in DOMAIN q /\ i + 1 # 1 /\ x = q[i + 1]
      BY <3>1, <1>1, <1>3, <1>4
    <3> QED  BY <3>2, <1>2 DEF Elements, Distinct
  <2>2. ASSUME NEW x \in Elements(q), x # Head(q) PROVE x \in Elements(Tail(q))
    <3>1. PICK i \in DOMAIN q : x = q[i]
      BY DEF Elements
    <3>2. i # 1
      BY <3>1, <2>2, <1>2
    <3>3. i - 1 \in DOMAIN Tail(q) /\ (i - 1) + 1 = i
      BY <3>2, <1>1, <1>3
    <3>4. Tail(q)[i - 1] = x
      BY <3>1, <3>3, <1>4
    <3> QED  BY <3>3, <3>4 DEF Elements
  <2> QED  BY <2>1, <2>2
<1> QED  BY <1>1, <1>2, <1>3, <1>5, <1>6, <1>7

\* push_back of something that is not queued adds it and creates no duplicate
\* (releaseConnection, release).
LEMMA PushBackOnDistinct ==
  ASSUME NEW S, NEW q \in Seq(S), NEW e \in S, Distinct(q), e \notin Elements(q)
  PROVE  /\ Append(q, e) \in Seq(S) /\ Distinct(Append(q, e))
         /\ Elements(Append(q, e)) = Elements(q) \cup {e}
         /\ Len(q) \in Nat /\ Len(Append(q, e)) = Len(q) + 1
<1>1. Len(q) \in Nat /\ DOMAIN q = 1..Len(q)
  OBVIOUS
<1>2. /\ Append(q, e) \in Seq(S) /\ Len(Append(q, e)) = Len(q) + 1
      /\ DOMAIN Append(q, e) = 1..(Len(q) + 1)
  BY <1>1
<1>3. \A i \in 1..Len(q) : Append(q, e)[i] = q[i]
  BY <1>1
<1>4. Append(q, e)[Len(q) + 1] = e
  BY <1>1
<1>5. Distinct(Append(q, e))
  <2> SUFFICES ASSUME NEW i \in 1..(Len(q) + 1), NEW j \in 1..(Len(q) + 1),
                      Append(q, e)[i] = Append(q, e)[j]
               PROVE  i = j
    BY <1>2 DEF Distinct
  <2>1. CASE i \in 1..Len(q) /\ j \in 1..Len(q)
    BY <2>1, <1>1, <1>3 DEF Distinct
  <2>2. CASE i \in 1..Len(q) /\ j = Len(q) + 1
    BY <2>2, <1>1, <1>3, <1>4 DEF Elements
  <2>3. CASE j \in 1..Len(q) /\ i = Len(q) + 1
    BY <2>3, <1>1, <1>3, <1>4 DEF Elements
  <2> QED  BY <2>1, <2>2, <2>3, <1>1
<1>6. Elements(Append(q, e)) = Elements(q) \cup {e}
  <2>1. ASSUME NEW x \in Elements(Append(q, e)) PROVE x \in Elements(q) \cup {e}
    BY <2>1, <1>1, <1>2, <1>3, <1>4 DEF Elements
  <2>2. ASSUME NEW x \in Elements(q) PROVE x \in Elements(Append(q, e))
    <3>1. PICK i \in 1..Len(q) : x = q[i]
      BY <1>1 DEF Elements
    <3> QED  BY <3>1, <1>1, <1>2, <1>3 DEF Elements
  <2>3. e \in Elements(Append(q, e))
    BY <1>1, <1>2, <1>4 DEF Elements
  <2> QED  BY <2>1, <2>2, <2>3
<1> QED  BY <1>1, <1>2, <1>5, <1>6

\* The queue initPool() and init() fill holds every connection once.
LEMMA FullQueueIsDistinct ==
  ASSUME NEW S, IsFiniteSet(S), NEW q \in [1..Cardinality(S) -> S],
         \A c \in S : \E i \in DOMAIN q : q[i] = c
  PROVE  /\ q \in Seq(S) /\ Distinct(q) /\ Elements(q) = S
         /\ Len(q) = Cardinality(S) /\ Cardinality(S) \in Nat
<1>1. Cardinality(S) \in Nat
  BY FS_CardinalityType
<1>2. q \in Seq(S) /\ Len(q) = Cardinality(S) /\ DOMAIN q = 1..Cardinality(S)
  BY <1>1
<1>3. IsFiniteSet(1..Cardinality(S)) /\ Cardinality(1..Cardinality(S)) = Cardinality(S)
  BY <1>1, FS_Interval
<1>4. q \in Surjection(1..Cardinality(S), S)
  BY <1>2 DEF Surjection
<1>5. q \in Injection(1..Cardinality(S), S)
  BY <1>3, <1>4, FS_SurjSameCardinalityImpliesInj
<1>6. Distinct(q)
  BY <1>2, <1>5 DEF Distinct, Injection, IsInjective
<1>7. Elements(q) = S
  BY <1>2 DEF Elements
<1> QED  BY <1>1, <1>2, <1>6, <1>7

===============================================================================
