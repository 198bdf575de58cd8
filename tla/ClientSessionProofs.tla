-------------------------- MODULE ClientSessionProofs --------------------------
(***************************************************************************)
(* The safety properties of the client and of its connection, for any      *)
(* accounts, buffer size and number of requests and messages.  The         *)
(* invariant has five parts: the two streams, what became of the requests, *)
(* the one answer the main thread may be waiting for, the entries of the   *)
(* server, and the messages on their way to the client.                    *)
(***************************************************************************)
EXTENDS ClientSession, FiniteSetTheorems, TLAPS

USE ClientAssumption

RequestPiece == [of: Requests, piece: Nat]
AnswerPiece == [of: Answers, piece: Nat]

\* A login is for an account of the user, a registration for one of his names.
Addressed(m) ==
  /\ m.kind = "login" => m.who \in Users
  /\ m.kind = "reg" => m.who \in Names

\* Messages, and logins that were accepted, name a user.
Named(a) ==
  a.kind \in {"chat", "group"} \/ (a.kind = "loginAck" /\ a.ok) => a.who \in Users

\* Piece p is sent before piece q.
Before(p, q) ==
  \/ p.of.no < q.of.no
  \/ p.of = q.of /\ q.piece # 1 /\ (p.piece = 1 \/ q.piece = 0)

\* The pieces on their way to the server are in the order they were sent.
UpInv ==
  /\ up \in Seq(RequestPiece) /\ sentNo \in 0..MaxRequests
  /\ \A i \in DOMAIN up : Addressed(up[i].of) /\ up[i].of.no <= sentNo
  /\ \A i, j \in DOMAIN up : i < j => Before(up[i], up[j])

\* Those on their way to the client are of answers that name whom they should.
DownInv == down \in Seq(AnswerPiece) /\ \A i \in DOMAIN down : Named(down[i].of)

\* Nothing of a request that was handled is left but its NUL, nothing of one that
\* was lost but what follows its first piece, and nothing of an earlier one.
FateInv ==
  /\ handled \in Seq(1..MaxRequests) /\ lost \subseteq Requests
  /\ connected \in BOOLEAN
  /\ \A h \in DOMAIN handled : handled[h] <= sentNo
  /\ \A m \in lost : m.no <= sentNo
  /\ \A h \in DOMAIN handled, i \in DOMAIN up :
       handled[h] < up[i].of.no \/ (handled[h] = up[i].of.no /\ up[i].piece = 0)
  /\ \A m \in lost, i \in DOMAIN up :
       m.no < up[i].of.no \/ (m.no = up[i].of.no /\ up[i].piece # 1)
  /\ HandledInOrder

\* Nothing has come of a request the main thread waits for.
Idle == serving = NoUser /\ Answered = {} /\ readAt = "recv" /\ rwSem = 0

\* While the client lives, its latest request, a login being served, an answer, a
\* post to come and a post exclude each other; there is none unless the main
\* thread waits, and it is what the main thread waits for.
WaitInv ==
  /\ alive \in BOOLEAN /\ mainAt \in {"top", "main"} \cup Waits
  /\ serving \in Users \cup {NoUser} /\ rwSem \in {0, 1} /\ readAt \in {"recv", "post"}
  /\ alive =>
       /\ Asked # {} => Idle
       /\ serving # NoUser => mainAt = "login" /\ Answered = {} /\ readAt = "recv" /\ rwSem = 0
       /\ Answered # {} => readAt = "recv" /\ rwSem = 0
       /\ readAt = "post" => rwSem = 0
       /\ mainAt \notin Waits => Asked = {} /\ Idle
       /\ \A i \in Asked : up[i].of.kind = mainAt /\ up[i].of.no = sentNo
       /\ \A i, j \in Answered : i = j
       /\ \A i \in Answered : down[i].of.kind = (IF mainAt = "reg" THEN "regAck" ELSE "loginAck")

\* The main menu has, or will have, a user.
InMenu == mainAt = "main" \/ (mainAt = "login" /\ isLoginSuccess)

\* Answer i tells of an accepted login.
Accepts(i) == i \in Answered /\ down[i].of.kind = "loginAck" /\ down[i].of.ok

\* Who is or is being logged in has an entry, which no loginout on its way can
\* remove; every other entry is explained.
EntryInv ==
  /\ currentUser \in Users \cup {NoUser} /\ isLoginSuccess \in BOOLEAN
  /\ entries \subseteq Users
  /\ alive => connected
  /\ mainAt = "main" \/ (alive /\ mainAt = "login" /\ ~Idle) =>
       \A i \in DOMAIN up : up[i].of.kind # "loginout"
  /\ serving # NoUser => serving \in entries
  /\ alive => \A i \in DOMAIN down : Accepts(i) => down[i].of.who \in entries
  /\ alive /\ mainAt = "login" /\ isLoginSuccess =>
       currentUser \in entries /\ (readAt = "post" \/ rwSem = 1)
  /\ MenuUserHasEntry
  /\ EntryExplained

\* A message is for the user who is in the main menu, and for the one who will be
\* if the answer that lets him in is ahead of it.
ForUser(i) ==
  /\ InMenu => down[i].of.who = currentUser
  /\ \A j \in DOMAIN down : j < i /\ Accepts(j) => down[i].of.who = down[j].of.who

\* A message on its way is for whom it will find in the main menu, or for a user
\* whose loginout was lost.
MessageInv ==
  /\ shown \subseteq Users \X Users
  /\ alive => \A i \in DOMAIN down :
       down[i].of.kind \in {"chat", "group"} => down[i].of.who \in LoginsOut(lost) \/ ForUser(i)
  /\ ShownToOwner

RestType == online \subseteq Users /\ registered \subseteq Names /\ pushes \in 0..MaxPushes

SessionInv == WaitInv /\ EntryInv /\ MessageInv
ClientInv == UpInv /\ DownInv /\ FateInv /\ SessionInv /\ RestType

-----------------------------------------------------------------------------
(* The streams.                                                            *)

\* A stream that grows.
LEMMA GrowFacts ==
  ASSUME NEW S, NEW s \in Seq(S), NEW t \in Seq(S)
  PROVE  /\ s \o t \in Seq(S) /\ Len(s) \in Nat /\ Len(t) \in Nat
         /\ DOMAIN s = 1..Len(s) /\ DOMAIN t = 1..Len(t)
         /\ DOMAIN (s \o t) = 1..(Len(s) + Len(t))
         /\ \A i \in 1..Len(s) : (s \o t)[i] = s[i]
         /\ \A i \in 1..Len(t) : (s \o t)[Len(s) + i] = t[i]
OBVIOUS

\* The pieces of a text.
LEMMA TextFacts ==
  ASSUME NEW S, NEW m, NEW n \in Nat, \A k \in Nat : [of |-> m, piece |-> k] \in S
  PROVE  /\ Text(m, n) \in Seq(S) /\ Len(Text(m, n)) = n
         /\ \A i \in 1..n : Text(m, n)[i] = [of |-> m, piece |-> i]
         /\ End(m) \in Seq(S) /\ Len(End(m)) = 1 /\ End(m)[1] = [of |-> m, piece |-> 0]
<1> DEFINE f == [i \in 1..n |-> [of |-> m, piece |-> i]]
<1>1. f \in [1..n -> S] /\ DOMAIN f = 1..n
  OBVIOUS
<1>2. f \in Seq(S)
  BY <1>1
<1> QED  BY <1>1, <1>2 DEF Text, End

\* The pieces of a text of size n, with or without what ends it.
PiecesOf(q, m, n, S) ==
  /\ q \in Seq(S) /\ Len(q) \in {n, n + 1}
  /\ \A i \in 1..Len(q) : q[i] = [of |-> m, piece |-> IF i = n + 1 THEN 0 ELSE i]

\* A text followed by what ends it, or by nothing, is such pieces.
LEMMA PiecesFacts ==
  ASSUME NEW S, NEW m, NEW n \in Nat, \A k \in Nat : [of |-> m, piece |-> k] \in S
  PROVE  \A q : q \in {Text(m, n) \o End(m), Text(m, n) \o <<>>} => PiecesOf(q, m, n, S)
<1> DEFINE t == Text(m, n)  e == End(m)
<1>1. /\ t \in Seq(S) /\ Len(t) = n
      /\ \A i \in 1..n : t[i] = [of |-> m, piece |-> i]
      /\ e \in Seq(S) /\ Len(e) = 1 /\ e[1] = [of |-> m, piece |-> 0]
  BY TextFacts, SMTT(30)
<1>2. t \in Seq(S) /\ e \in Seq(S)
  BY <1>1
<1> HIDE DEF t, e
<1> SUFFICES ASSUME NEW q \in {t \o e, t \o <<>>}
             PROVE  PiecesOf(q, m, n, S)
  BY DEF t, e
<1>4. CASE q = t \o e
  <2>1. /\ q \in Seq(S) /\ DOMAIN q = 1..(Len(t) + Len(e))
        /\ \A i \in 1..Len(t) : q[i] = t[i]
        /\ \A i \in 1..Len(e) : q[Len(t) + i] = e[i]
    BY <1>2, <1>4, GrowFacts
  <2>2. /\ DOMAIN q = 1..(n + 1) /\ \A i \in 1..n : q[i] = t[i]
    BY <1>1, <2>1
  <2>3. q[n + 1] = e[1]
    BY <1>1, <2>1
  <2>4. ASSUME NEW i \in 1..(n + 1) PROVE q[i] = [of |-> m, piece |-> IF i = n + 1 THEN 0 ELSE i]
    <3>1. CASE i = n + 1
      BY <1>1, <2>3, <3>1
    <3>2. CASE i \in 1..n
      <4>1. q[i] = [of |-> m, piece |-> i] /\ i # n + 1
        BY <1>1, <2>2, <3>2
      <4> QED  BY <4>1
    <3> QED  BY <3>1, <3>2
  <2>5. Len(q) = n + 1
    BY <2>1, <2>2
  <2> QED  BY <2>1, <2>4, <2>5 DEF PiecesOf
<1>5. CASE q = t \o <<>>
  <2>1. q = t
    BY <1>2, <1>5
  <2>2. \A i \in 1..n : i # n + 1
    OBVIOUS
  <2> QED  BY <1>1, <2>1, <2>2 DEF PiecesOf
<1> QED  BY <1>4, <1>5

\* A request is two pieces of text and perhaps a NUL.
LEMMA RequestPiecesFacts ==
  ASSUME NEW m \in Requests
  PROVE  /\ RequestPieces(m) \in Seq(RequestPiece)
         /\ Len(RequestPieces(m)) \in {2, 3}
         /\ \A i \in 1..Len(RequestPieces(m)) :
              RequestPieces(m)[i] = [of |-> m, piece |-> IF i = 3 THEN 0 ELSE i]
<1>1. \A k \in Nat : [of |-> m, piece |-> k] \in RequestPiece
  BY DEF RequestPiece
<1>2. RequestPieces(m) \in {Text(m, 2) \o End(m), Text(m, 2) \o <<>>}
  BY DEF RequestPieces
<1>3. PICK n \in Nat : n = 2
  OBVIOUS
<1> DEFINE q == RequestPieces(m)
<1> HIDE DEF q
<1>4. q \in {Text(m, n) \o End(m), Text(m, n) \o <<>>}
  BY <1>2, <1>3 DEF q
<1>5. PiecesOf(q, m, n, RequestPiece)
  <2>1. n \in Nat
    BY <1>1, <1>3
  <2> QED  BY <1>1, <1>4, <2>1, PiecesFacts DEF q
<1> QED  BY <1>3, <1>5 DEF q, PiecesOf

\* An answer starts with its first piece and has no other of that number.
LEMMA AnswerPiecesFacts ==
  ASSUME NEW a \in Answers
  PROVE  /\ AnswerPieces(a) \in Seq(AnswerPiece)
         /\ Len(AnswerPieces(a)) \in Nat \ {0}
         /\ \A i \in 1..Len(AnswerPieces(a)) :
              AnswerPieces(a)[i].of = a /\ (AnswerPieces(a)[i].piece = 1 <=> i = 1)
<1>1. \A k \in Nat : [of |-> a, piece |-> k] \in AnswerPiece
  BY DEF AnswerPiece
<1>2. PICK n \in Nat : n = a.size /\ n >= 2
  BY DEF Answers
<1>3. AnswerPieces(a) \in {Text(a, n) \o End(a), Text(a, n) \o <<>>}
  BY <1>2 DEF AnswerPieces
<1>4. n \in Nat /\ n >= 2
  BY <1>2
<1> DEFINE q == AnswerPieces(a)
<1> HIDE DEF q
<1>5. PiecesOf(q, a, n, AnswerPiece)
  <2>1. n \in Nat
    BY <1>1, <1>4
  <2> QED  BY <1>1, <1>3, <2>1, PiecesFacts DEF q
<1>6. ASSUME NEW i \in 1..Len(q) PROVE q[i].of = a /\ (q[i].piece = 1 <=> i = 1)
  <2>1. PICK k : q[i] = [of |-> a, piece |-> k] /\ k = IF i = n + 1 THEN 0 ELSE i
    BY <1>5 DEF PiecesOf
  <2>2. k = 1 <=> i = 1
    BY <1>4, <1>5, <2>1 DEF PiecesOf
  <2> QED  BY <2>1, <2>2
<1> QED  BY <1>4, <1>5, <1>6 DEF q, PiecesOf

-----------------------------------------------------------------------------
(* What a send and a read do to the stream to the server.                  *)

\* The requests that have text in a stream.
LEMMA RequestsInFacts ==
  \A s, m : m \in RequestsIn(s) <=> \E i \in DOMAIN s : s[i].piece # 0 /\ m = s[i].of
BY DEF RequestsIn

\* Request m follows what is on its way.
Sends(m) ==
  /\ up' \in Seq(RequestPiece)
  /\ \A i \in DOMAIN up : i \in DOMAIN up' /\ up'[i] = up[i]
  /\ \A i \in DOMAIN up' \ DOMAIN up : up'[i].of = m /\ \A j \in DOMAIN up : j < i
  /\ \A i, j \in DOMAIN up' \ DOMAIN up : i < j => Before(up'[i], up'[j])
  /\ \E i \in DOMAIN up' \ DOMAIN up : up'[i].piece = 1

\* The pieces of a new request come after all others, its text first.
LEMMA SendIsSends ==
  ASSUME up \in Seq(RequestPiece), NEW m \in Requests, up' = up \o RequestPieces(m)
  PROVE  Sends(m)
<1> DEFINE q == RequestPieces(m)
<1>1. /\ q \in Seq(RequestPiece) /\ Len(q) \in {2, 3}
      /\ \A i \in 1..Len(q) : q[i] = [of |-> m, piece |-> IF i = 3 THEN 0 ELSE i]
  BY RequestPiecesFacts
<1>2. up' = up \o q /\ q \in Seq(RequestPiece)
  BY <1>1
<1> HIDE DEF q
<1>3. /\ up' \in Seq(RequestPiece) /\ Len(up) \in Nat /\ Len(q) \in Nat
      /\ DOMAIN up = 1..Len(up) /\ DOMAIN up' = 1..(Len(up) + Len(q))
      /\ \A i \in 1..Len(up) : up'[i] = up[i]
      /\ \A i \in 1..Len(q) : up'[Len(up) + i] = q[i]
  BY <1>2, GrowFacts
<1>8. PICK z \in {2, 3}, l \in Nat : l = Len(up) /\ DOMAIN up = 1..l /\ DOMAIN up' = 1..(l + z)
  BY <1>1, <1>3
<1>4. ASSUME NEW i \in DOMAIN up' \ DOMAIN up
      PROVE  /\ up'[i].of = m /\ up'[i].piece = (IF i - Len(up) = 3 THEN 0 ELSE i - Len(up))
             /\ \A j \in DOMAIN up : j < i
  <2>1. i - Len(up) \in 1..Len(q) /\ Len(up) + (i - Len(up)) = i
    BY <1>3
  <2>2. up'[i] = q[i - Len(up)]
    BY <1>3, <2>1
  <2>3. PICK k : k = (IF i - Len(up) = 3 THEN 0 ELSE i - Len(up)) /\ q[i - Len(up)] = [of |-> m, piece |-> k]
    BY <1>1, <2>1
  <2>4. up'[i].of = m /\ up'[i].piece = k
    BY <2>2, <2>3
  <2> QED  BY <1>3, <2>3, <2>4
<1>5. \A i, j \in DOMAIN up' \ DOMAIN up : i < j => Before(up'[i], up'[j])
  <2> SUFFICES ASSUME NEW i \in DOMAIN up' \ DOMAIN up, NEW j \in DOMAIN up' \ DOMAIN up, i < j
               PROVE  Before(up'[i], up'[j])
    OBVIOUS
  <2>1. i \in Int /\ j \in Int /\ i - Len(up) \in 1..3 /\ j - Len(up) \in 1..3 /\ i - Len(up) < j - Len(up)
    BY <1>8
  <2> QED  BY <1>4, <2>1 DEF Before
<1>6. l + 1 \in DOMAIN up' \ DOMAIN up
  BY <1>8
<1>7. up'[l + 1].piece = 1
  <2>1. (l + 1) - Len(up) = 1
    BY <1>8
  <2>2. up'[l + 1].piece = (IF (l + 1) - Len(up) = 3 THEN 0 ELSE (l + 1) - Len(up))
    BY <1>4, <1>6
  <2> QED  BY <2>1, <2>2
<1>9. \A i \in DOMAIN up : i \in DOMAIN up' /\ up'[i] = up[i]
  BY <1>3, <1>8
<1>10. \A i \in DOMAIN up' \ DOMAIN up : up'[i].of = m /\ \A j \in DOMAIN up : j < i
  BY <1>4
<1>11. \E i \in DOMAIN up' \ DOMAIN up : up'[i].piece = 1
  BY <1>6, <1>7
<1> QED  BY <1>3, <1>5, <1>9, <1>10, <1>11 DEF Sends

\* The server reads the first n pieces.
Reads(n) ==
  /\ up' \in Seq(RequestPiece)
  /\ DOMAIN Take(up, n) = 1..n /\ 1..n \subseteq DOMAIN up
  /\ \A i \in 1..n : Take(up, n)[i] = up[i]
  /\ \A i \in DOMAIN up' : i \in Nat \ {0} /\ i + n \in DOMAIN up /\ up'[i] = up[i + n]
  /\ \A i \in DOMAIN up : i \in Nat /\ (i \in 1..n \/ (i - n \in DOMAIN up' /\ up'[i - n] = up[i]))

\* Dropping what was read moves the other pieces to the front.
LEMMA ReadIsReads ==
  ASSUME up \in Seq(RequestPiece), NEW n \in 1..Len(up), up' = Drop(up, n)
  PROVE  Reads(n)
<1>0. /\ Len(up) \in Nat /\ DOMAIN up = 1..Len(up)
      /\ Take(up, n) \in Seq(RequestPiece) /\ DOMAIN Take(up, n) = 1..n
      /\ \A i \in 1..n : Take(up, n)[i] = up[i]
      /\ Drop(up, n) \in Seq(RequestPiece) /\ DOMAIN Drop(up, n) = 1..(Len(up) - n)
      /\ \A i \in 1..(Len(up) - n) : Drop(up, n)[i] = up[i + n]
  BY DEF Take, Drop
<1>1. /\ Len(up) \in Nat /\ DOMAIN up = 1..Len(up)
      /\ Take(up, n) \in Seq(RequestPiece) /\ DOMAIN Take(up, n) = 1..n
      /\ \A i \in 1..n : Take(up, n)[i] = up[i]
      /\ up' \in Seq(RequestPiece) /\ DOMAIN up' = 1..(Len(up) - n)
      /\ \A i \in 1..(Len(up) - n) : up'[i] = up[i + n]
  BY <1>0, Zenon
<1>2. \A i \in DOMAIN up' : i \in Nat \ {0} /\ i + n \in DOMAIN up /\ up'[i] = up[i + n]
  BY <1>1
<1>3. ASSUME NEW i \in DOMAIN up, i \notin 1..n PROVE i - n \in DOMAIN up' /\ up'[i - n] = up[i]
  <2>1. i - n \in 1..(Len(up) - n) /\ (i - n) + n = i
    BY <1>1, <1>3
  <2> QED  BY <1>1, <2>1
<1>4. \A i \in DOMAIN up : i \in Nat /\ (i \in 1..n \/ (i - n \in DOMAIN up' /\ up'[i - n] = up[i]))
  BY <1>1, <1>3
<1>5. 1..n \subseteq DOMAIN up
  BY <1>1
<1> QED  BY <1>1, <1>2, <1>4, <1>5 DEF Reads

\* What was on its way was read or still is.
LEMMA ReadsSplits ==
  ASSUME NEW n \in Nat, Reads(n)
  PROVE  RequestsIn(up) = RequestsIn(Take(up, n)) \cup RequestsIn(up')
<1> DEFINE s == Take(up, n)
<1>1. ASSUME NEW m \in RequestsIn(up) PROVE m \in RequestsIn(s) \cup RequestsIn(up')
  <2>1. PICK i \in DOMAIN up : up[i].piece # 0 /\ m = up[i].of
    BY RequestsInFacts
  <2>2. CASE i \in 1..n
    <3>1. i \in DOMAIN s /\ s[i] = up[i]
      BY <2>2 DEF Reads
    <3> QED  BY <2>1, <3>1, RequestsInFacts
  <2>3. CASE i - n \in DOMAIN up' /\ up'[i - n] = up[i]
    BY <2>1, <2>3, RequestsInFacts
  <2> QED  BY <2>2, <2>3 DEF Reads
<1>2. ASSUME NEW m \in RequestsIn(s) PROVE m \in RequestsIn(up)
  <2>1. PICK i \in DOMAIN s : s[i].piece # 0 /\ m = s[i].of
    BY RequestsInFacts
  <2>2. i \in DOMAIN up /\ s[i] = up[i]
    BY DEF Reads
  <2> QED  BY <2>1, <2>2, RequestsInFacts
<1>3. ASSUME NEW m \in RequestsIn(up') PROVE m \in RequestsIn(up)
  <2>1. PICK i \in DOMAIN up' : up'[i].piece # 0 /\ m = up'[i].of
    BY RequestsInFacts
  <2>2. i + n \in DOMAIN up /\ up'[i] = up[i + n]
    BY DEF Reads
  <2> QED  BY <2>1, <2>2, RequestsInFacts
<1> QED  BY <1>1, <1>2, <1>3

-----------------------------------------------------------------------------
(* The stream to the server and what became of the requests.               *)

\* The number of a request on its way.
LEMMA UpTypes ==
  ASSUME UpInv, NEW i \in DOMAIN up
  PROVE  up[i] \in RequestPiece /\ up[i].of \in Requests /\ up[i].of.no \in 1..MaxRequests /\ i \in Nat
<1>1. up[i] \in RequestPiece /\ i \in Nat
  BY DEF UpInv
<1> QED  BY <1>1 DEF RequestPiece, Requests

\* A new request has the highest number.
LEMMA SendKeepsUp ==
  ASSUME UpInv, NEW m \in Requests, Addressed(m), Sends(m), sentNo < MaxRequests,
         m.no = sentNo + 1, sentNo' = sentNo + 1
  PROVE  UpInv'
<1>1. up' \in Seq(RequestPiece) /\ sentNo' \in 0..MaxRequests
  BY DEF Sends, UpInv
<1>2. ASSUME NEW i \in DOMAIN up' PROVE Addressed(up'[i].of) /\ up'[i].of.no <= sentNo'
  <2>1. CASE i \in DOMAIN up
    <3>1. up'[i] = up[i] /\ up[i].of.no <= sentNo /\ Addressed(up[i].of)
      BY <2>1 DEF Sends, UpInv
    <3>2. up[i].of.no \in Int /\ sentNo \in Int
      BY <2>1, UpTypes DEF UpInv
    <3> QED  BY <3>1, <3>2
  <2>2. CASE i \notin DOMAIN up
    <3>1. up'[i].of = m
      BY <2>2 DEF Sends
    <3>2. sentNo \in Int
      BY DEF UpInv
    <3> QED  BY <3>1, <3>2
  <2> QED  BY <2>1, <2>2
<1>3. ASSUME NEW i \in DOMAIN up', NEW j \in DOMAIN up', i < j PROVE Before(up'[i], up'[j])
  <2>0. i \in Nat /\ j \in Nat
    BY <1>1
  <2>1. CASE j \in DOMAIN up /\ i \in DOMAIN up
    BY <1>3, <2>1 DEF Sends, UpInv
  <2>2. CASE j \in DOMAIN up /\ i \notin DOMAIN up
    <3>1. j < i
      BY <2>2 DEF Sends
    <3> QED  BY <1>3, <2>0, <3>1
  <2>3. CASE j \notin DOMAIN up /\ i \in DOMAIN up
    <3>1. up'[i] = up[i] /\ up[i].of.no <= sentNo /\ up'[j].of = m
      BY <2>3 DEF Sends, UpInv
    <3>2. up[i].of.no \in Int /\ sentNo \in Int
      BY <2>3, UpTypes DEF UpInv
    <3>3. up'[i].of.no < up'[j].of.no
      BY <3>1, <3>2
    <3> QED  BY <3>3 DEF Before
  <2>4. CASE j \notin DOMAIN up /\ i \notin DOMAIN up
    BY <1>3, <2>4 DEF Sends
  <2> QED  BY <2>1, <2>2, <2>3, <2>4
<1> QED  BY <1>1, <1>2, <1>3 DEF UpInv

\* What remains after a read is in order.
LEMMA ReadKeepsUp ==
  ASSUME UpInv, NEW n \in Nat, Reads(n), UNCHANGED sentNo
  PROVE  UpInv'
<1>1. ASSUME NEW i \in DOMAIN up' PROVE Addressed(up'[i].of) /\ up'[i].of.no <= sentNo
  BY DEF Reads, UpInv
<1>2. ASSUME NEW i \in DOMAIN up', NEW j \in DOMAIN up', i < j PROVE Before(up'[i], up'[j])
  <2>1. /\ i + n \in DOMAIN up /\ j + n \in DOMAIN up /\ up'[i] = up[i + n] /\ up'[j] = up[j + n]
        /\ i \in Nat /\ j \in Nat
    BY DEF Reads
  <2>2. i + n < j + n
    BY <1>2, <2>1
  <2> QED  BY <2>1, <2>2 DEF UpInv
<1> QED  BY <1>1, <1>2 DEF UpInv, Reads

\* In a text the server parsed, what follows the first two pieces is of other
\* requests, but for a NUL.
LEMMA ParsedFacts ==
  ASSUME UpInv, NEW n \in Nat, Reads(n), n > 0, ServerParses(Take(up, n)), NEW m, m = up[1].of
  PROVE  /\ n >= 2 /\ m = Take(up, n)[1].of /\ m \in Requests /\ Addressed(m)
         /\ up[1].piece = 1 /\ up[2] = [of |-> m, piece |-> 2]
         /\ 1 \in DOMAIN up /\ 2 \in DOMAIN up
         /\ \A i \in DOMAIN up : i > 2 => m.no < up[i].of.no \/ (up[i].of = m /\ up[i].piece = 0)
<1> DEFINE s == Take(up, n)
<1>1. DOMAIN s = 1..n /\ \A i \in 1..n : s[i] = up[i] /\ i \in DOMAIN up
  BY DEF Reads
<1>2. TextAt(s, 1, 2)
  BY DEF ServerParses
<1> HIDE DEF s
<1>3. 1 \in 1..2 /\ 2 \in 1..2 /\ 1 + 1 - 1 = 1 /\ 1 + 2 - 1 = 2
  OBVIOUS
<1>4. /\ 1 \in DOMAIN s /\ s[1] = [of |-> s[1].of, piece |-> 1]
      /\ 2 \in DOMAIN s /\ s[2] = [of |-> s[1].of, piece |-> 2]
  BY <1>2, <1>3 DEF TextAt
<1>5. n >= 2 /\ s[1] = up[1] /\ s[2] = up[2] /\ 1 \in DOMAIN up /\ 2 \in DOMAIN up
  BY <1>1, <1>4
<1>6. m = s[1].of /\ up[1].piece = 1 /\ up[2] = [of |-> m, piece |-> 2] /\ up[2].of = m /\ up[2].piece = 2
  BY <1>4, <1>5
<1>7. m \in Requests /\ Addressed(m)
  BY <1>5, UpTypes DEF UpInv
<1>8. ASSUME NEW i \in DOMAIN up, i > 2 PROVE m.no < up[i].of.no \/ (up[i].of = m /\ up[i].piece = 0)
  <2>1. Before(up[2], up[i])
    BY <1>5, <1>8 DEF UpInv
  <2> QED  BY <1>6, <2>1 DEF Before
<1> QED  BY <1>5, <1>6, <1>7, <1>8 DEF s

\* The numbers of a set of requests.
Numbers(S) == {m.no : m \in S}

\* The ranges of the numbers of what was handled and what was lost.
LEMMA FateTypes ==
  ASSUME FateInv
  PROVE  /\ \A h \in DOMAIN handled : handled[h] \in 1..MaxRequests /\ h \in Nat
         /\ \A m \in lost : m.no \in 1..MaxRequests
BY DEF FateInv, Requests

\* A new request is neither handled nor lost.
LEMMA SendKeepsFate ==
  ASSUME UpInv, FateInv, NEW m \in Requests, Sends(m), m.no = sentNo + 1, sentNo' = sentNo + 1,
         UNCHANGED <<handled, lost, connected>>
  PROVE  FateInv'
<1>0. sentNo \in Nat /\ m.no \in Nat
  BY DEF UpInv, Requests
<1>1. \A h \in DOMAIN handled : handled[h] <= sentNo' /\ handled[h] < m.no
  BY <1>0, FateTypes DEF FateInv
<1>2. \A k \in lost : k.no <= sentNo' /\ k.no < m.no
  BY <1>0, FateTypes DEF FateInv
<1>3. ASSUME NEW h \in DOMAIN handled, NEW i \in DOMAIN up'
      PROVE  handled[h] < up'[i].of.no \/ (handled[h] = up'[i].of.no /\ up'[i].piece = 0)
  BY <1>1 DEF FateInv, Sends
<1>4. ASSUME NEW k \in lost, NEW i \in DOMAIN up'
      PROVE  k.no < up'[i].of.no \/ (k.no = up'[i].of.no /\ up'[i].piece # 1)
  BY <1>2 DEF FateInv, Sends
<1>5. RequestsIn(up') = RequestsIn(up) \cup {m}
  <2>1. ASSUME NEW x \in RequestsIn(up) PROVE x \in RequestsIn(up')
    <3>1. PICK i \in DOMAIN up : up[i].piece # 0 /\ x = up[i].of
      BY RequestsInFacts
    <3>2. i \in DOMAIN up' /\ up'[i] = up[i]
      BY DEF Sends
    <3> QED  BY <3>1, <3>2, RequestsInFacts
  <2>2. m \in RequestsIn(up')
    <3>1. PICK i \in DOMAIN up' \ DOMAIN up : up'[i].piece = 1 /\ up'[i].of = m
      BY DEF Sends
    <3> QED  BY <3>1, RequestsInFacts
  <2>3. ASSUME NEW x \in RequestsIn(up') PROVE x \in RequestsIn(up) \cup {m}
    <3>1. PICK i \in DOMAIN up' : up'[i].piece # 0 /\ x = up'[i].of
      BY RequestsInFacts
    <3>2. CASE i \in DOMAIN up
      <4>1. up'[i] = up[i]
        BY <3>2 DEF Sends
      <4> QED  BY <3>1, <3>2, <4>1, RequestsInFacts
    <3>3. CASE i \notin DOMAIN up
      BY <3>1, <3>3 DEF Sends
    <3> QED  BY <3>2, <3>3
  <2> QED  BY <2>1, <2>2, <2>3
<1>6. InFlight' = InFlight \cup {m.no}
  BY <1>5 DEF InFlight
<1>7. 1..sentNo' = (1..sentNo) \cup {m.no}
  BY <1>0
<1>8. HandledInOrder'
  BY <1>6, <1>7 DEF FateInv, HandledInOrder
<1> QED  BY <1>1, <1>2, <1>3, <1>4, <1>8 DEF FateInv

\* The texts of a read that no handler gets are lost, and were not handled.
LEMMA LoseKeepsFate ==
  ASSUME UpInv, FateInv, NEW n \in Nat, Reads(n), lost' = lost \cup RequestsIn(Take(up, n)),
         UNCHANGED <<handled, sentNo, connected>>
  PROVE  FateInv'
<1> DEFINE S == RequestsIn(Take(up, n))
<1>1. ASSUME NEW m \in S
      PROVE  \E i \in DOMAIN up : i \in 1..n /\ up[i].piece # 0 /\ m = up[i].of
  <2>1. PICK i \in DOMAIN Take(up, n) : Take(up, n)[i].piece # 0 /\ m = Take(up, n)[i].of
    BY RequestsInFacts
  <2>2. i \in 1..n /\ i \in DOMAIN up /\ Take(up, n)[i] = up[i]
    BY DEF Reads
  <2> QED  BY <2>1, <2>2
<1> HIDE DEF S
<1>0. lost' = lost \cup S
  BY DEF S
<1>2. ASSUME NEW m \in S
      PROVE  /\ m \in Requests /\ m.no <= sentNo
             /\ \A h \in DOMAIN handled : handled[h] # m.no
             /\ \A i \in DOMAIN up' : m.no < up'[i].of.no \/ (m.no = up'[i].of.no /\ up'[i].piece # 1)
  <2>1. PICK j \in DOMAIN up : j \in 1..n /\ up[j].piece # 0 /\ m = up[j].of
    BY <1>1
  <2>2. m \in Requests /\ m.no \in Int /\ m.no <= sentNo
    BY <2>1, UpTypes DEF UpInv
  <2>3. ASSUME NEW h \in DOMAIN handled PROVE handled[h] # m.no
    <3>1. handled[h] < m.no
      BY <2>1 DEF FateInv
    <3> QED  BY <2>2, <3>1, FateTypes
  <2>4. ASSUME NEW i \in DOMAIN up' PROVE m.no < up'[i].of.no \/ (m.no = up'[i].of.no /\ up'[i].piece # 1)
    <3>1. i + n \in DOMAIN up /\ up'[i] = up[i + n] /\ i \in Nat \ {0}
      BY DEF Reads
    <3>2. j < i + n
      BY <2>1, <3>1
    <3>3. Before(up[j], up[i + n])
      BY <3>1, <3>2 DEF UpInv
    <3> QED  BY <2>1, <3>1, <3>3 DEF Before
  <2> QED  BY <2>2, <2>3, <2>4
<1>3. lost' \subseteq Requests /\ \A m \in lost' : m.no <= sentNo
  BY <1>0, <1>2 DEF FateInv
<1>4. ASSUME NEW h \in DOMAIN handled, NEW i \in DOMAIN up'
      PROVE  handled[h] < up'[i].of.no \/ (handled[h] = up'[i].of.no /\ up'[i].piece = 0)
  BY DEF FateInv, Reads
<1>5. ASSUME NEW m \in lost', NEW i \in DOMAIN up'
      PROVE  m.no < up'[i].of.no \/ (m.no = up'[i].of.no /\ up'[i].piece # 1)
  <2>1. CASE m \in S
    BY <1>2, <2>1
  <2>2. CASE m \in lost
    <3>1. i + n \in DOMAIN up /\ up'[i] = up[i + n]
      BY DEF Reads
    <3> QED  BY <2>2, <3>1 DEF FateInv
  <2> QED  BY <1>0, <2>1, <2>2
<1>6. Range(handled) \cap Numbers(lost') = {}
  BY <1>0, <1>2 DEF FateInv, HandledInOrder, Numbers, Range
<1>7. Numbers(lost') \cup InFlight' = Numbers(lost) \cup InFlight
  <2>1. RequestsIn(up) = S \cup RequestsIn(up')
    BY ReadsSplits DEF S
  <2> QED  BY <1>0, <2>1 DEF Numbers, InFlight
<1>8. HandledInOrder'
  <2>1. connected => 1..sentNo = Range(handled) \cup (Numbers(lost) \cup InFlight)
    BY DEF FateInv, HandledInOrder, Numbers
  <2>2. connected' => 1..sentNo' = Range(handled) \cup (Numbers(lost') \cup InFlight')
    BY <1>7, <2>1
  <2> QED  BY <1>6, <2>2 DEF FateInv, HandledInOrder, Numbers
<1> QED  BY <1>3, <1>4, <1>5, <1>8 DEF FateInv

\* The request a handler gets was neither handled nor lost before; the other
\* texts of the read are lost.
LEMMA HandleKeepsFate ==
  ASSUME UpInv, FateInv, NEW n \in Nat, n > 0, Reads(n), ServerParses(Take(up, n)),
         NEW m, m = up[1].of, handled' = Append(handled, m.no),
         lost' = lost \cup (RequestsIn(Take(up, n)) \ {m}), UNCHANGED <<sentNo, connected>>
  PROVE  FateInv'
<1> DEFINE S == RequestsIn(Take(up, n)) \ {m}
<1>P. /\ n >= 2 /\ m \in Requests /\ up[1].piece = 1 /\ 1 \in DOMAIN up
      /\ \A i \in DOMAIN up : i > 2 => m.no < up[i].of.no \/ (up[i].of = m /\ up[i].piece = 0)
      /\ up[2] = [of |-> m, piece |-> 2]
  BY ParsedFacts
<1>T. up[2].of = m
  BY <1>P
<1>1. ASSUME NEW x \in S
      PROVE  \E i \in DOMAIN up : i \in 1..n /\ up[i].piece # 0 /\ x = up[i].of /\ x # m
  <2>1. PICK i \in DOMAIN Take(up, n) : Take(up, n)[i].piece # 0 /\ x = Take(up, n)[i].of
    BY RequestsInFacts
  <2>2. i \in 1..n /\ i \in DOMAIN up /\ Take(up, n)[i] = up[i]
    BY DEF Reads
  <2> QED  BY <2>1, <2>2
<1>S. S \subseteq RequestsIn(Take(up, n)) /\ RequestsIn(Take(up, n)) \subseteq S \cup {m}
  OBVIOUS
<1>M. m \in RequestsIn(Take(up, n))
  <2>1. 1 \in DOMAIN Take(up, n) /\ Take(up, n)[1] = up[1]
    BY <1>P DEF Reads
  <2> QED  BY <1>P, <2>1, RequestsInFacts
<1>0. lost' = lost \cup S
  OBVIOUS
<1> HIDE DEF S
<1>N. m.no \in Int /\ m.no \in 1..MaxRequests /\ m.no <= sentNo /\ sentNo \in Int
  BY <1>P, UpTypes DEF UpInv
<1>A. /\ handled \in Seq(1..MaxRequests) /\ handled' \in Seq(1..MaxRequests)
      /\ DOMAIN handled = 1..Len(handled) /\ Len(handled) \in Nat
      /\ DOMAIN handled' = 1..(Len(handled) + 1)
      /\ \A h \in 1..Len(handled) : handled'[h] = handled[h]
      /\ handled'[Len(handled) + 1] = m.no
  BY <1>N DEF FateInv
<1>B. \A h \in DOMAIN handled' : \/ h \in DOMAIN handled /\ handled'[h] = handled[h]
                                 \/ h = Len(handled) + 1 /\ handled'[h] = m.no
  BY <1>A
<1>C. \A h \in DOMAIN handled : handled[h] < m.no
  BY <1>P DEF FateInv
<1>D. \A k \in lost : k.no < m.no
  BY <1>P DEF FateInv
<1>2. ASSUME NEW x \in S
      PROVE  /\ x \in Requests /\ x.no <= sentNo /\ m.no < x.no
             /\ \A i \in DOMAIN up' : x.no < up'[i].of.no \/ (x.no = up'[i].of.no /\ up'[i].piece # 1)
  <2>1. PICK j \in DOMAIN up : j \in 1..n /\ up[j].piece # 0 /\ x = up[j].of /\ x # m
    BY <1>1
  <2>2. x \in Requests /\ x.no \in Int /\ x.no <= sentNo
    BY <2>1, UpTypes DEF UpInv
  <2>3. m.no < x.no
    <3>1. j # 1 /\ j # 2
      BY <1>T, <2>1
    <3>2. j > 2
      BY <2>1, <3>1
    <3> QED  BY <1>P, <2>1, <3>2
  <2>4. ASSUME NEW i \in DOMAIN up' PROVE x.no < up'[i].of.no \/ (x.no = up'[i].of.no /\ up'[i].piece # 1)
    <3>1. i + n \in DOMAIN up /\ up'[i] = up[i + n] /\ i \in Nat \ {0}
      BY DEF Reads
    <3>2. j < i + n
      BY <2>1, <3>1
    <3>3. Before(up[j], up[i + n])
      BY <3>1, <3>2 DEF UpInv
    <3> QED  BY <2>1, <3>1, <3>3 DEF Before
  <2> QED  BY <2>2, <2>3, <2>4
<1>3. lost' \subseteq Requests /\ \A x \in lost' : x.no <= sentNo
  BY <1>0, <1>2 DEF FateInv
<1>4. ASSUME NEW h \in DOMAIN handled', NEW i \in DOMAIN up'
      PROVE  /\ handled'[h] <= sentNo
             /\ handled'[h] < up'[i].of.no \/ (handled'[h] = up'[i].of.no /\ up'[i].piece = 0)
  <2>1. i + n \in DOMAIN up /\ up'[i] = up[i + n] /\ i + n > 2
    BY <1>P DEF Reads
  <2>2. CASE h \in DOMAIN handled /\ handled'[h] = handled[h]
    BY <2>1, <2>2 DEF FateInv
  <2>3. CASE handled'[h] = m.no
    BY <1>P, <1>N, <2>1, <2>3
  <2> QED  BY <1>B, <2>2, <2>3
<1>5. ASSUME NEW x \in lost', NEW i \in DOMAIN up'
      PROVE  x.no < up'[i].of.no \/ (x.no = up'[i].of.no /\ up'[i].piece # 1)
  <2>1. CASE x \in S
    BY <1>2, <2>1
  <2>2. CASE x \in lost
    <3>1. i + n \in DOMAIN up /\ up'[i] = up[i + n]
      BY DEF Reads
    <3> QED  BY <2>2, <3>1 DEF FateInv
  <2> QED  BY <1>0, <2>1, <2>2
<1>E. \A h \in DOMAIN handled' : handled'[h] <= sentNo
  BY <1>B, <1>N DEF FateInv
<1>R. Range(handled') = Range(handled) \cup {m.no}
  <2>1. \A x \in Range(handled') : x \in Range(handled) \cup {m.no}
    BY <1>B DEF Range
  <2>2. \A x \in Range(handled) : x \in Range(handled')
    BY <1>A DEF Range
  <2>3. m.no \in Range(handled')
    BY <1>A DEF Range
  <2> QED  BY <2>1, <2>2, <2>3
<1>6. Range(handled') \cap Numbers(lost') = {}
  <2>1. ASSUME NEW x \in lost', NEW h \in DOMAIN handled, handled[h] = x.no PROVE FALSE
    <3>1. CASE x \in lost
      <4>1. Range(handled) \cap Numbers(lost) = {}
        BY DEF FateInv, HandledInOrder, Numbers
      <4>2. handled[h] \in Range(handled)
        BY <2>1 DEF Range
      <4>3. x.no \in Numbers(lost)
        BY <3>1 DEF Numbers
      <4> QED  BY <2>1, <4>1, <4>2, <4>3
    <3>2. CASE x \in S
      <4>1. handled[h] < m.no /\ m.no < x.no /\ handled[h] \in Int
        BY <1>2, <1>C, <3>2, FateTypes
      <4> QED  BY <1>N, <2>1, <4>1
    <3> QED  BY <1>0, <3>1, <3>2
  <2>2. \A x \in lost' : x.no # m.no
    BY <1>0, <1>2, <1>D, <1>N
  <2>3. Range(handled) \cap Numbers(lost') = {}
    BY <2>1 DEF Range, Numbers
  <2>4. m.no \notin Numbers(lost')
    BY <2>2 DEF Numbers
  <2> QED  BY <1>R, <2>3, <2>4
<1>7. {m.no} \cup Numbers(lost') \cup InFlight' = Numbers(lost) \cup InFlight
  <2>1. RequestsIn(up) = (S \cup {m}) \cup RequestsIn(up')
    BY <1>S, <1>M, ReadsSplits
  <2> QED  BY <1>0, <2>1 DEF Numbers, InFlight
<1>O. \A i, j \in DOMAIN handled' : i < j => handled'[i] < handled'[j]
  <2> SUFFICES ASSUME NEW i \in DOMAIN handled', NEW j \in DOMAIN handled', i < j
               PROVE  handled'[i] < handled'[j]
    OBVIOUS
  <2>1. i \in DOMAIN handled /\ handled'[i] = handled[i]
    BY <1>A
  <2>2. CASE j \in DOMAIN handled /\ handled'[j] = handled[j]
    BY <2>1, <2>2 DEF FateInv, HandledInOrder
  <2>3. CASE handled'[j] = m.no
    BY <1>C, <2>1, <2>3
  <2> QED  BY <1>B, <2>2, <2>3
<1>8. HandledInOrder'
  <2>1. connected => 1..sentNo = Range(handled) \cup (Numbers(lost) \cup InFlight)
    BY DEF FateInv, HandledInOrder, Numbers
  <2>2. connected' => 1..sentNo' = Range(handled') \cup Numbers(lost') \cup InFlight'
    BY <1>7, <1>R, <2>1
  <2> QED  BY <1>6, <1>O, <2>2 DEF HandledInOrder, Numbers
<1> QED  BY <1>3, <1>4, <1>5, <1>8, <1>A, <1>E DEF FateInv

\* Once the server is gone there is nothing left to handle.
LEMMA CloseKeepsFate ==
  ASSUME UpInv, FateInv, up' = <<>>, connected' = FALSE, UNCHANGED <<handled, lost, sentNo>>
  PROVE  UpInv' /\ FateInv'
<1>1. DOMAIN up' = {} /\ up' \in Seq(RequestPiece)
  OBVIOUS
<1>2. HandledInOrder'
  BY DEF FateInv, HandledInOrder
<1> QED  BY <1>1, <1>2 DEF FateInv, UpInv

\* Most steps touch neither.
LEMMA QuietKeepsFate ==
  ASSUME UpInv, FateInv, UNCHANGED <<up, sentNo, handled, lost, connected>>
  PROVE  UpInv' /\ FateInv'
BY DEF UpInv, FateInv, HandledInOrder, InFlight

-----------------------------------------------------------------------------
(* What an answer and a read do to the stream to the client.               *)

Acks == {"loginAck", "regAck"}

\* Answer a follows what is on its way; its first piece is at k.
Replies(a, k) ==
  /\ down' \in Seq(AnswerPiece)
  /\ \A i \in DOMAIN down : i \in DOMAIN down' /\ down'[i] = down[i]
  /\ k \in DOMAIN down' \ DOMAIN down /\ down'[k].piece = 1
  /\ \A i \in DOMAIN down' \ DOMAIN down :
       down'[i].of = a /\ (down'[i].piece = 1 => i = k) /\ \A j \in DOMAIN down : j < i

\* The pieces of a new answer come after all others.
LEMMA ReplyIsReplies ==
  ASSUME down \in Seq(AnswerPiece), NEW a \in Answers, down' = down \o AnswerPieces(a)
  PROVE  \E k : Replies(a, k)
<1> DEFINE q == AnswerPieces(a)
<1>1. /\ q \in Seq(AnswerPiece) /\ Len(q) \in Nat \ {0}
      /\ \A i \in 1..Len(q) : q[i].of = a /\ (q[i].piece = 1 <=> i = 1)
  BY AnswerPiecesFacts
<1>2. down' = down \o q /\ q \in Seq(AnswerPiece)
  BY <1>1
<1> HIDE DEF q
<1>3. /\ down' \in Seq(AnswerPiece) /\ Len(down) \in Nat /\ Len(q) \in Nat
      /\ DOMAIN down = 1..Len(down) /\ DOMAIN down' = 1..(Len(down) + Len(q))
      /\ \A i \in 1..Len(down) : down'[i] = down[i]
      /\ \A i \in 1..Len(q) : down'[Len(down) + i] = q[i]
  BY <1>2, GrowFacts
<1>4. PICK l \in Nat, z \in Nat \ {0} :
        l = Len(down) /\ z = Len(q) /\ DOMAIN down = 1..l /\ DOMAIN down' = 1..(l + z)
  BY <1>1, <1>3
<1>5. ASSUME NEW i \in DOMAIN down' \ DOMAIN down
      PROVE  down'[i].of = a /\ (down'[i].piece = 1 <=> i = l + 1) /\ \A j \in DOMAIN down : j < i
  <2>1. i - l \in 1..z /\ l + (i - l) = i /\ i \in Nat
    BY <1>4
  <2>2. down'[i] = q[i - l]
    BY <1>3, <1>4, <2>1
  <2>3. i - l = 1 <=> i = l + 1
    BY <1>4, <2>1
  <2> QED  BY <1>1, <1>3, <1>4, <2>1, <2>2, <2>3
<1>6. l + 1 \in DOMAIN down' \ DOMAIN down
  BY <1>1, <1>3, <1>4
<1>7. \A i \in DOMAIN down : i \in DOMAIN down' /\ down'[i] = down[i]
  BY <1>3
<1>8. Replies(a, l + 1)
  BY <1>3, <1>5, <1>6, <1>7 DEF Replies
<1> QED  BY <1>8

\* Membership in Asked and Answered, in this state and the next.
LEMMA MarkFacts ==
  /\ \A i : i \in Asked <=> i \in DOMAIN up /\ up[i].piece = 1 /\ up[i].of.kind \in Waits
  /\ \A i : i \in Asked' <=> i \in DOMAIN up' /\ up'[i].piece = 1 /\ up'[i].of.kind \in Waits
  /\ \A i : i \in Answered <=> i \in DOMAIN down /\ down[i].piece = 1 /\ down[i].of.kind \in Acks
  /\ \A i : i \in Answered' <=> i \in DOMAIN down' /\ down'[i].piece = 1 /\ down'[i].of.kind \in Acks
BY DEF Asked, Answered, Acks

\* Of an answer only the first piece counts as one to be read.
LEMMA RepliesMarks ==
  ASSUME NEW a, NEW k, Replies(a, k)
  PROVE  Answered' = Answered \cup (IF a.kind \in Acks THEN {k} ELSE {})
BY MarkFacts DEF Replies

\* The stream to the client keeps its form when an answer is written.
LEMMA RepliesKeepsDown ==
  ASSUME DownInv, NEW a, NEW k, Replies(a, k), Named(a)
  PROVE  DownInv'
BY DEF DownInv, Replies

\* The client reads the first n pieces, among them the text that starts at k.
Receives(n, k) ==
  /\ down' \in Seq(AnswerPiece)
  /\ k \in 1..n /\ k \in DOMAIN down /\ down[k].piece = 1
  /\ \A i \in DOMAIN down : i \in 1..n /\ down[i].piece = 1 => i = k
  /\ \A i \in DOMAIN down' : i \in Nat \ {0} /\ i + n \in DOMAIN down /\ down'[i] = down[i + n]
  /\ \A i \in DOMAIN down : i \in Nat /\ (i \in 1..n \/ (i - n \in DOMAIN down' /\ down'[i - n] = down[i]))

\* What the client could parse has one first piece, that of the text it parsed.
LEMMA ReadIsReceives ==
  ASSUME down \in Seq(AnswerPiece), NEW n \in 1..Len(down), NEW k \in 1..n,
         ClientParses(Take(down, n), k), down' = Drop(down, n)
  PROVE  Receives(n, k) /\ Take(down, n)[k] = down[k]
<1> DEFINE s == Take(down, n)
<1>0. down \in Seq(AnswerPiece) /\ n \in 1..Len(down) /\ down' = Drop(down, n)
  OBVIOUS
<1>a. /\ Len(down) \in Nat /\ DOMAIN down = 1..Len(down)
      /\ s \in Seq(AnswerPiece) /\ DOMAIN s = 1..n
      /\ \A i \in 1..n : s[i] = down[i]
      /\ Drop(down, n) \in Seq(AnswerPiece) /\ DOMAIN Drop(down, n) = 1..(Len(down) - n)
      /\ \A i \in 1..(Len(down) - n) : Drop(down, n)[i] = down[i + n]
  BY DEF Take, Drop
<1>1. /\ Len(down) \in Nat /\ DOMAIN down = 1..Len(down)
      /\ s \in Seq(AnswerPiece) /\ DOMAIN s = 1..n
      /\ \A i \in 1..n : s[i] = down[i]
      /\ down' \in Seq(AnswerPiece) /\ DOMAIN down' = 1..(Len(down) - n)
      /\ \A i \in 1..(Len(down) - n) : down'[i] = down[i + n]
  BY <1>0, <1>a, Zenon
<1>2. TextAt(s, k, s[k].of.size) /\ \A j \in DOMAIN s : j \notin k..(k + s[k].of.size - 1) => s[j].piece = 0
  BY DEF ClientParses
<1>3. s[k] \in AnswerPiece
  BY <1>1
<1> HIDE DEF s
<1>4. PICK z \in Nat : z = s[k].of.size /\ z >= 2
  BY <1>3 DEF AnswerPiece, Answers
<1>5. \A j \in 1..z : k + j - 1 \in DOMAIN s /\ s[k + j - 1] = [of |-> s[k].of, piece |-> j]
  BY <1>2, <1>4 DEF TextAt
<1>6. \A j \in DOMAIN s : j \notin k..(k + z - 1) => s[j].piece = 0
  BY <1>2, <1>4
<1>7. ASSUME NEW i \in 1..n PROVE s[i].piece = 1 <=> i = k
  <2>1. CASE i \notin k..(k + z - 1)
    <3>1. s[i].piece = 0
      BY <1>1, <1>6, <2>1
    <3>2. i # k
      BY <1>4, <2>1
    <3> QED  BY <3>1, <3>2
  <2>2. CASE i \in k..(k + z - 1)
    <3>1. i - k + 1 \in 1..z /\ k + (i - k + 1) - 1 = i
      BY <1>4, <2>2
    <3>2. s[i] = [of |-> s[k].of, piece |-> i - k + 1]
      BY <1>5, <3>1
    <3>3. s[i].piece = i - k + 1
      BY <3>2
    <3> QED  BY <3>1, <3>3
  <2> QED  BY <2>1, <2>2
<1>8. ASSUME NEW i \in DOMAIN down, i \notin 1..n PROVE i - n \in DOMAIN down' /\ down'[i - n] = down[i]
  <2>1. i - n \in 1..(Len(down) - n) /\ (i - n) + n = i
    BY <1>1, <1>8
  <2> QED  BY <1>1, <2>1
<1>9. \A i \in DOMAIN down' : i \in Nat \ {0} /\ i + n \in DOMAIN down /\ down'[i] = down[i + n]
  BY <1>1
<1>10. \A i \in DOMAIN down : i \in Nat /\ (i \in 1..n \/ (i - n \in DOMAIN down' /\ down'[i - n] = down[i]))
  BY <1>1, <1>8
<1>11. k \in 1..n /\ k \in DOMAIN down /\ down[k].piece = 1 /\ s[k] = down[k]
  BY <1>1, <1>7
<1>12. \A i \in DOMAIN down : i \in 1..n /\ down[i].piece = 1 => i = k
  BY <1>1, <1>7
<1> QED  BY <1>1, <1>9, <1>10, <1>11, <1>12 DEF Receives, s

\* A read takes at most the one answer it parsed; the others move to the front.
LEMMA ReceivesMarks ==
  ASSUME NEW n \in Nat, NEW k, Receives(n, k)
  PROVE  /\ \A i \in Answered' : i + n \in Answered /\ i + n # k /\ i + n > k
         /\ \A i \in Answered : i = k \/ (i - n \in Answered' /\ down'[i - n] = down[i])
<1>1. ASSUME NEW i \in Answered' PROVE i + n \in Answered /\ i + n # k /\ i + n > k
  <2>1. i \in DOMAIN down' /\ down'[i].piece = 1 /\ down'[i].of.kind \in Acks
    BY MarkFacts
  <2>2. i \in Nat \ {0} /\ i + n \in DOMAIN down /\ down'[i] = down[i + n] /\ k \in 1..n
    BY <2>1 DEF Receives
  <2>3. i + n > k
    BY <2>2
  <2> QED  BY <2>1, <2>2, <2>3, MarkFacts
<1>2. ASSUME NEW i \in Answered, i # k PROVE i - n \in Answered' /\ down'[i - n] = down[i]
  <2>1. i \in DOMAIN down /\ down[i].piece = 1 /\ down[i].of.kind \in Acks
    BY MarkFacts
  <2>2. i - n \in DOMAIN down' /\ down'[i - n] = down[i]
    BY <1>2, <2>1 DEF Receives
  <2> QED  BY <2>1, <2>2, MarkFacts
<1> QED  BY <1>1, <1>2

\* The stream to the client keeps its form when it is read.
LEMMA ReceivesKeepsDown ==
  ASSUME DownInv, NEW n \in Nat, NEW k, Receives(n, k)
  PROVE  DownInv'
BY DEF DownInv, Receives

\* A client that is gone has nothing on its way to it.
LEMMA ExitKeepsDown ==
  ASSUME Exit
  PROVE  DownInv' /\ Answered' = {} /\ DOMAIN down' = {}
<1>1. down' \in Seq(AnswerPiece) /\ DOMAIN down' = {}
  BY DEF Exit
<1> QED  BY <1>1, MarkFacts DEF DownInv

-----------------------------------------------------------------------------
(* The main thread.                                                        *)

\* The users whose loginout is among some requests.
LEMMA LogoutFacts ==
  \A S, u : u \in LoginsOut(S) <=> \E m \in S : m.kind = "loginout" /\ u = m.who
BY DEF LoginsOut

\* Who is or is being logged in, in this state and the next.
LEMMA ArrivingFacts ==
  /\ \A u : u \in Arriving <=> \/ InMenu /\ u = currentUser
                               \/ u = serving /\ u # NoUser
                               \/ \E i \in DOMAIN down : Accepts(i) /\ u = down[i].of.who
  /\ \A u : u \in Arriving' <=> \/ InMenu' /\ u = currentUser'
                                \/ u = serving' /\ u # NoUser
                                \/ \E i \in DOMAIN down' : Accepts(i)' /\ u = down'[i].of.who
BY DEF Arriving, Answered, Accepts, InMenu

\* No answer is outstanding when the main thread waits for none.
LEMMA NotWaiting ==
  ASSUME SessionInv, alive, mainAt \notin Waits
  PROVE  Asked = {} /\ Idle
BY DEF SessionInv, WaitInv

\* A request is sent from a menu; its answer, if it has one, is waited for.
SendStep(m) ==
  /\ alive /\ Sends(m) /\ m.no = sentNo + 1 /\ sentNo' = sentNo + 1
  /\ \/ mainAt = "top" /\ m.kind \in Waits /\ mainAt' = m.kind /\ isLoginSuccess' \in BOOLEAN
        /\ (m.kind = "login" => isLoginSuccess' = FALSE)
     \/ mainAt = "main" /\ m.kind \in {"chat", "other"} /\ UNCHANGED <<mainAt, isLoginSuccess>>
     \/ mainAt = "main" /\ m.kind = "loginout" /\ m.who = currentUser /\ mainAt' = "top"
        /\ UNCHANGED isLoginSuccess
  /\ UNCHANGED <<down, serverVars, alive, currentUser, rwSem, readAt, lost, shown>>

\* Sending a request starts a wait, changes nothing, or ends a session.
LEMMA SendKeepsSession ==
  ASSUME SessionInv, NEW m \in Requests, SendStep(m)
  PROVE  SessionInv'
<1> USE DEF serverVars
<1>0. /\ alive /\ alive' /\ mainAt \notin Waits /\ Sends(m)
      /\ WaitInv /\ EntryInv /\ MessageInv
      /\ mainAt' \in {"top", "main"} \cup Waits
  BY DEF SendStep, SessionInv, Waits
<1>1. Asked = {} /\ Idle
  BY <1>0, NotWaiting
<1>2. UNCHANGED <<serving, down, readAt, rwSem>> /\ Answered' = Answered
  BY DEF SendStep, Answered
<1>3. Idle' /\ Answered' = {} /\ Answered = {}
  BY <1>1, <1>2 DEF Idle
<1>4. ASSUME NEW i \in Asked'
      PROVE  up'[i].of.kind = mainAt' /\ up'[i].of.no = sentNo' /\ m.kind \in Waits
  <2>1. i \in DOMAIN up' /\ up'[i].piece = 1 /\ up'[i].of.kind \in Waits
    BY MarkFacts
  <2>2. i \notin DOMAIN up
    <3>1. i \in DOMAIN up => up'[i] = up[i]
      BY <1>0 DEF Sends
    <3> QED  BY <1>1, <2>1, <3>1, MarkFacts
  <2>3. up'[i].of = m
    BY <1>0, <2>1, <2>2 DEF Sends
  <2> QED  BY <2>1, <2>3 DEF SendStep, Waits
<1>5. mainAt' \notin Waits => Asked' = {}
  <2>1. m.kind \in Waits => mainAt' \in Waits
    BY DEF SendStep, Waits
  <2> QED  BY <1>4, <2>1
<1>6. WaitInv'
  BY <1>0, <1>2, <1>3, <1>4, <1>5 DEF WaitInv, SendStep, Idle
<1>7. \A i : ~Accepts(i) /\ ~Accepts(i)'
  BY <1>3 DEF Accepts
<1>8. InMenu' => InMenu /\ m.kind # "loginout" /\ currentUser' = currentUser /\ mainAt' = "main" /\ mainAt = "main"
  BY DEF SendStep, InMenu, Waits
<1>9. InMenu => InMenu' \/ (m.kind = "loginout" /\ m.who = currentUser)
  BY DEF SendStep, InMenu, Waits
<1>10. mainAt' = "main" => \A i \in DOMAIN up' : up'[i].of.kind # "loginout"
  <2> SUFFICES ASSUME mainAt' = "main", NEW i \in DOMAIN up' PROVE up'[i].of.kind # "loginout"
    OBVIOUS
  <2>1. InMenu'
    BY DEF InMenu
  <2>2. CASE i \in DOMAIN up
    BY <1>0, <1>8, <2>1, <2>2 DEF EntryInv, Sends
  <2>3. CASE i \notin DOMAIN up
    BY <1>0, <1>8, <2>1, <2>3 DEF Sends
  <2> QED  BY <2>2, <2>3
<1>11. EntryExplained'
  <2> SUFFICES ASSUME NEW u \in entries
               PROVE  u \in Arriving' \/ u \in LoginsOut(RequestsIn(up')) \/ u \in LoginsOut(lost)
    BY DEF EntryExplained, SendStep
  <2>1. u \in Arriving \/ u \in LoginsOut(RequestsIn(up)) \/ u \in LoginsOut(lost)
    BY <1>0 DEF EntryInv, EntryExplained
  <2>2. CASE u \in Arriving
    <3>1. InMenu /\ u = currentUser
      BY <1>1, <1>7, <2>2, ArrivingFacts DEF Idle
    <3>2. CASE InMenu'
      BY <1>8, <3>1, <3>2, ArrivingFacts
    <3>3. CASE m.kind = "loginout" /\ m.who = currentUser
      <4>1. PICK i \in DOMAIN up' \ DOMAIN up : up'[i].piece = 1 /\ up'[i].of = m
        BY <1>0 DEF Sends
      <4>2. m \in RequestsIn(up')
        BY <4>1, RequestsInFacts
      <4> QED  BY <3>1, <3>3, <4>2, LogoutFacts
    <3> QED  BY <1>9, <3>1, <3>2, <3>3
  <2>3. CASE u \in LoginsOut(RequestsIn(up))
    <3>1. PICK x \in RequestsIn(up) : x.kind = "loginout" /\ u = x.who
      BY <2>3, LogoutFacts
    <3>2. PICK i \in DOMAIN up : up[i].piece # 0 /\ x = up[i].of
      BY RequestsInFacts
    <3>3. i \in DOMAIN up' /\ up'[i] = up[i]
      BY <1>0 DEF Sends
    <3>4. x \in RequestsIn(up')
      BY <3>2, <3>3, RequestsInFacts
    <3> QED  BY <3>1, <3>4, LogoutFacts
  <2> QED  BY <2>1, <2>2, <2>3
<1>12. MenuUserHasEntry'
  BY <1>0, <1>8 DEF EntryInv, MenuUserHasEntry, SendStep, InMenu
<1>13. EntryInv'
  <2>1. UNCHANGED <<currentUser, entries, connected, alive, serving>> /\ isLoginSuccess' \in BOOLEAN
    BY <1>0 DEF SendStep, EntryInv
  <2>2. ~(mainAt' = "login" /\ isLoginSuccess')
    BY DEF SendStep, Waits
  <2> QED  BY <1>0, <1>3, <1>7, <1>10, <1>11, <1>12, <2>1, <2>2 DEF EntryInv
<1>14. MessageInv'
  <2>1. \A i \in DOMAIN down : ForUser(i) => ForUser(i)'
    BY <1>2, <1>7, <1>8 DEF ForUser
  <2>2. ShownToOwner'
    BY <1>0 DEF SendStep, MessageInv, ShownToOwner
  <2> QED  BY <1>0, <1>2, <2>1, <2>2 DEF MessageInv, SendStep
<1> QED  BY <1>6, <1>13, <1>14 DEF SessionInv

\* The main thread wakes, and is in the main menu if its login was accepted.
LEMMA WakeKeepsSession ==
  ASSUME SessionInv, Wake
  PROVE  SessionInv'
<1> USE DEF serverVars
<1>0. /\ alive /\ alive' /\ mainAt \in Waits /\ rwSem = 1 /\ WaitInv /\ EntryInv /\ MessageInv
      /\ rwSem' = 0 /\ mainAt' = IF mainAt = "login" /\ isLoginSuccess THEN "main" ELSE "top"
      /\ UNCHANGED <<alive, currentUser, isLoginSuccess, readAt, up, down, serving, entries, connected, lost, shown>>
  BY DEF Wake, SessionInv, WaitInv
<1>1. Asked = {} /\ Answered = {} /\ serving = NoUser /\ readAt = "recv" /\ ~Idle
  BY <1>0 DEF WaitInv, Idle
<1>2. Asked' = Asked /\ Answered' = Answered
  BY <1>0 DEF Asked, Answered
<1>3. mainAt' \in {"top", "main"} /\ mainAt' \notin Waits
  BY <1>0 DEF Waits
<1>4. Idle'
  BY <1>0, <1>1, <1>2 DEF Idle
<1>5. WaitInv'
  BY <1>0, <1>1, <1>2, <1>3, <1>4 DEF WaitInv
<1>6. InMenu' <=> InMenu
  BY <1>0 DEF InMenu, Waits
<1>7. \A i : ~Accepts(i) /\ ~Accepts(i)'
  BY <1>1, <1>2 DEF Accepts
<1>8. Arriving' = Arriving
  BY <1>0, <1>6, <1>7, ArrivingFacts
<1>9. mainAt' = "main" => mainAt = "login" /\ isLoginSuccess
  BY <1>0
<1>10. MenuUserHasEntry'
  BY <1>0, <1>9 DEF MenuUserHasEntry, EntryInv
<1>11. EntryExplained'
  BY <1>0, <1>8 DEF EntryExplained, EntryInv
<1>12. EntryInv'
  BY <1>0, <1>1, <1>3, <1>7, <1>9, <1>10, <1>11 DEF EntryInv
<1>13. \A i \in DOMAIN down : ForUser(i) => ForUser(i)'
  BY <1>0, <1>6, <1>7 DEF ForUser
<1>14. ShownToOwner'
  BY <1>0 DEF MessageInv, ShownToOwner
<1>15. MessageInv'
  BY <1>0, <1>13, <1>14 DEF MessageInv
<1> QED  BY <1>5, <1>12, <1>15 DEF SessionInv

\* A post that was to come is there.
LEMMA PostKeepsSession ==
  ASSUME SessionInv, Post
  PROVE  SessionInv'
<1> USE DEF serverVars
<1>0. /\ alive /\ alive' /\ readAt = "post" /\ readAt' = "recv" /\ WaitInv /\ EntryInv /\ MessageInv
      /\ rwSem' = rwSem + 1
      /\ UNCHANGED <<alive, mainAt, currentUser, isLoginSuccess, up, down, serving, entries, connected, lost, shown, sentNo>>
  BY DEF Post, SessionInv
<1>1. Asked = {} /\ Answered = {} /\ serving = NoUser /\ ~Idle /\ rwSem = 0 /\ mainAt \in Waits
  BY <1>0 DEF WaitInv, Idle
<1>2. Asked' = Asked /\ Answered' = Answered /\ rwSem' = 1
  BY <1>0, <1>1 DEF Asked, Answered
<1>3. WaitInv'
  BY <1>0, <1>1, <1>2 DEF WaitInv
<1>4. InMenu' <=> InMenu
  BY <1>0 DEF InMenu
<1>5. \A i : ~Accepts(i) /\ ~Accepts(i)'
  BY <1>1, <1>2 DEF Accepts
<1>6. Arriving' = Arriving
  BY <1>0, <1>4, <1>5, ArrivingFacts
<1>7. MenuUserHasEntry' /\ EntryExplained'
  BY <1>0, <1>6 DEF MenuUserHasEntry, EntryExplained, EntryInv
<1>8. EntryInv'
  BY <1>0, <1>1, <1>2, <1>5, <1>7 DEF EntryInv
<1>9. \A i \in DOMAIN down : ForUser(i) => ForUser(i)'
  BY <1>0, <1>4, <1>5 DEF ForUser
<1>10. MessageInv'
  BY <1>0, <1>9 DEF MessageInv, ShownToOwner
<1> QED  BY <1>3, <1>8, <1>10 DEF SessionInv

-----------------------------------------------------------------------------
(* A client that is gone.                                                  *)

\* Its threads have stopped.
Stopped == ~alive' /\ UNCHANGED <<mainAt, currentUser, isLoginSuccess, rwSem, readAt, shown>>

\* What is left of the invariant is kept as long as the user in the main menu
\* keeps his entry while there is a connection.
LEMMA StoppedKeepsSession ==
  ASSUME SessionInv, Stopped, alive' \in BOOLEAN,
         serving' \in Users \cup {NoUser}, entries' \subseteq Users, lost \subseteq lost',
         serving' # NoUser => serving' \in entries',
         mainAt = "main" => \A i \in DOMAIN up' : up'[i].of.kind # "loginout",
         mainAt = "main" /\ connected' => currentUser \in entries'
  PROVE  SessionInv'
<1>1. WaitInv'
  BY DEF SessionInv, WaitInv, Stopped
<1>2. MenuUserHasEntry' /\ EntryExplained'
  BY DEF MenuUserHasEntry, EntryExplained, Stopped
<1>3. EntryInv'
  BY <1>2 DEF SessionInv, EntryInv, Stopped
<1>4. LoginsOut(lost) \subseteq LoginsOut(lost')
  BY DEF LoginsOut
<1>5. ShownToOwner'
  BY <1>4 DEF SessionInv, MessageInv, ShownToOwner, Stopped
<1>6. MessageInv'
  BY <1>5 DEF SessionInv, MessageInv, Stopped
<1> QED  BY <1>1, <1>3, <1>6 DEF SessionInv

\* The process ends: choice 3, or a text that does not parse.
LEMMA ExitKeepsSession ==
  ASSUME SessionInv, Exit, Stopped, UNCHANGED <<serving, entries, connected, up, lost>>
  PROVE  SessionInv'
<1>1. WaitInv /\ EntryInv /\ alive' \in BOOLEAN
  BY DEF SessionInv, Exit
<1> QED  BY <1>1, StoppedKeepsSession DEF WaitInv, EntryInv, MenuUserHasEntry

\* The server ends, and the client with it.
LEMMA ServerExitsKeepsSession ==
  ASSUME SessionInv, ServerExits
  PROVE  SessionInv'
<1>1. /\ Stopped /\ alive' \in BOOLEAN /\ serving' = NoUser /\ entries' = {} /\ connected' = FALSE
      /\ up' = <<>> /\ lost' = lost
  BY DEF ServerExits, Exit, Stopped
<1>2. DOMAIN up' = {}
  BY <1>1
<1> QED  BY <1>1, <1>2, StoppedKeepsSession

-----------------------------------------------------------------------------
(* The read thread.                                                        *)

ReceiveStep(n, k) ==
  /\ alive /\ readAt = "recv" /\ Receives(n, k) /\ Handle(down[k].of)
  /\ UNCHANGED <<alive, mainAt, rwSem, up, serving, entries, connected, sentNo, lost>>

\* The answer the main thread waits for is read.
LEMMA ReceiveAckKeepsSession ==
  ASSUME SessionInv, DownInv, NEW n \in Nat, NEW k, ReceiveStep(n, k), down[k].of.kind \in Acks
  PROVE  SessionInv'
<1> DEFINE a == down[k].of
<1>0. /\ alive /\ alive' /\ WaitInv /\ EntryInv /\ MessageInv /\ Receives(n, k)
      /\ UNCHANGED <<alive, mainAt, rwSem, up, serving, entries, connected, sentNo, lost>>
      /\ readAt' = "post" /\ UNCHANGED shown
      /\ \/ a.kind = "loginAck" /\ doLoginResponse(a)
         \/ a.kind = "regAck" /\ UNCHANGED <<currentUser, isLoginSuccess>>
  BY DEF ReceiveStep, SessionInv, Handle, Acks
<1>1. k \in Answered /\ k \in DOMAIN down
  BY <1>0, MarkFacts DEF Receives
<1>2. /\ Asked = {} /\ serving = NoUser /\ rwSem = 0 /\ ~Idle /\ mainAt \in Waits
      /\ a.kind = (IF mainAt = "reg" THEN "regAck" ELSE "loginAck")
      /\ \A i \in Answered : i = k
  BY <1>0, <1>1 DEF WaitInv, Idle
<1>3. Answered' = {} /\ Asked' = Asked
  <2>1. \A i \in Answered' : FALSE
    BY <1>0, <1>2, ReceivesMarks
  <2> QED  BY <1>0, <2>1 DEF Asked
<1>4. a \in Answers /\ Named(a) /\ a.ok \in BOOLEAN
  <2>1. down[k] \in AnswerPiece
    BY <1>1 DEF DownInv
  <2> QED  BY <1>1, <2>1 DEF DownInv, AnswerPiece, Answers
<1>5. WaitInv'
  BY <1>0, <1>2, <1>3 DEF WaitInv
<1>6. \A i : ~Accepts(i)'
  BY <1>3 DEF Accepts
<1>7. ~InMenu
  BY <1>0, <1>1, <1>2 DEF InMenu, EntryInv, WaitInv, Waits
<1>8. InMenu' <=> Accepts(k)
  <2>1. CASE a.kind = "loginAck" /\ doLoginResponse(a)
    <3>1. mainAt' = "login" /\ isLoginSuccess' = a.ok
      BY <1>0, <1>2, <2>1 DEF doLoginResponse, Waits
    <3> QED  BY <1>1, <1>4, <2>1, <3>1 DEF InMenu, Accepts
  <2>2. CASE a.kind = "regAck"
    BY <1>0, <1>2, <2>2 DEF InMenu, Accepts, Waits
  <2> QED  BY <1>0, <2>1, <2>2
<1>9. Accepts(k) => currentUser' = a.who /\ a.who \in entries /\ a.who \in Users
  BY <1>0, <1>1, <1>4 DEF Accepts, doLoginResponse, EntryInv, Named
<1>10. currentUser' \in Users \cup {NoUser} /\ isLoginSuccess' \in BOOLEAN
  <2>1. CASE a.kind = "loginAck" /\ doLoginResponse(a)
    BY <1>0, <1>4, <2>1 DEF doLoginResponse, EntryInv, Named
  <2>2. CASE UNCHANGED <<currentUser, isLoginSuccess>>
    BY <1>0, <2>2 DEF EntryInv
  <2> QED  BY <1>0, <2>1, <2>2
<1>11. mainAt' = "login" /\ isLoginSuccess' => currentUser' \in entries'
  BY <1>0, <1>8, <1>9 DEF InMenu
<1>12. EntryExplained'
  <2> SUFFICES ASSUME NEW u \in entries, u \in Arriving PROVE u \in Arriving'
    BY <1>0 DEF EntryExplained, EntryInv
  <2>1. PICK i \in DOMAIN down : Accepts(i) /\ u = down[i].of.who
    BY <1>2, <1>7, ArrivingFacts
  <2>2. i = k
    BY <1>2, <2>1 DEF Accepts
  <2> QED  BY <1>8, <1>9, <2>1, <2>2, ArrivingFacts
<1>13. MenuUserHasEntry'
  BY <1>0, <1>2 DEF MenuUserHasEntry, Waits
<1>14. EntryInv'
  BY <1>0, <1>2, <1>6, <1>10, <1>11, <1>12, <1>13 DEF EntryInv, Waits
<1>15. ASSUME NEW i \in DOMAIN down', down'[i].of.kind \in {"chat", "group"}
       PROVE  down'[i].of.who \in LoginsOut(lost) \/ ForUser(i)'
  <2>1. i \in Nat \ {0} /\ i + n \in DOMAIN down /\ down'[i] = down[i + n] /\ k \in 1..n
    BY <1>0 DEF Receives
  <2>2. down[i + n].of.who \in LoginsOut(lost) \/ ForUser(i + n)
    BY <1>0, <1>15, <2>1 DEF MessageInv
  <2>3. ASSUME ForUser(i + n), InMenu' PROVE down'[i].of.who = currentUser'
    <3>1. k < i + n
      BY <2>1
    <3>2. down[i + n].of.who = a.who
      BY <1>1, <1>8, <2>3, <3>1 DEF ForUser
    <3> QED  BY <1>8, <1>9, <2>1, <2>3, <3>2
  <2> QED  BY <1>6, <2>1, <2>2, <2>3 DEF ForUser
<1>16. MessageInv'
  BY <1>0, <1>15 DEF MessageInv, ShownToOwner
<1> QED  BY <1>5, <1>14, <1>16 DEF SessionInv

\* A message, or the answer to a chat, is read.
LEMMA ReceiveOtherKeepsSession ==
  ASSUME SessionInv, DownInv, NEW n \in Nat, NEW k, ReceiveStep(n, k), down[k].of.kind \notin Acks
  PROVE  SessionInv'
<1> DEFINE a == down[k].of
<1>0. /\ alive /\ alive' /\ WaitInv /\ EntryInv /\ MessageInv /\ Receives(n, k) /\ k \in DOMAIN down
      /\ UNCHANGED <<alive, mainAt, rwSem, up, serving, entries, connected, sentNo, lost>>
      /\ UNCHANGED <<currentUser, isLoginSuccess, readAt>>
  BY DEF ReceiveStep, SessionInv, Handle, Acks, Receives
<1>1. k \notin Answered
  BY MarkFacts
<1>2. /\ \A i \in Answered' : i + n \in Answered /\ i \in DOMAIN down' /\ down'[i] = down[i + n] /\ i \in Nat
      /\ \A i \in Answered : i - n \in Answered' /\ down'[i - n] = down[i]
  BY <1>0, <1>1, ReceivesMarks, MarkFacts DEF Receives
<1>3. Asked' = Asked
  BY <1>0 DEF Asked
<1>4. Answered' = {} <=> Answered = {}
  BY <1>2
<1>5. Idle' <=> Idle
  BY <1>0, <1>4 DEF Idle
<1>6. \A i, j \in Answered' : i = j
  <2> SUFFICES ASSUME NEW i \in Answered', NEW j \in Answered' PROVE i = j
    OBVIOUS
  <2>1. i + n = j + n /\ i \in Nat /\ j \in Nat
    BY <1>0, <1>2 DEF WaitInv
  <2> QED  BY <2>1
<1>7. WaitInv'
  BY <1>0, <1>2, <1>3, <1>4, <1>5, <1>6 DEF WaitInv
<1>8. /\ \A i : Accepts(i)' => Accepts(i + n) /\ down'[i] = down[i + n] /\ i \in DOMAIN down' /\ i \in Nat
      /\ \A i : Accepts(i) => Accepts(i - n)' /\ down'[i - n] = down[i]
  BY <1>2 DEF Accepts
<1>9. InMenu' <=> InMenu
  BY <1>0 DEF InMenu
<1>10. EntryExplained'
  <2> SUFFICES ASSUME NEW u \in entries, u \in Arriving PROVE u \in Arriving'
    BY <1>0 DEF EntryExplained, EntryInv
  <2>1. ASSUME NEW i \in DOMAIN down, Accepts(i), u = down[i].of.who PROVE u \in Arriving'
    <3>1. Accepts(i - n)' /\ down'[i - n] = down[i]
      BY <1>8, <2>1
    <3>2. i - n \in DOMAIN down'
      BY <3>1, MarkFacts DEF Accepts
    <3> QED  BY <2>1, <3>1, <3>2, ArrivingFacts
  <2> QED  BY <1>0, <1>9, <2>1, ArrivingFacts
<1>11. MenuUserHasEntry'
  BY <1>0 DEF MenuUserHasEntry, EntryInv
<1>12. \A i \in DOMAIN down' : Accepts(i)' => down'[i].of.who \in entries'
  <2> SUFFICES ASSUME NEW i \in DOMAIN down', Accepts(i)' PROVE down'[i].of.who \in entries
    BY <1>0
  <2>1. Accepts(i + n) /\ down'[i] = down[i + n] /\ i + n \in DOMAIN down
    BY <1>0, <1>8 DEF Receives
  <2> QED  BY <1>0, <2>1 DEF EntryInv
<1>13. EntryInv'
  BY <1>0, <1>5, <1>10, <1>11, <1>12 DEF EntryInv
<1>14. ASSUME NEW i \in DOMAIN down', down'[i].of.kind \in {"chat", "group"}
       PROVE  down'[i].of.who \in LoginsOut(lost) \/ ForUser(i)'
  <2>1. i \in Nat \ {0} /\ i + n \in DOMAIN down /\ down'[i] = down[i + n]
    BY <1>0 DEF Receives
  <2>2. down[i + n].of.who \in LoginsOut(lost) \/ ForUser(i + n)
    BY <1>0, <1>14, <2>1 DEF MessageInv
  <2>3. ASSUME ForUser(i + n), NEW j \in DOMAIN down', j < i, Accepts(j)'
        PROVE  down'[i].of.who = down'[j].of.who
    <3>1. Accepts(j + n) /\ down'[j] = down[j + n] /\ j \in Nat /\ j + n \in DOMAIN down
      BY <1>0, <1>8, <2>3 DEF Receives
    <3>2. j + n < i + n
      BY <2>1, <2>3, <3>1
    <3> QED  BY <2>1, <2>3, <3>1, <3>2 DEF ForUser
  <2> QED  BY <1>0, <1>9, <2>1, <2>2, <2>3 DEF ForUser
<1>15. shown' \subseteq Users \X Users /\ ShownToOwner'
  <2>1. CASE UNCHANGED shown
    BY <1>0, <2>1 DEF MessageInv, ShownToOwner
  <2>2. CASE mainAt = "main" /\ a.kind \in {"chat", "group"} /\ shown' = shown \cup {<<a.who, currentUser>>}
    <3>1. a.who \in LoginsOut(lost) \/ ForUser(k)
      BY <1>0, <2>2 DEF MessageInv
    <3>2. a.who \in LoginsOut(lost) \/ a.who = currentUser
      BY <2>2, <3>1 DEF ForUser, InMenu
    <3>3. a.who \in Users
      BY <1>0, <2>2 DEF DownInv, Named
    <3>4. currentUser \in Users
      BY <1>0, <2>2 DEF EntryInv, MenuUserHasEntry
    <3>5. PICK w, c : w = a.who /\ c = currentUser
      OBVIOUS
    <3>6. \A s \in shown' : s \in shown \/ s = <<w, c>>
      BY <2>2, <3>5
    <3> QED  BY <1>0, <3>2, <3>3, <3>4, <3>5, <3>6 DEF MessageInv, ShownToOwner
  <2> QED  BY <2>1, <2>2 DEF ReceiveStep, Handle, Acks
<1>16. MessageInv'
  BY <1>0, <1>14, <1>15 DEF MessageInv
<1> QED  BY <1>7, <1>13, <1>16 DEF SessionInv

-----------------------------------------------------------------------------
(* The server.                                                             *)

\* The client's threads do nothing, and every loginout that left the stream to
\* the server is lost.
ServerStep ==
  /\ \A i \in DOMAIN up' : \E j \in DOMAIN up : up'[i] = up[j]
  /\ LoginsOut(RequestsIn(up)) \subseteq LoginsOut(RequestsIn(up')) \cup LoginsOut(lost')
  /\ lost \subseteq lost'
  /\ UNCHANGED <<alive, mainAt, currentUser, isLoginSuccess, rwSem, readAt, connected, sentNo, shown>>

\* The stream to the client grows by what is neither the answer to a login nor to
\* a registration; messages are for whom they should be.
Written ==
  /\ \A i \in DOMAIN down : i \in DOMAIN down' /\ down'[i] = down[i]
  /\ \A i \in DOMAIN down' \ DOMAIN down : \A j \in DOMAIN down : j < i
  /\ DOMAIN down' \subseteq Nat
  /\ Answered' = Answered
  /\ alive => \A i \in DOMAIN down' \ DOMAIN down :
       down'[i].of.kind \in {"chat", "group"} => down'[i].of.who \in LoginsOut(lost) \/ ForUser(i)'

\* Lost requests stay lost.
LEMMA LostGrows ==
  ASSUME lost \subseteq lost'
  PROVE  LoginsOut(lost) \subseteq LoginsOut(lost')
BY DEF LoginsOut

\* A request that concerns nobody's session, a message, or a text that is lost.
LEMMA WrittenKeepsSession ==
  ASSUME SessionInv, ServerStep, Written, UNCHANGED <<serving, entries>>
  PROVE  SessionInv'
<1>0. /\ WaitInv /\ EntryInv /\ MessageInv
      /\ UNCHANGED <<alive, mainAt, currentUser, isLoginSuccess, rwSem, readAt, connected, sentNo, shown>>
  BY DEF SessionInv, ServerStep
<1>L. LoginsOut(lost) \subseteq LoginsOut(lost')
  BY LostGrows DEF ServerStep
<1>1. CASE ~alive
  <2>1. mainAt = "main" => \A i \in DOMAIN up' : up'[i].of.kind # "loginout"
    BY <1>0 DEF EntryInv, ServerStep
  <2> QED  BY <1>0, <1>1, <2>1, StoppedKeepsSession DEF ServerStep, Stopped, WaitInv, EntryInv, MenuUserHasEntry
<1>2. CASE alive
  <2>1. Answered' = Answered /\ \A i \in Answered : i \in DOMAIN down /\ down'[i] = down[i]
    BY MarkFacts DEF Written
  <2>2. ASSUME NEW i \in Asked' PROVE \E j \in Asked : up'[i] = up[j]
    BY MarkFacts DEF ServerStep
  <2>3. Idle' <=> Idle
    BY <1>0, <2>1 DEF Idle
  <2>4. WaitInv'
    <3>1. Asked' # {} => Asked # {}
      BY <2>2
    <3>2. \A i \in Asked' : up'[i].of.kind = mainAt /\ up'[i].of.no = sentNo
      BY <1>0, <1>2, <2>2 DEF WaitInv
    <3> QED  BY <1>0, <1>2, <2>1, <2>3, <3>1, <3>2 DEF WaitInv
  <2>5. InMenu' <=> InMenu
    BY <1>0 DEF InMenu
  <2>6. \A i : (Accepts(i)' <=> Accepts(i)) /\ (Accepts(i) => i \in DOMAIN down /\ i \in DOMAIN down' /\ down'[i] = down[i])
    BY <2>1 DEF Accepts, Written
  <2>7. \A u : u \in Arriving => u \in Arriving'
    BY <1>0, <2>5, <2>6, ArrivingFacts
  <2>8. EntryExplained'
    BY <1>0, <1>2, <1>L, <2>7 DEF EntryExplained, EntryInv, ServerStep
  <2>9. MenuUserHasEntry'
    BY <1>0 DEF MenuUserHasEntry, EntryInv
  <2>10. mainAt = "main" \/ (alive /\ mainAt = "login" /\ ~Idle) =>
           \A i \in DOMAIN up' : up'[i].of.kind # "loginout"
    BY <1>0 DEF EntryInv, ServerStep
  <2>11. EntryInv'
    <3>1. \A i \in DOMAIN down' : Accepts(i)' => down'[i].of.who \in entries
      BY <1>0, <1>2, <2>6 DEF EntryInv
    <3> QED  BY <1>0, <2>3, <2>8, <2>9, <2>10, <3>1 DEF EntryInv
  <2>12. ASSUME NEW i \in DOMAIN down', down'[i].of.kind \in {"chat", "group"}
         PROVE  down'[i].of.who \in LoginsOut(lost') \/ ForUser(i)'
    <3>1. CASE i \in DOMAIN down
      <4>1. down'[i] = down[i] /\ (down[i].of.who \in LoginsOut(lost) \/ ForUser(i))
        BY <1>0, <1>2, <2>12, <3>1 DEF Written, MessageInv
      <4>2. ForUser(i) => ForUser(i)'
        BY <1>0, <2>5, <2>6, <4>1 DEF ForUser
      <4> QED  BY <1>L, <4>1, <4>2
    <3>2. CASE i \notin DOMAIN down
      BY <1>2, <1>L, <2>12, <3>2 DEF Written
    <3> QED  BY <3>1, <3>2
  <2>13. ShownToOwner'
    BY <1>0, <1>L DEF MessageInv, ShownToOwner
  <2>14. MessageInv'
    BY <1>0, <2>12, <2>13 DEF MessageInv
  <2> QED  BY <2>4, <2>11, <2>14 DEF SessionInv
<1> QED  BY <1>0, <1>1, <1>2 DEF WaitInv

\* Nothing is written.
LEMMA SilentIsWritten ==
  ASSUME DownInv, UNCHANGED down
  PROVE  Written
<1>1. DOMAIN down \subseteq Nat
  BY DEF DownInv
<1>2. Answered' = Answered
  BY DEF Answered
<1> QED  BY <1>1, <1>2 DEF Written

\* A read that gives no loginout to a handler.
LEMMA ReadIsServerStep ==
  ASSUME NEW n \in Nat, Reads(n), NEW S,
         RequestsIn(Take(up, n)) \subseteq S \cup lost', \A m \in S : m.kind # "loginout",
         lost \subseteq lost',
         UNCHANGED <<alive, mainAt, currentUser, isLoginSuccess, rwSem, readAt, connected, sentNo, shown>>
  PROVE  ServerStep
<1>1. \A i \in DOMAIN up' : \E j \in DOMAIN up : up'[i] = up[j]
  BY DEF Reads
<1>2. RequestsIn(up) = RequestsIn(Take(up, n)) \cup RequestsIn(up')
  BY ReadsSplits
<1>3. LoginsOut(RequestsIn(up)) \subseteq LoginsOut(RequestsIn(up')) \cup LoginsOut(lost')
  <2> SUFFICES ASSUME NEW m \in RequestsIn(up), m.kind = "loginout"
               PROVE  m \in RequestsIn(up') \/ m \in lost'
    BY LogoutFacts
  <2> QED  BY <1>2
<1> QED  BY <1>1, <1>3 DEF ServerStep


\* The request in front is the one the main thread waits for: it is the only one
\* on its way, nothing has come of it, and nobody is or is being logged in.
Awaited(m) ==
  /\ Idle /\ mainAt = m.kind /\ mainAt \in Waits /\ ~InMenu /\ \A i : ~Accepts(i)
  /\ \A i \in DOMAIN up : up[i].of = m
  /\ \A i \in DOMAIN up' : up'[i].of = m /\ up'[i].piece = 0
  /\ Asked' = {} /\ entries \subseteq LoginsOut(lost)

\* A login or a registration is handled while the client lives.
LEMMA HandledIsAwaited ==
  ASSUME SessionInv, UpInv, alive, NEW n \in Nat, Reads(n), n > 0, ServerParses(Take(up, n)),
         NEW m, m = up[1].of, m.kind \in Waits
  PROVE  Awaited(m)
<1>0. WaitInv /\ EntryInv
  BY DEF SessionInv
<1>1. /\ n >= 2 /\ up[1].piece = 1 /\ up[2] = [of |-> m, piece |-> 2] /\ 1 \in DOMAIN up
      /\ \A i \in DOMAIN up : i > 2 => m.no < up[i].of.no \/ (up[i].of = m /\ up[i].piece = 0)
  BY ParsedFacts
<1>2. 1 \in Asked
  BY <1>1, MarkFacts
<1>3. Idle /\ mainAt = m.kind /\ mainAt \in Waits /\ m.no = sentNo
  BY <1>0, <1>2 DEF WaitInv
<1>4. Answered = {} /\ serving = NoUser /\ readAt = "recv" /\ rwSem = 0
  BY <1>3 DEF Idle
<1>5. ~InMenu
  BY <1>0, <1>3, <1>4 DEF EntryInv, InMenu, Waits
<1>6. \A i : ~Accepts(i)
  BY <1>4 DEF Accepts
<1>7. ASSUME NEW i \in DOMAIN up, i > 2 PROVE up[i].of = m /\ up[i].piece = 0
  <2>1. up[i].of.no <= sentNo /\ up[i].of.no \in Int /\ sentNo \in Int
    BY UpTypes DEF UpInv
  <2> QED  BY <1>1, <1>3, <1>7, <2>1
<1>8. \A i \in DOMAIN up : up[i].of = m
  <2> SUFFICES ASSUME NEW i \in DOMAIN up PROVE up[i].of = m
    OBVIOUS
  <2>1. i = 1 \/ i = 2 \/ i > 2
    BY DEF UpInv
  <2> QED  BY <1>1, <1>7, <2>1
<1>9. ASSUME NEW i \in DOMAIN up' PROVE up'[i].of = m /\ up'[i].piece = 0
  <2>1. i + n \in DOMAIN up /\ up'[i] = up[i + n] /\ i + n > 2
    BY <1>1 DEF Reads
  <2> QED  BY <1>7, <2>1
<1>10. Asked' = {}
  BY <1>9, MarkFacts
<1>11. Arriving = {}
  BY <1>4, <1>5, <1>6, ArrivingFacts
<1>12. LoginsOut(RequestsIn(up)) = {}
  BY <1>3, <1>8, LogoutFacts, RequestsInFacts DEF Waits
<1>13. entries \subseteq LoginsOut(lost)
  BY <1>0, <1>11, <1>12 DEF EntryInv, EntryExplained
<1> QED  BY <1>3, <1>5, <1>6, <1>8, <1>9, <1>10, <1>13 DEF Awaited

\* A registration, or a login that is refused, is answered.
LEMMA RefuseKeepsSession ==
  ASSUME SessionInv, alive, ServerStep, NEW m, Awaited(m), NEW a, NEW k, Replies(a, k),
         a.kind = (IF m.kind = "reg" THEN "regAck" ELSE "loginAck"), a.kind = "loginAck" => ~a.ok,
         UNCHANGED <<serving, entries>>
  PROVE  SessionInv'
<1>0. /\ WaitInv /\ EntryInv /\ MessageInv /\ Idle /\ alive /\ alive'
      /\ UNCHANGED <<alive, mainAt, currentUser, isLoginSuccess, rwSem, readAt, connected, sentNo, shown>>
      /\ mainAt = m.kind /\ mainAt \in Waits /\ ~InMenu /\ Asked' = {}
  BY DEF SessionInv, ServerStep, Awaited
<1>L. LoginsOut(lost) \subseteq LoginsOut(lost')
  BY LostGrows DEF ServerStep
<1>1. Answered = {} /\ serving = NoUser /\ readAt = "recv" /\ rwSem = 0
  BY <1>0 DEF Idle
<1>2. a.kind \in Acks
  BY DEF Acks
<1>3. Answered' = {k}
  BY <1>1, <1>2, RepliesMarks
<1>4. k \in DOMAIN down' /\ down'[k].of = a
  BY DEF Replies
<1>5. WaitInv'
  BY <1>0, <1>1, <1>3, <1>4 DEF WaitInv
<1>6. \A i : ~Accepts(i)'
  BY <1>3, <1>4 DEF Accepts
<1>7. ~InMenu'
  BY <1>0 DEF InMenu
<1>8. EntryExplained'
  BY <1>L DEF EntryExplained, Awaited
<1>9. MenuUserHasEntry'
  BY <1>0 DEF MenuUserHasEntry, Waits
<1>10. \A i \in DOMAIN up' : up'[i].of.kind # "loginout"
  BY <1>0 DEF Awaited, Waits
<1>11. EntryInv'
  BY <1>0, <1>1, <1>6, <1>7, <1>8, <1>9, <1>10 DEF EntryInv, InMenu
<1>12. ASSUME NEW i \in DOMAIN down', down'[i].of.kind \in {"chat", "group"}
       PROVE  ForUser(i)'
  BY <1>6, <1>7 DEF ForUser
<1>13. MessageInv'
  BY <1>0, <1>L, <1>12 DEF MessageInv, ShownToOwner
<1> QED  BY <1>5, <1>11, <1>13 DEF SessionInv

\* A login is accepted: the entry is there before the answer.
LEMMA AcceptKeepsSession ==
  ASSUME SessionInv, alive, ServerStep, NEW m, Awaited(m), m.kind = "login", NEW u \in Users,
         serving' = u, entries' = entries \cup {u}, UNCHANGED down
  PROVE  SessionInv'
<1>0. /\ WaitInv /\ EntryInv /\ MessageInv /\ Idle /\ alive /\ alive'
      /\ UNCHANGED <<alive, mainAt, currentUser, isLoginSuccess, rwSem, readAt, connected, sentNo, shown>>
      /\ mainAt = "login" /\ ~InMenu /\ Asked' = {}
  BY DEF SessionInv, ServerStep, Awaited
<1>L. LoginsOut(lost) \subseteq LoginsOut(lost')
  BY LostGrows DEF ServerStep
<1>1. Answered = {} /\ serving = NoUser /\ readAt = "recv" /\ rwSem = 0
  BY <1>0 DEF Idle
<1>2. Answered' = {}
  BY <1>1 DEF Answered
<1>3. u # NoUser
  OBVIOUS
<1>4. WaitInv'
  BY <1>0, <1>1, <1>2, <1>3 DEF WaitInv, Waits
<1>5. \A i : ~Accepts(i)'
  BY <1>2 DEF Accepts
<1>6. ~InMenu'
  BY <1>0 DEF InMenu
<1>7. u \in Arriving'
  BY <1>3, ArrivingFacts
<1>8. EntryExplained'
  BY <1>L, <1>7 DEF EntryExplained, Awaited
<1>9. MenuUserHasEntry'
  BY <1>0 DEF MenuUserHasEntry
<1>10. \A i \in DOMAIN up' : up'[i].of.kind # "loginout"
  BY DEF Awaited
<1>11. EntryInv'
  BY <1>0, <1>1, <1>5, <1>6, <1>8, <1>9, <1>10 DEF EntryInv, InMenu
<1>12. ASSUME NEW i \in DOMAIN down', down'[i].of.kind \in {"chat", "group"}
       PROVE  ForUser(i)'
  BY <1>5, <1>6 DEF ForUser
<1>13. MessageInv'
  BY <1>0, <1>L, <1>12 DEF MessageInv, ShownToOwner
<1> QED  BY <1>4, <1>11, <1>13 DEF SessionInv

\* A loginout is handled: it was sent before whoever is logged in now asked for
\* it, so nobody is.
LEMMA LogoutKeepsSession ==
  ASSUME SessionInv, alive, NEW n \in Nat, Reads(n), NEW m, m.kind = "loginout", 1 \in DOMAIN up, up[1].of = m,
         RequestsIn(Take(up, n)) \subseteq {m} \cup lost', lost \subseteq lost',
         serving = NoUser, entries' = entries \ {m.who},
         UNCHANGED <<alive, mainAt, currentUser, isLoginSuccess, rwSem, readAt, connected, sentNo, shown, down, serving>>
  PROVE  SessionInv'
<1>0. WaitInv /\ EntryInv /\ MessageInv /\ alive /\ alive'
  BY DEF SessionInv
<1>L. LoginsOut(lost) \subseteq LoginsOut(lost')
  BY LostGrows
<1>1. mainAt # "main" /\ ~(mainAt = "login" /\ ~Idle)
  BY <1>0 DEF EntryInv
<1>2. Answered' = Answered /\ (Idle' <=> Idle)
  BY DEF Answered, Idle
<1>3. ~InMenu
  BY <1>0, <1>1 DEF InMenu, EntryInv, Idle
<1>4. \A i : ~Accepts(i)
  <2> SUFFICES ASSUME NEW i, Accepts(i) PROVE FALSE
    OBVIOUS
  <2>1. i \in Answered /\ down[i].of.kind = "loginAck" /\ Answered # {}
    BY DEF Accepts
  <2>2. ~Idle /\ mainAt \in Waits /\ mainAt # "reg"
    BY <1>0, <2>1 DEF WaitInv, Idle
  <2> QED  BY <1>1, <2>2 DEF Waits
<1>5. Arriving = {}
  BY <1>3, <1>4, ArrivingFacts
<1>6. \A i : ~Accepts(i)'
  BY <1>2, <1>4 DEF Accepts
<1>7. ~InMenu'
  BY <1>3 DEF InMenu
<1>8. ASSUME NEW i \in Asked' PROVE \E j \in Asked : up'[i] = up[j]
  BY MarkFacts DEF Reads
<1>9. WaitInv'
  <2>1. Asked' # {} => Asked # {}
    BY <1>8
  <2>2. \A i \in Asked' : up'[i].of.kind = mainAt /\ up'[i].of.no = sentNo
    BY <1>0, <1>8 DEF WaitInv
  <2> QED  BY <1>0, <1>2, <2>1, <2>2 DEF WaitInv
<1>10. EntryExplained'
  <2> SUFFICES ASSUME NEW u \in entries, u # m.who
               PROVE  u \in LoginsOut(RequestsIn(up')) \/ u \in LoginsOut(lost')
    BY DEF EntryExplained
  <2>1. u \in LoginsOut(RequestsIn(up)) \/ u \in LoginsOut(lost)
    BY <1>0, <1>5 DEF EntryInv, EntryExplained
  <2>2. CASE u \in LoginsOut(RequestsIn(up))
    <3>1. PICK x \in RequestsIn(up) : x.kind = "loginout" /\ u = x.who
      BY <2>2, LogoutFacts
    <3>2. x \in RequestsIn(Take(up, n)) \/ x \in RequestsIn(up')
      BY ReadsSplits
    <3>3. x \in lost' \/ x \in RequestsIn(up')
      BY <3>1, <3>2
    <3> QED  BY <3>1, <3>3, LogoutFacts
  <2> QED  BY <1>L, <2>1, <2>2
<1>11. MenuUserHasEntry'
  BY <1>1 DEF MenuUserHasEntry
<1>12. EntryInv'
  BY <1>0, <1>1, <1>2, <1>6, <1>7, <1>10, <1>11 DEF EntryInv, InMenu
<1>13. ASSUME NEW i \in DOMAIN down', down'[i].of.kind \in {"chat", "group"}
       PROVE  ForUser(i)'
  BY <1>6, <1>7 DEF ForUser
<1>14. MessageInv'
  BY <1>0, <1>L, <1>13 DEF MessageInv, ShownToOwner
<1> QED  BY <1>9, <1>12, <1>14 DEF SessionInv

\* The answer to an accepted login follows its entry.
LEMMA LoginAnswerKeepsSession ==
  ASSUME SessionInv, DownInv, alive, NEW a, NEW k, Replies(a, k), a.kind = "loginAck", a.ok, a.who = serving,
         serving # NoUser, serving' = NoUser,
         UNCHANGED <<alive, mainAt, currentUser, isLoginSuccess, rwSem, readAt, connected, sentNo, shown,
                     up, lost, entries>>
  PROVE  SessionInv'
<1>0. /\ WaitInv /\ EntryInv /\ MessageInv /\ alive /\ alive' /\ serving \in entries
      /\ mainAt = "login" /\ Answered = {} /\ readAt = "recv" /\ rwSem = 0 /\ ~Idle /\ Asked = {}
  BY DEF SessionInv, WaitInv, EntryInv, Idle
<1>1. Answered' = {k}
  BY <1>0, RepliesMarks DEF Acks
<1>2. k \in DOMAIN down' \ DOMAIN down /\ down'[k].of = a /\ \A i \in DOMAIN down : i < k
  BY DEF Replies
<1>3. Asked' = {}
  BY <1>0 DEF Asked
<1>4. WaitInv'
  BY <1>0, <1>1, <1>2, <1>3 DEF WaitInv, Waits
<1>5. ~InMenu /\ ~InMenu'
  BY <1>0 DEF InMenu, EntryInv
<1>6. \A i : Accepts(i)' <=> i = k
  BY <1>1, <1>2 DEF Accepts
<1>7. \A i : ~Accepts(i)
  BY <1>0 DEF Accepts
<1>8. serving \in Arriving'
  BY <1>2, <1>6, ArrivingFacts
<1>9. EntryExplained'
  <2>1. \A u \in Arriving : u = serving
    BY <1>5, <1>7, ArrivingFacts
  <2> QED  BY <1>0, <1>8, <2>1 DEF EntryInv, EntryExplained
<1>10. MenuUserHasEntry'
  BY <1>0 DEF MenuUserHasEntry
<1>11. EntryInv'
  BY <1>0, <1>2, <1>5, <1>6, <1>9, <1>10 DEF EntryInv, InMenu
<1>12. ASSUME NEW i \in DOMAIN down', down'[i].of.kind \in {"chat", "group"}
       PROVE  ForUser(i)'
  <2>1. i \in DOMAIN down
    BY <1>12 DEF Replies
  <2>2. i < k /\ i \in Int /\ k \in Int
    BY <1>2, <2>1 DEF DownInv, Replies
  <2>3. ~(k < i)
    BY <2>2
  <2> QED  BY <1>5, <1>6, <2>3 DEF ForUser
<1>13. MessageInv'
  BY <1>0, <1>12 DEF MessageInv, ShownToOwner
<1> QED  BY <1>4, <1>11, <1>13 DEF SessionInv


\* At most one user is or is being logged in.
LEMMA OneArrives ==
  ASSUME SessionInv, alive
  PROVE  /\ InMenu => serving = NoUser /\ \A j : ~Accepts(j)
         /\ serving # NoUser => \A j : ~Accepts(j)
         /\ \A i, j : Accepts(i) /\ Accepts(j) => i = j
<1>0. WaitInv /\ EntryInv
  BY DEF SessionInv
<1>1. Answered = {} => \A j : ~Accepts(j)
  BY DEF Accepts
<1>2. ASSUME InMenu PROVE serving = NoUser /\ Answered = {}
  <2>1. CASE mainAt = "main"
    BY <1>0, <2>1 DEF WaitInv, Idle, Waits
  <2>2. CASE mainAt = "login" /\ isLoginSuccess
    <3>1. readAt = "post" \/ rwSem = 1
      BY <1>0, <2>2 DEF EntryInv
    <3> QED  BY <1>0, <3>1 DEF WaitInv
  <2> QED  BY <1>2, <2>1, <2>2 DEF InMenu
<1>3. \A i, j : Accepts(i) /\ Accepts(j) => i = j
  BY <1>0 DEF Accepts, WaitInv
<1>4. serving # NoUser => Answered = {}
  BY <1>0 DEF WaitInv
<1> QED  BY <1>1, <1>2, <1>3, <1>4

\* A message to the holder of an entry finds him in the main menu, unless his
\* loginout was lost.
LEMMA EntryFindsUser ==
  ASSUME SessionInv, alive, NEW u \in entries
  PROVE  \/ u \in LoginsOut(lost)
         \/ (InMenu => u = currentUser) /\ \A j \in DOMAIN down : Accepts(j) => down[j].of.who = u
<1>0. WaitInv /\ EntryInv
  BY DEF SessionInv
<1>1. u \in Arriving \/ u \in LoginsOut(RequestsIn(up)) \/ u \in LoginsOut(lost)
  BY <1>0 DEF EntryInv, EntryExplained
<1>2. CASE u \in Arriving
  BY <1>2, ArrivingFacts, OneArrives
<1>3. CASE u \in LoginsOut(RequestsIn(up))
  <2>1. \E i \in DOMAIN up : up[i].of.kind = "loginout"
    BY <1>3, LogoutFacts, RequestsInFacts
  <2>2. mainAt # "main" /\ ~(mainAt = "login" /\ ~Idle)
    BY <1>0, <2>1 DEF EntryInv
  <2>3. ~InMenu
    BY <1>0, <2>2 DEF InMenu, EntryInv, Idle
  <2>4. ASSUME NEW i, Accepts(i) PROVE FALSE
    <3>1. i \in Answered /\ down[i].of.kind = "loginAck" /\ Answered # {}
      BY <2>4 DEF Accepts
    <3>2. ~Idle /\ mainAt \in Waits /\ mainAt # "reg"
      BY <1>0, <3>1 DEF WaitInv, Idle
    <3> QED  BY <2>2, <3>2 DEF Waits
  <2> QED  BY <2>3, <2>4
<1> QED  BY <1>1, <1>2, <1>3

\* Answer a was written, if the client is still there to get it.
Replied(a, kind, who, ok) ==
  /\ a \in Answers /\ Named(a) /\ DownInv'
  /\ a.kind = kind /\ a.who = who /\ a.ok = ok
  /\ ~alive => down' = down
  /\ alive => \E k : Replies(a, k)

\* A reply is an answer of its kind.
LEMMA ReplyFacts ==
  ASSUME DownInv, alive \in BOOLEAN,
         NEW kind \in {"loginAck", "regAck", "chatAck", "chat", "group"}, NEW who \in Users \cup {NoUser},
         NEW ok \in BOOLEAN, NEW size \in {2, BufferPieces + 1}, ReplyOfSize(kind, who, ok, size),
         kind \in {"chat", "group"} \/ (kind = "loginAck" /\ ok) => who \in Users
  PROVE  \E a : Replied(a, kind, who, ok)
<1> DEFINE a == [kind |-> kind, who |-> who, ok |-> ok, size |-> size]
<1>1. a \in Answers /\ Named(a) /\ a.kind = kind /\ a.who = who /\ a.ok = ok
  BY DEF Answers, Named
<1>2. down' = IF alive THEN down \o AnswerPieces(a) ELSE down
  BY DEF ReplyOfSize, Answer
<1> HIDE DEF a
<1>3. CASE alive
  <2>1. PICK k : Replies(a, k)
    BY <1>1, <1>2, <1>3, ReplyIsReplies DEF DownInv
  <2>2. DownInv'
    BY <1>1, <2>1, RepliesKeepsDown
  <2> QED  BY <1>1, <1>3, <2>1, <2>2 DEF Replied
<1>4. CASE ~alive
  <2>1. DownInv' /\ down' = down
    BY <1>2, <1>4 DEF DownInv
  <2> QED  BY <1>1, <1>4, <2>1 DEF Replied
<1> QED  BY <1>3, <1>4

\* A reply that is not waited for, and a message to whom it finds.
LEMMA RepliesIsWritten ==
  ASSUME DownInv, NEW a, NEW k, Replies(a, k), a.kind \notin Acks,
         UNCHANGED <<mainAt, isLoginSuccess, currentUser>>,
         \/ a.kind \notin {"chat", "group"}
         \/ a.who \in LoginsOut(lost)
         \/ (InMenu => a.who = currentUser) /\ \A j \in DOMAIN down : Accepts(j) => down[j].of.who = a.who
  PROVE  Written
<1>1. Answered' = Answered
  BY RepliesMarks
<1>2. \A j : Accepts(j)' <=> Accepts(j) /\ j \in DOMAIN down
  BY <1>1, MarkFacts DEF Accepts, Replies
<1>3. InMenu' <=> InMenu
  BY DEF InMenu
<1>4. DOMAIN down' \subseteq Nat
  BY DEF Replies
<1>5. ASSUME NEW i \in DOMAIN down' \ DOMAIN down, down'[i].of.kind \in {"chat", "group"}
      PROVE  down'[i].of.who \in LoginsOut(lost) \/ ForUser(i)'
  <2>1. down'[i].of = a
    BY DEF Replies
  <2>2. ASSUME \A j \in DOMAIN down : Accepts(j) => down[j].of.who = a.who, NEW j \in DOMAIN down', Accepts(j)'
        PROVE  down'[i].of.who = down'[j].of.who
    BY <1>2, <2>1, <2>2 DEF Replies
  <2> QED  BY <1>3, <1>5, <2>1, <2>2 DEF ForUser
<1> QED  BY <1>1, <1>4, <1>5 DEF Written, Replies

\* Nothing is taken from the stream to the server.
LEMMA QuietIsServerStep ==
  ASSUME UNCHANGED <<up, lost, alive, mainAt, currentUser, isLoginSuccess, rwSem, readAt, connected, sentNo, shown>>
  PROVE  ServerStep
BY DEF ServerStep

\* A message of another client is written.
LEMMA PushKeeps ==
  ASSUME SessionInv, DownInv, NEW u \in Users, Push(u)
  PROVE  SessionInv' /\ DownInv'
<1> USE DEF serverVars, clientVars
<1>0. PICK kind \in {"chat", "group"}, ok \in BOOLEAN, size \in {2, BufferPieces + 1} :
        ReplyOfSize(kind, u, ok, size)
  BY DEF Push, Reply
<1>1. ServerStep /\ UNCHANGED <<serving, entries, mainAt, isLoginSuccess, currentUser>> /\ u \in entries
  BY QuietIsServerStep DEF Push
<1>2. alive \in BOOLEAN
  BY DEF SessionInv, WaitInv
<1>3. PICK a : Replied(a, kind, u, ok)
  <2>1. kind \in {"loginAck", "regAck", "chatAck", "chat", "group"} /\ u \in Users \cup {NoUser}
    OBVIOUS
  <2> QED  BY <1>0, <1>2, <2>1, ReplyFacts
<1>4. Written
  <2>1. CASE ~alive
    BY <1>3, <2>1, SilentIsWritten DEF Replied
  <2>2. CASE alive
    <3>1. PICK k : Replies(a, k)
      BY <1>3, <2>2 DEF Replied
    <3>2. a.kind \notin Acks
      BY <1>3 DEF Acks, Replied
    <3> QED  BY <1>1, <1>3, <2>2, <3>1, <3>2, EntryFindsUser, RepliesIsWritten DEF Replied
  <2> QED  BY <1>2, <2>1, <2>2
<1> QED  BY <1>1, <1>3, <1>4, WrittenKeepsSession DEF Replied

\* The answer to an accepted login is written, if the client is still there.
LEMMA LoginAnswerKeeps ==
  ASSUME SessionInv, DownInv, LoginAnswer
  PROVE  SessionInv' /\ DownInv'
<1> USE DEF clientVars
<1>0. PICK size \in {2, BufferPieces + 1} : ReplyOfSize("loginAck", serving, TRUE, size)
  BY DEF LoginAnswer
<1>1. alive \in BOOLEAN /\ serving # NoUser /\ serving \in Users /\ WaitInv /\ EntryInv
  BY DEF SessionInv, WaitInv, LoginAnswer
<1>2. PICK a : Replied(a, "loginAck", serving, TRUE)
  <2>1. PICK kind \in {"loginAck", "regAck", "chatAck", "chat", "group"}, u \in Users \cup {NoUser},
             ok \in BOOLEAN :
          kind = "loginAck" /\ u = serving /\ ok = TRUE /\ ReplyOfSize(kind, u, ok, size) /\ u \in Users
    BY <1>0, <1>1
  <2>2. \E a : Replied(a, kind, u, ok)
    BY <1>1, <2>1, ReplyFacts
  <2> QED  BY <2>1, <2>2
<1>3. /\ serving' = NoUser
      /\ UNCHANGED <<alive, mainAt, currentUser, isLoginSuccess, rwSem, readAt, connected, sentNo, shown, up, lost, entries>>
  BY DEF LoginAnswer
<1>4. CASE alive
  <2>1. PICK k : Replies(a, k)
    BY <1>2, <1>4 DEF Replied
  <2> QED  BY <1>1, <1>2, <1>3, <1>4, <2>1, LoginAnswerKeepsSession DEF Replied
<1>5. CASE ~alive
  BY <1>1, <1>2, <1>3, <1>5, StoppedKeepsSession DEF Stopped, EntryInv, MenuUserHasEntry, Replied
<1> QED  BY <1>1, <1>4, <1>5

\* The connection of a client that is gone is closed.
LEMMA ClientQuitKeepsSession ==
  ASSUME SessionInv, clientQuitEcption
  PROVE  SessionInv'
<1> USE DEF clientVars
<1>1. /\ Stopped /\ alive' \in BOOLEAN /\ serving' = NoUser /\ connected' = FALSE /\ up' = <<>> /\ lost' = lost
  BY DEF clientQuitEcption, Stopped, SessionInv, WaitInv
<1>2. DOMAIN up' = {}
  BY <1>1
<1>3. entries' \subseteq Users
  BY DEF clientQuitEcption, SessionInv, EntryInv
<1> QED  BY <1>1, <1>2, <1>3, StoppedKeepsSession


\* The texts of a read that no handler gets.
LEMMA LoseKeepsSession ==
  ASSUME SessionInv, DownInv, NEW n \in Nat, Reads(n), lost' = lost \cup RequestsIn(Take(up, n)),
         UNCHANGED <<clientVars, connected, sentNo, shown, down, serving, entries>>
  PROVE  SessionInv' /\ DownInv'
<1> USE DEF clientVars
<1>1. ServerStep
  <2>1. PICK S : S = {}
    OBVIOUS
  <2>2. RequestsIn(Take(up, n)) \subseteq S \cup lost' /\ \A m \in S : m.kind # "loginout"
    BY <2>1
  <2> QED  BY <2>2, ReadIsServerStep
<1>2. Written
  BY SilentIsWritten
<1> QED  BY <1>1, <1>2, WrittenKeepsSession DEF DownInv

\* A handler gets request m, the first text of what was read.
Handled(n, m) ==
  /\ Reads(n) /\ n > 0 /\ ServerParses(Take(up, n)) /\ m = up[1].of /\ serving = NoUser
  /\ lost' = lost \cup (RequestsIn(Take(up, n)) \ {m})
  /\ UNCHANGED <<clientVars, connected, sentNo, shown>>

\* The login of a client that is gone is entered all the same.
LEMMA LoginHandledKeeps ==
  ASSUME SessionInv, UpInv, DownInv, NEW n \in Nat, NEW m, Handled(n, m), m.kind = "login", login(m.who)
  PROVE  SessionInv' /\ DownInv'
<1> USE DEF clientVars
<1>0. alive \in BOOLEAN /\ WaitInv /\ EntryInv /\ Reads(n)
  BY DEF SessionInv, WaitInv, Handled
<1>1. ServerStep
  <2>1. PICK S : S = {m}
    OBVIOUS
  <2>2. RequestsIn(Take(up, n)) \subseteq S \cup lost' /\ \A x \in S : x.kind # "loginout"
    BY <2>1 DEF Handled
  <2> QED  BY <1>0, <2>2, ReadIsServerStep DEF Handled
<1>2. m \in Requests /\ m.who \in Users
  BY ParsedFacts DEF Handled, Addressed
<1>3. alive => Awaited(m)
  BY HandledIsAwaited DEF Handled, Waits
<1>4. CASE Reply("loginAck", NoUser, FALSE) /\ UNCHANGED <<serving, entries>>
  <2>1. PICK kind \in {"loginAck", "regAck", "chatAck", "chat", "group"}, u \in Users \cup {NoUser},
             ok \in BOOLEAN, size \in {2, BufferPieces + 1} :
          kind = "loginAck" /\ u = NoUser /\ ok = FALSE /\ ReplyOfSize(kind, u, ok, size)
    BY <1>4 DEF Reply
  <2>2. PICK a : Replied(a, kind, u, ok)
    BY <1>0, <2>1, ReplyFacts
  <2>3. CASE alive
    <3>1. PICK k : Replies(a, k)
      BY <2>2, <2>3 DEF Replied
    <3>2. a.kind = "loginAck" /\ ~a.ok /\ DownInv'
      BY <2>1, <2>2 DEF Replied
    <3>3. a.kind = (IF m.kind = "reg" THEN "regAck" ELSE "loginAck") /\ (a.kind = "loginAck" => ~a.ok)
      BY <3>2
    <3> QED  BY <1>1, <1>3, <1>4, <2>3, <3>1, <3>2, <3>3, RefuseKeepsSession
  <2>4. CASE ~alive
    BY <1>1, <1>4, <2>2, <2>4, SilentIsWritten, WrittenKeepsSession DEF Replied
  <2> QED  BY <1>0, <2>3, <2>4
<1>5. CASE entries' = entries \cup {m.who} /\ serving' = m.who /\ UNCHANGED down
  <2>1. CASE alive
    BY <1>1, <1>2, <1>3, <1>5, <2>1, AcceptKeepsSession DEF DownInv
  <2>2. CASE ~alive
    <3>1. mainAt = "main" => \A i \in DOMAIN up' : up'[i].of.kind # "loginout"
      BY <1>0, <1>1 DEF EntryInv, ServerStep
    <3>2. mainAt = "main" /\ connected' => currentUser \in entries'
      BY <1>0, <1>1, <1>5 DEF EntryInv, ServerStep, MenuUserHasEntry
    <3>3. entries' \subseteq Users /\ lost \subseteq lost'
      BY <1>0, <1>1, <1>2, <1>5 DEF EntryInv, ServerStep
    <3>4. Stopped /\ alive' \in BOOLEAN
      BY <1>0, <1>1, <2>2 DEF Stopped, ServerStep
    <3>5. serving' \in Users \cup {NoUser} /\ serving' \in entries'
      BY <1>2, <1>5
    <3> QED  BY <1>5, <3>1, <3>2, <3>3, <3>4, <3>5, StoppedKeepsSession DEF DownInv
  <2> QED  BY <1>0, <2>1, <2>2
<1> QED  BY <1>4, <1>5 DEF login

\* A loginout.
LEMMA LogoutHandledKeeps ==
  ASSUME SessionInv, UpInv, DownInv, NEW n \in Nat, NEW m, Handled(n, m), m.kind = "loginout", loginOut(m.who)
  PROVE  SessionInv' /\ DownInv'
<1> USE DEF clientVars
<1>0. alive \in BOOLEAN /\ WaitInv /\ EntryInv /\ Reads(n) /\ entries' = entries \ {m.who} /\ UNCHANGED <<serving, down>>
  BY DEF SessionInv, WaitInv, Handled, loginOut
<1>1. 1 \in DOMAIN up /\ up[1].of = m
  BY ParsedFacts DEF Handled
<1>2. RequestsIn(Take(up, n)) \subseteq {m} \cup lost' /\ lost \subseteq lost'
  BY DEF Handled
<1>3. CASE alive
  BY <1>0, <1>1, <1>2, <1>3, LogoutKeepsSession DEF Handled, DownInv
<1>4. CASE ~alive
  <2>1. mainAt # "main"
    BY <1>0, <1>1 DEF EntryInv
  <2>2. Stopped /\ alive' \in BOOLEAN /\ serving' = NoUser /\ entries' \subseteq Users
    BY <1>0, <1>4 DEF Stopped, Handled, EntryInv
  <2> QED  BY <1>0, <1>2, <2>1, <2>2, StoppedKeepsSession DEF DownInv
<1> QED  BY <1>0, <1>3, <1>4

\* A registration, a chat and the requests that are not answered.
LEMMA OtherHandledKeeps ==
  ASSUME SessionInv, UpInv, DownInv, NEW n \in Nat, NEW m, Handled(n, m), UNCHANGED <<serving, entries>>,
         \/ m.kind = "reg" /\ \E ok \in BOOLEAN : Reply("regAck", NoUser, ok)
         \/ m.kind = "chat" /\ \E ok \in BOOLEAN : Reply("chatAck", NoUser, ok)
         \/ m.kind = "other" /\ UNCHANGED down
  PROVE  SessionInv' /\ DownInv'
<1> USE DEF clientVars
<1>0. alive \in BOOLEAN /\ Reads(n)
  BY DEF SessionInv, WaitInv, Handled
<1>1. ServerStep
  <2>1. PICK S : S = {m}
    OBVIOUS
  <2>2. RequestsIn(Take(up, n)) \subseteq S \cup lost' /\ \A x \in S : x.kind # "loginout"
    BY <2>1 DEF Handled
  <2> QED  BY <1>0, <2>2, ReadIsServerStep DEF Handled
<1>2. CASE m.kind = "other" /\ UNCHANGED down
  BY <1>1, <1>2, SilentIsWritten, WrittenKeepsSession DEF DownInv
<1>3. CASE m.kind \in {"reg", "chat"}
  <2>1. PICK kind \in {"loginAck", "regAck", "chatAck", "chat", "group"}, u \in Users \cup {NoUser},
             ok \in BOOLEAN, size \in {2, BufferPieces + 1} :
          /\ kind = (IF m.kind = "reg" THEN "regAck" ELSE "chatAck") /\ u = NoUser
          /\ ReplyOfSize(kind, u, ok, size)
    BY <1>3 DEF Reply
  <2>2. PICK a : Replied(a, kind, u, ok)
    <3>1. ~(kind \in {"chat", "group"} \/ (kind = "loginAck" /\ ok))
      BY <2>1
    <3> QED  BY <1>0, <2>1, <3>1, ReplyFacts
  <2>3. DownInv' /\ a.kind = kind /\ (~alive => down' = down) /\ (alive => \E k : Replies(a, k))
    BY <2>2 DEF Replied
  <2>4. CASE ~alive
    BY <1>1, <2>3, <2>4, SilentIsWritten, WrittenKeepsSession
  <2>5. CASE alive /\ m.kind = "reg"
    <3>1. PICK k : Replies(a, k)
      BY <2>3, <2>5
    <3>2. Awaited(m)
      BY <2>5, HandledIsAwaited DEF Handled, Waits
    <3>3. a.kind = (IF m.kind = "reg" THEN "regAck" ELSE "loginAck") /\ (a.kind = "loginAck" => ~a.ok)
      BY <2>1, <2>3, <2>5
    <3> QED  BY <1>1, <2>3, <2>5, <3>1, <3>2, <3>3, RefuseKeepsSession
  <2>6. CASE alive /\ m.kind = "chat"
    <3>1. PICK k : Replies(a, k)
      BY <2>3, <2>6
    <3>2. a.kind \notin Acks /\ a.kind \notin {"chat", "group"}
      BY <2>1, <2>3, <2>6 DEF Acks
    <3>3. Written
      BY <3>1, <3>2, RepliesIsWritten DEF Handled
    <3> QED  BY <1>1, <2>3, <3>3, WrittenKeepsSession
  <2> QED  BY <1>0, <1>3, <2>4, <2>5, <2>6
<1> QED  BY <1>2, <1>3

\* Whatever the server reads, it keeps the invariant.
LEMMA OnMessageKeeps ==
  ASSUME ClientInv, NEW n \in 1..Len(up), onMessage(n)
  PROVE  ClientInv'
<1> USE DEF clientVars
<1>0. UpInv /\ DownInv /\ FateInv /\ SessionInv /\ RestType /\ n \in Nat /\ n > 0
  BY DEF ClientInv
<1>1. up' = Drop(up, n) /\ UNCHANGED <<clientVars, connected, sentNo, shown, pushes>> /\ serving = NoUser
  BY DEF onMessage
<1>2. Reads(n)
  BY <1>0, <1>1, ReadIsReads DEF UpInv
<1>3. UpInv'
  BY <1>0, <1>1, <1>2, ReadKeepsUp
<1>4. CASE /\ ~ServerParses(Take(up, n)) /\ lost' = lost \cup RequestsIn(Take(up, n))
           /\ UNCHANGED <<down, serving, entries, online, registered, handled>>
  <2>1. FateInv'
    BY <1>0, <1>1, <1>2, <1>4, LoseKeepsFate
  <2>2. SessionInv' /\ DownInv'
    BY <1>0, <1>1, <1>2, <1>4, LoseKeepsSession
  <2> QED  BY <1>0, <1>1, <1>3, <1>4, <2>1, <2>2 DEF ClientInv, RestType
<1>5. CASE /\ ServerParses(Take(up, n)) /\ Dispatch(Take(up, n)[1].of)
           /\ handled' = Append(handled, Take(up, n)[1].of.no)
           /\ lost' = lost \cup (RequestsIn(Take(up, n)) \ {Take(up, n)[1].of})
  <2>1. PICK m : m = up[1].of
    OBVIOUS
  <2>2. m = Take(up, n)[1].of /\ m \in Requests /\ Addressed(m)
    BY <1>0, <1>2, <1>5, <2>1, ParsedFacts
  <2>3. /\ Dispatch(m) /\ handled' = Append(handled, m.no)
        /\ lost' = lost \cup (RequestsIn(Take(up, n)) \ {m})
    BY <1>5, <2>2
  <2>4. FateInv'
    BY <1>0, <1>1, <1>2, <1>5, <2>1, <2>3, HandleKeepsFate
  <2>5. Handled(n, m)
    BY <1>0, <1>1, <1>2, <1>5, <2>1, <2>3 DEF Handled
  <2>6. CASE m.kind = "login" /\ login(m.who) /\ UNCHANGED registered
    <3>1. online' \subseteq Users
      BY <1>0, <2>2, <2>6 DEF RestType, login, Addressed
    <3> QED  BY <1>0, <1>1, <1>3, <2>4, <2>5, <2>6, <3>1, LoginHandledKeeps DEF ClientInv, RestType
  <2>7. CASE m.kind = "loginout" /\ loginOut(m.who) /\ UNCHANGED registered
    <3>1. online' \subseteq Users
      BY <1>0, <2>7 DEF RestType, loginOut
    <3> QED  BY <1>0, <1>1, <1>3, <2>4, <2>5, <2>7, <3>1, LogoutHandledKeeps DEF ClientInv, RestType
  <2>8. CASE m.kind = "reg" /\ reg(m.who) /\ UNCHANGED <<serving, entries, online>>
    <3>1. registered' \subseteq Names /\ \E ok \in BOOLEAN : Reply("regAck", NoUser, ok)
      BY <1>0, <2>2, <2>8 DEF RestType, reg, UserInsert, Addressed
    <3> QED  BY <1>0, <1>1, <1>3, <2>4, <2>5, <2>8, <3>1, OtherHandledKeeps DEF ClientInv, RestType
  <2>9. CASE /\ m.kind = "chat" /\ \E ok \in BOOLEAN : Reply("chatAck", NoUser, ok)
             /\ UNCHANGED <<serving, entries, online, registered>>
    BY <1>0, <1>1, <1>3, <2>4, <2>5, <2>9, OtherHandledKeeps DEF ClientInv, RestType
  <2>10. CASE m.kind = "other" /\ UNCHANGED <<down, serving, entries, online, registered>>
    BY <1>0, <1>1, <1>3, <2>4, <2>5, <2>10, OtherHandledKeeps DEF ClientInv, RestType
  <2> QED  BY <2>3, <2>6, <2>7, <2>8, <2>9, <2>10 DEF Dispatch
<1> QED  BY <1>4, <1>5 DEF onMessage


-----------------------------------------------------------------------------
(* The whole.                                                              *)

\* A request is sent.
LEMMA SendKeeps ==
  ASSUME ClientInv, NEW kind, NEW who, SendRequest(kind, who),
         \/ /\ mainAt = "top" /\ kind = "login" /\ who \in Users /\ isLoginSuccess' = FALSE /\ mainAt' = "login"
         \/ mainAt = "top" /\ kind = "reg" /\ who \in Names /\ mainAt' = "reg" /\ UNCHANGED isLoginSuccess
         \/ /\ mainAt = "main" /\ kind \in {"chat", "other"} /\ who = currentUser
            /\ UNCHANGED <<mainAt, isLoginSuccess>>
         \/ /\ mainAt = "main" /\ kind = "loginout" /\ who = currentUser /\ mainAt' = "top"
            /\ UNCHANGED isLoginSuccess
  PROVE  ClientInv'
<1> USE DEF serverVars
<1>0. UpInv /\ DownInv /\ FateInv /\ SessionInv /\ RestType /\ EntryInv
  BY DEF ClientInv, SessionInv
<1> DEFINE m == [kind |-> kind, who |-> who, no |-> sentNo + 1]
<1>1. /\ alive /\ sentNo < MaxRequests /\ sentNo' = sentNo + 1 /\ up' = up \o RequestPieces(m)
      /\ UNCHANGED <<down, serverVars, alive, currentUser, rwSem, readAt, handled, lost, shown, pushes>>
  BY DEF SendRequest
<1>2. m.kind = kind /\ m.who = who /\ m.no = sentNo + 1
  OBVIOUS
<1>3. m \in Requests /\ Addressed(m)
  <2>1. sentNo + 1 \in 1..MaxRequests
    BY <1>0, <1>1 DEF UpInv
  <2>2. kind \in {"login", "reg", "loginout", "chat", "other"} /\ who \in Users \cup Names \cup {NoUser}
    BY <1>0 DEF EntryInv
  <2>3. m \in Requests
    BY <2>1, <2>2 DEF Requests
  <2> QED  BY <1>2, <2>3 DEF Addressed
<1> HIDE DEF m
<1>4. Sends(m)
  BY <1>0, <1>1, <1>3, SendIsSends DEF UpInv
<1>5. SendStep(m)
  BY <1>0, <1>1, <1>2, <1>4 DEF SendStep, Waits, EntryInv
<1>6. UpInv'
  BY <1>0, <1>1, <1>2, <1>3, <1>4, SendKeepsUp
<1>7. FateInv'
  BY <1>0, <1>1, <1>2, <1>3, <1>4, SendKeepsFate
<1>8. SessionInv'
  BY <1>0, <1>3, <1>5, SendKeepsSession
<1>9. DownInv' /\ RestType'
  BY <1>0, <1>1 DEF DownInv, RestType
<1> QED  BY <1>6, <1>7, <1>8, <1>9 DEF ClientInv

\* The client reads.
LEMMA RecvKeeps ==
  ASSUME ClientInv, NEW n \in 1..BufferPieces, Recv(n)
  PROVE  ClientInv'
<1> USE DEF serverVars
<1>0. /\ UpInv /\ DownInv /\ FateInv /\ SessionInv /\ RestType /\ n \in 1..Len(down) /\ n \in Nat
      /\ alive /\ readAt = "recv"
      /\ UNCHANGED <<mainAt, rwSem, up, serverVars, sentNo, handled, lost, pushes>>
  BY DEF ClientInv, Recv
<1>1. UpInv' /\ FateInv' /\ RestType'
  BY <1>0, QuietKeepsFate DEF RestType
<1>2. ASSUME NEW k \in 1..n, ClientParses(Take(down, n), k), Handle(Take(down, n)[k].of),
             down' = Drop(down, n), UNCHANGED alive
      PROVE  SessionInv' /\ DownInv'
  <2>1. Receives(n, k) /\ Take(down, n)[k] = down[k]
    BY <1>0, <1>2, ReadIsReceives DEF DownInv
  <2>2. ReceiveStep(n, k)
    BY <1>0, <1>2, <2>1 DEF ReceiveStep
  <2>3. DownInv'
    BY <1>0, <2>1, ReceivesKeepsDown
  <2>4. CASE down[k].of.kind \in Acks
    BY <1>0, <2>2, <2>3, <2>4, ReceiveAckKeepsSession
  <2>5. CASE down[k].of.kind \notin Acks
    BY <1>0, <2>2, <2>3, <2>5, ReceiveOtherKeepsSession
  <2> QED  BY <2>4, <2>5
<1>3. CASE Exit /\ UNCHANGED <<currentUser, isLoginSuccess, readAt, shown>>
  <2>1. Stopped
    BY <1>0, <1>3 DEF Stopped, Exit
  <2> QED  BY <1>0, <1>1, <1>3, <2>1, ExitKeepsDown, ExitKeepsSession DEF ClientInv
<1> QED  BY <1>1, <1>2, <1>3 DEF Recv, ClientInv

\* Nothing has happened yet.
LEMMA InitHolds == Init => ClientInv
<1> SUFFICES ASSUME Init PROVE ClientInv
  OBVIOUS
<1>0. /\ up = <<>> /\ down = <<>> /\ handled = <<>> /\ DOMAIN up = {} /\ DOMAIN down = {} /\ DOMAIN handled = {}
  BY DEF Init
<1>1. UpInv /\ DownInv
  BY <1>0 DEF Init, UpInv, DownInv
<1>2. RequestsIn(up) = {}
  BY <1>0, RequestsInFacts
<1>3. HandledInOrder
  <2>1. InFlight = {} /\ Range(handled) = {}
    BY <1>0, <1>2 DEF InFlight, Range
  <2>2. 1..sentNo = {} /\ {m.no : m \in lost} = {}
    BY DEF Init
  <2> QED  BY <1>0, <2>1, <2>2 DEF HandledInOrder
<1>4. FateInv
  BY <1>0, <1>3 DEF FateInv, Init
<1>5. Asked = {} /\ Answered = {}
  BY <1>0, MarkFacts
<1>6. Idle
  BY <1>5 DEF Idle, Init
<1>7. WaitInv
  BY <1>5, <1>6 DEF Init, WaitInv, Idle, Waits
<1>8. EntryInv
  BY <1>0 DEF Init, EntryInv, EntryExplained, MenuUserHasEntry
<1>9. MessageInv /\ RestType
  BY <1>0 DEF Init, MessageInv, ShownToOwner, RestType
<1> QED  BY <1>1, <1>4, <1>7, <1>8, <1>9 DEF ClientInv, SessionInv

\* Every step keeps the invariant.
LEMMA StepHolds == ClientInv /\ [Next]_vars => ClientInv'
<1> SUFFICES ASSUME ClientInv, [Next]_vars PROVE ClientInv'
  OBVIOUS
<1>0. UpInv /\ DownInv /\ FateInv /\ SessionInv /\ RestType
  BY DEF ClientInv
<1>1. ASSUME NEW u \in Users, SendLogin(u) PROVE ClientInv'
  BY <1>1, SendKeeps DEF SendLogin
<1>2. ASSUME NEW name \in Names, SendReg(name) PROVE ClientInv'
  BY <1>2, SendKeeps DEF SendReg
<1>3. CASE SendCommand
  BY <1>3, SendKeeps DEF SendCommand
<1>4. CASE loginout
  BY <1>4, SendKeeps DEF loginout
<1>5. CASE Wake
  <2>1. UpInv' /\ FateInv' /\ DownInv' /\ RestType'
    BY <1>0, <1>5, QuietKeepsFate DEF Wake, serverVars, DownInv, RestType
  <2> QED  BY <1>0, <1>5, <2>1, WakeKeepsSession DEF ClientInv
<1>6. CASE Post
  <2>1. UpInv' /\ FateInv' /\ DownInv' /\ RestType'
    BY <1>0, <1>6, QuietKeepsFate DEF Post, serverVars, DownInv, RestType
  <2> QED  BY <1>0, <1>6, <2>1, PostKeepsSession DEF ClientInv
<1>7. CASE Quit
  <2>1. UpInv' /\ FateInv' /\ RestType'
    BY <1>0, <1>7, QuietKeepsFate DEF Quit, serverVars, RestType
  <2>2. Exit /\ Stopped /\ UNCHANGED <<serving, entries, connected, up, lost>>
    BY <1>7 DEF Quit, Exit, Stopped, serverVars
  <2> QED  BY <1>0, <2>1, <2>2, ExitKeepsDown, ExitKeepsSession DEF ClientInv
<1>8. ASSUME NEW n \in 1..BufferPieces, Recv(n) PROVE ClientInv'
  BY <1>8, RecvKeeps
<1>9. ASSUME NEW n \in 1..Len(up), onMessage(n) PROVE ClientInv'
  BY <1>9, OnMessageKeeps
<1>10. CASE LoginAnswer
  <2>1. UpInv' /\ FateInv' /\ RestType'
    BY <1>0, <1>10, QuietKeepsFate DEF LoginAnswer, clientVars, RestType
  <2> QED  BY <1>0, <1>10, <2>1, LoginAnswerKeeps DEF ClientInv
<1>11. CASE clientQuitEcption
  <2>1. UpInv' /\ FateInv' /\ DownInv' /\ RestType'
    BY <1>0, <1>11, CloseKeepsFate DEF clientQuitEcption, clientVars, DownInv, RestType
  <2> QED  BY <1>0, <1>11, <2>1, ClientQuitKeepsSession DEF ClientInv
<1>12. CASE ServerExits
  <2>1. UpInv' /\ FateInv' /\ RestType'
    BY <1>0, <1>12, CloseKeepsFate DEF ServerExits, RestType
  <2> QED  BY <1>0, <1>12, <2>1, ExitKeepsDown, ServerExitsKeepsSession DEF ClientInv, ServerExits
<1>13. ASSUME NEW u \in Users, Push(u) PROVE ClientInv'
  <2>1. UpInv' /\ FateInv' /\ RestType'
    BY <1>0, <1>13, QuietKeepsFate DEF Push, clientVars, serverVars, RestType
  <2> QED  BY <1>0, <1>13, <2>1, PushKeeps DEF ClientInv
<1>14. ASSUME NEW u \in Users, PresenceExpires(u) PROVE ClientInv'
  <2>1. UpInv' /\ FateInv' /\ DownInv' /\ RestType'
    BY <1>0, <1>14, QuietKeepsFate DEF PresenceExpires, clientVars, DownInv, RestType
  <2>2. ServerStep /\ Written /\ UNCHANGED <<serving, entries>>
    BY <1>0, <1>14, QuietIsServerStep, SilentIsWritten DEF PresenceExpires, clientVars
  <2> QED  BY <1>0, <2>1, <2>2, WrittenKeepsSession DEF ClientInv
<1>15. CASE UNCHANGED vars
  <2>1. UpInv' /\ FateInv' /\ DownInv' /\ RestType'
    BY <1>0, <1>15, QuietKeepsFate DEF vars, clientVars, serverVars, DownInv, RestType
  <2>2. ServerStep /\ Written /\ UNCHANGED <<serving, entries>>
    BY <1>0, <1>15, QuietIsServerStep, SilentIsWritten DEF vars, clientVars, serverVars
  <2> QED  BY <1>0, <2>1, <2>2, WrittenKeepsSession DEF ClientInv
<1> QED  BY <1>1, <1>2, <1>3, <1>4, <1>5, <1>6, <1>7, <1>8, <1>9, <1>10, <1>11, <1>12, <1>13, <1>14, <1>15
         DEF Next, MainThread, ReadThread, Receive, Server, OnMessage, Environment

\* Every reachable state of the client and its connection is one of the invariant.
THEOREM ClientInvariant == Spec => []ClientInv
<1> QED  BY InitHolds, StepHolds, PTL DEF Spec

\* The variables of the client and its connection have their types; rwSem is a
\* binary semaphore: sem_post never runs ahead of sem_wait.
THEOREM ClientTypes == Spec => []TypeOK
<1>1. ClientInv => TypeOK
  BY DEF ClientInv, UpInv, DownInv, FateInv, SessionInv, WaitInv, EntryInv, MessageInv, RestType, TypeOK,
         RequestPiece, AnswerPiece
<1> QED  BY <1>1, ClientInvariant, PTL

\* A wait of the main thread is only ended by the answer to its own request,
\* however many requests were sent and however the streams were cut.
THEOREM AnswersMeetWaits == Spec => []AnswerMeetsWait
<1>1. ASSUME ClientInv PROVE AnswerMeetsWait
  <2> SUFFICES ASSUME alive PROVE AnswerMeetsWait
    BY DEF AnswerMeetsWait
  <2>0. WaitInv /\ UpInv
    BY <1>1 DEF ClientInv, SessionInv
  <2>1. \A i, j \in Asked : i = j
    <3>1. \A i, j \in Asked : ~(i < j)
      <4> SUFFICES ASSUME NEW i \in Asked, NEW j \in Asked, i < j PROVE FALSE
        OBVIOUS
      <4>1. i \in DOMAIN up /\ j \in DOMAIN up /\ up[i].of.no = sentNo /\ up[j].of.no = sentNo /\ up[j].piece = 1
        BY <2>0, MarkFacts DEF WaitInv
      <4>2. Before(up[i], up[j]) /\ sentNo \in Int
        BY <2>0, <4>1 DEF UpInv
      <4> QED  BY <4>1, <4>2 DEF Before
    <3>2. \A i \in Asked : i \in Int
      BY <2>0, MarkFacts, UpTypes
    <3> QED  BY <3>1, <3>2
  <2>2. \A S : (\A i, j \in S : i = j) => S = {} \/ \E x : S = {x}
    <3> SUFFICES ASSUME NEW S, \A i, j \in S : i = j, S # {} PROVE \E x : S = {x}
      OBVIOUS
    <3>1. PICK x : x \in S
      OBVIOUS
    <3>2. S = {x}
      BY <3>1
    <3> QED  BY <3>2
  <2>3. \A S : (\A i, j \in S : i = j) => Cardinality(S) = One(S # {})
    <3> SUFFICES ASSUME NEW S, \A i, j \in S : i = j PROVE Cardinality(S) = One(S # {})
      OBVIOUS
    <3>1. CASE S = {}
      <4>1. Cardinality(S) = 0
        BY <3>1, FS_EmptySet, Zenon
      <4> QED  BY <3>1, <4>1 DEF One
    <3>2. ASSUME NEW x, S = {x} PROVE Cardinality(S) = One(S # {})
      <4>1. Cardinality(S) = 1
        BY <3>2, FS_Singleton, Zenon
      <4>2. S # {}
        BY <3>2
      <4> QED  BY <4>1, <4>2 DEF One
    <3> QED  BY <2>2, <3>1, <3>2
  <2>4. Cardinality(Asked) = One(Asked # {}) /\ Cardinality(Answered) = One(Answered # {})
    BY <2>0, <2>1, <2>3 DEF WaitInv
  <2>5. Outstanding <= One(mainAt \in Waits)
    BY <2>0, <2>4 DEF Outstanding, One, WaitInv, Idle
  <2> QED  BY <2>0, <2>5 DEF AnswerMeetsWait, WaitInv
<1> QED  BY <1>1, ClientInvariant, PTL

\* Requests are handled at most once and in the order they were sent, and one that
\* is neither handled nor lost is still on its way, however the stream is cut.
THEOREM RequestsHandledInOrder == Spec => []HandledInOrder
<1>1. ClientInv => HandledInOrder
  BY DEF ClientInv, FateInv
<1> QED  BY <1>1, ClientInvariant, PTL

\* Who is in the main menu has an entry in userConnMap_ as long as the server is
\* there: no loginout of an earlier session removes it.
THEOREM MenuUsersHaveEntries == Spec => []MenuUserHasEntry
<1>1. ClientInv => MenuUserHasEntry
  BY DEF ClientInv, SessionInv, EntryInv
<1> QED  BY <1>1, ClientInvariant, PTL

\* An entry of a user who is not logged in is explained by a loginout that is on
\* its way or was lost.
THEOREM EntriesExplained == Spec => []EntryExplained
<1>1. ClientInv => EntryExplained
  BY DEF ClientInv, SessionInv, EntryInv
<1> QED  BY <1>1, ClientInvariant, PTL

\* A message shown in the main menu is for the user who is logged in, or for one
\* whose loginout was lost.
THEOREM MessagesShownToOwner == Spec => []ShownToOwner
<1>1. ClientInv => ShownToOwner
  BY DEF ClientInv, SessionInv, MessageInv
<1> QED  BY <1>1, ClientInvariant, PTL

===============================================================================
