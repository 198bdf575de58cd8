----------------------------- MODULE OfflineMessage -----------------------------
(***************************************************************************)
(* OfflineMessage::insert (offlinemessage.cpp): messages for users who are *)
(* not connected go to a table; what could not be written waits in         *)
(* failedQueue_, which every later insert tries to empty first.            *)
(* ChatService takes these steps inside oneChat, without the retry counter *)
(* and the wait for the mutex; here they are in full, taken by the IO      *)
(* threads of one node.  OfflineMessage::query and remove, which would     *)
(* read the table, are never called.                                       *)
(***************************************************************************)
EXTENDS Integers, Sequences, FiniteSets

CONSTANTS
  Threads,     \* IO threads
  NoThread,    \* queueMutex_ is free
  MaxMsgs,     \* bound: messages inserted
  TooLong,     \* messages longer than the column: their INSERT always throws
  NoConns,     \* bound: calls of getConnection that return nullptr
  Throws,      \* bound: statements that throw and have no effect
  LostReplies  \* bound: statements that throw although the server ran them

Msgs == 1..MaxMsgs

ASSUME OfflineAssumption ==
  /\ NoThread \notin Threads
  /\ MaxMsgs \in Nat /\ NoConns \in Nat /\ Throws \in Nat /\ LostReplies \in Nat
  /\ TooLong \subseteq Msgs

maxRetries == 3

VARIABLES
  at,           \* at[t]: where the insert of thread t stands
  msg,          \* msg[t]: the message it is for, 0 when there is none
  retryCount,   \* retryCount[t]
  queueMutex,   \* the thread that holds queueMutex_
  failedQueue,  \* failedQueue_
  table,        \* rows of OfflineMessage in the order of their ids
  nextMsg,      \* the next message
  returned,     \* messages whose insert returned
  earlier,      \* earlier[m]: messages whose insert had returned when m's began
  noConns, throws, lostReplies  \* what is left of the bounds

vars == <<at, msg, retryCount, queueMutex, failedQueue, table, nextMsg, returned,
          earlier, noConns, throws, lostReplies>>
budgetVars == <<noConns, throws, lostReplies>>

Init ==
  /\ at = [t \in Threads |-> "idle"]
  /\ msg = [t \in Threads |-> 0]
  /\ retryCount = [t \in Threads |-> 0]
  /\ queueMutex = NoThread
  /\ failedQueue = <<>> /\ table = <<>>
  /\ nextMsg = 1 /\ returned = {} /\ earlier = [m \in Msgs |-> {}]
  /\ noConns = NoConns /\ throws = Throws /\ lostReplies = LostReplies

Move(t, to) == at' = [at EXCEPT ![t] = to]

Insert(t) ==
  /\ at[t] = "idle" /\ nextMsg <= MaxMsgs
  /\ Move(t, "try")
  /\ msg' = [msg EXCEPT ![t] = nextMsg]
  /\ retryCount' = [retryCount EXCEPT ![t] = 0]
  /\ earlier' = [earlier EXCEPT ![nextMsg] = returned]
  /\ nextMsg' = nextMsg + 1
  /\ UNCHANGED <<queueMutex, failedQueue, table, returned, budgetVars>>

\* Mutant: the queue is left for later.
GetConnectionSkipsQueue(t) ==
  /\ at[t] = "try"
  /\ \/ Move(t, "own") /\ UNCHANGED <<retryCount, noConns>>
     \/ /\ noConns > 0 /\ noConns' = noConns - 1
        /\ retryCount' = [retryCount EXCEPT ![t] = @ + 1]
        /\ Move(t, IF retryCount[t] + 1 < maxRetries THEN "try" ELSE "queue")
  /\ UNCHANGED <<msg, queueMutex, failedQueue, table, nextMsg, returned, earlier, throws, lostReplies>>

\* Mutant: one attempt too many.
GetConnectionOnceMore(t) ==
  /\ at[t] = "try"
  /\ \/ Move(t, "lock") /\ UNCHANGED <<retryCount, noConns>>
     \/ /\ noConns > 0 /\ noConns' = noConns - 1
        /\ retryCount' = [retryCount EXCEPT ![t] = @ + 1]
        /\ Move(t, IF retryCount[t] + 1 <= maxRetries THEN "try" ELSE "queue")
  /\ UNCHANGED <<msg, queueMutex, failedQueue, table, nextMsg, returned, earlier, throws, lostReplies>>

\* The head of the loop.  Only a nullptr counts as a retry.
GetConnection(t) ==
  /\ at[t] = "try"
  /\ \/ Move(t, "lock") /\ UNCHANGED <<retryCount, noConns>>
     \/ /\ noConns > 0 /\ noConns' = noConns - 1
        /\ retryCount' = [retryCount EXCEPT ![t] = @ + 1]
        /\ Move(t, IF retryCount[t] + 1 < maxRetries THEN "try" ELSE "queue")
  /\ UNCHANGED <<msg, queueMutex, failedQueue, table, nextMsg, returned, earlier, throws, lostReplies>>

LockQueue(t) ==
  /\ at[t] = "lock" /\ queueMutex = NoThread
  /\ queueMutex' = t /\ Move(t, "drain")
  /\ UNCHANGED <<msg, retryCount, failedQueue, table, nextMsg, returned, earlier, budgetVars>>

\* executeUpdate for message m.
Stored(m) ==
  /\ m \notin TooLong /\ table' = Append(table, m) /\ UNCHANGED budgetVars
Thrown(m) ==
  /\ \/ m \in TooLong /\ UNCHANGED <<table, budgetVars>>
     \/ /\ m \notin TooLong /\ throws > 0 /\ throws' = throws - 1
        /\ UNCHANGED <<table, noConns, lostReplies>>
     \/ /\ m \notin TooLong /\ lostReplies > 0 /\ lostReplies' = lostReplies - 1
        /\ table' = Append(table, m) /\ UNCHANGED <<noConns, throws>>

\* Mutant: the item is popped before its statement runs.
DrainOnePopsFirst(t) ==
  /\ at[t] = "drain" /\ failedQueue # <<>>
  /\ failedQueue' = Tail(failedQueue)
  /\ \/ Stored(Head(failedQueue)) /\ UNCHANGED <<at, queueMutex>>
     \/ Thrown(Head(failedQueue)) /\ queueMutex' = NoThread /\ Move(t, "failed")
  /\ UNCHANGED <<msg, retryCount, nextMsg, returned, earlier>>

\* Mutant: the item is not popped.
DrainOneKeeps(t) ==
  /\ at[t] = "drain" /\ failedQueue # <<>> /\ Stored(Head(failedQueue))
  /\ UNCHANGED <<at, queueMutex, failedQueue, msg, retryCount, nextMsg, returned, earlier>>

\* Mutant: the exception leaves the mutex locked.
DrainOneKeepsLock(t) ==
  /\ at[t] = "drain" /\ failedQueue # <<>>
  /\ \/ /\ Stored(Head(failedQueue))
        /\ failedQueue' = Tail(failedQueue) /\ UNCHANGED at
     \/ /\ Thrown(Head(failedQueue))
        /\ Move(t, "failed") /\ UNCHANGED failedQueue
  /\ UNCHANGED <<queueMutex, msg, retryCount, nextMsg, returned, earlier>>

\* An item is popped after its INSERT returned; an exception leaves the loop and
\* the mutex, and the item stays at the front.
DrainOne(t) ==
  /\ at[t] = "drain" /\ failedQueue # <<>>
  /\ \/ /\ Stored(Head(failedQueue))
        /\ failedQueue' = Tail(failedQueue) /\ UNCHANGED <<at, queueMutex>>
     \/ /\ Thrown(Head(failedQueue))
        /\ queueMutex' = NoThread /\ Move(t, "failed") /\ UNCHANGED failedQueue
  /\ UNCHANGED <<msg, retryCount, nextMsg, returned, earlier>>

DrainDone(t) ==
  /\ at[t] = "drain" /\ failedQueue = <<>>
  /\ queueMutex' = NoThread /\ Move(t, "own")
  /\ UNCHANGED <<msg, retryCount, failedQueue, table, nextMsg, returned, earlier, budgetVars>>

InsertOwn(t) ==
  /\ at[t] = "own"
  /\ \/ Stored(msg[t]) /\ Move(t, "done")
     \/ Thrown(msg[t]) /\ Move(t, "failed")
  /\ UNCHANGED <<msg, retryCount, queueMutex, failedQueue, nextMsg, returned, earlier>>

\* The connection goes back; without success the loop starts over.
GiveBack(t) ==
  /\ \/ /\ at[t] = "failed" /\ Move(t, "try") /\ UNCHANGED <<msg, returned>>
     \/ /\ at[t] = "done" /\ Move(t, "idle")
        /\ returned' = returned \cup {msg[t]}
        /\ msg' = [msg EXCEPT ![t] = 0]
  /\ UNCHANGED <<retryCount, queueMutex, failedQueue, table, nextMsg, earlier, budgetVars>>

\* Mutant: the message is only logged.
QueueFailedDrops(t) ==
  /\ at[t] = "queue" /\ queueMutex = NoThread /\ Move(t, "idle")
  /\ returned' = returned \cup {msg[t]}
  /\ msg' = [msg EXCEPT ![t] = 0]
  /\ UNCHANGED <<retryCount, queueMutex, failedQueue, table, nextMsg, earlier, budgetVars>>

QueueFailed(t) ==
  /\ at[t] = "queue" /\ queueMutex = NoThread /\ Move(t, "idle")
  /\ failedQueue' = Append(failedQueue, msg[t])
  /\ returned' = returned \cup {msg[t]}
  /\ msg' = [msg EXCEPT ![t] = 0]
  /\ UNCHANGED <<retryCount, queueMutex, table, nextMsg, earlier, budgetVars>>

Step(t) == \/ GetConnection(t) \/ LockQueue(t) \/ DrainOne(t) \/ DrainDone(t)
           \/ InsertOwn(t) \/ GiveBack(t) \/ QueueFailed(t)

Next == \E t \in Threads : Insert(t) \/ Step(t)

Spec == Init /\ [][Next]_vars

\* Threads run, and the mutex is not always given to the others.
FairSpec == Spec /\ \A t \in Threads : WF_vars(Step(t)) /\ SF_vars(LockQueue(t)) /\ SF_vars(QueueFailed(t))

-----------------------------------------------------------------------------
(* Properties.                                                             *)

Stores(s) == {s[i] : i \in DOMAIN s}

\* Every variable has its type; no insert counts more retries than maxRetries.
TypeOK ==
  /\ at \in [Threads -> {"idle", "try", "lock", "drain", "own", "failed", "done", "queue"}]
  /\ msg \in [Threads -> 0..MaxMsgs]
  /\ retryCount \in [Threads -> 0..maxRetries]
  /\ queueMutex \in Threads \cup {NoThread}
  /\ failedQueue \in Seq(Msgs) /\ table \in Seq(Msgs)
  /\ nextMsg \in 1..(MaxMsgs + 1) /\ returned \subseteq Msgs
  /\ earlier \in [Msgs -> SUBSET Msgs]
  /\ noConns \in 0..NoConns /\ throws \in 0..Throws /\ lostReplies \in 0..LostReplies

\* A message is not lost: once insert returned, true or false, the message is in
\* the table or waits in the queue.
ReturnedIsKept == returned \subseteq Stores(table) \cup Stores(failedQueue)

Copies(m) == Cardinality({i \in DOMAIN table : table[i] = m})
             + Cardinality({i \in DOMAIN failedQueue : failedQueue[i] = m})

\* Nor is it doubled: a message is in one place at most once more than there
\* were statements whose reply was lost.
DoubledOnlyByLostReplies ==
  \A m \in Msgs : Copies(m) <= 1 + (LostReplies - lostReplies)

\* The table keeps the order of the conversation: a message whose insert had
\* returned before another one's began has a row before each of its rows, even if
\* the first had to wait in the queue and other threads drain the queue meanwhile.
OrderKept ==
  \A m \in Msgs : \A k \in earlier[m] : \A j \in DOMAIN table :
    table[j] = m => \E i \in 1..(j - 1) : table[i] = k

\* insert is a store that forgets nothing, with the table and the queue as what
\* it keeps: draining, retrying and failing are invisible to its callers.
Store == INSTANCE MessageStore WITH
  Messages <- Msgs, kept <- Stores(table) \cup Stores(failedQueue), accepted <- returned
ImplementsMessageStore == Store!Spec

\* insert returns ("最大重试次数", offlinemessage.cpp:8, bounds its attempts).
InsertReturns == \A t \in Threads : at[t] # "idle" ~> at[t] = "idle"

===============================================================================
