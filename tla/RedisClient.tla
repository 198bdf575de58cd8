------------------------------ MODULE RedisClient ------------------------------
(***************************************************************************)
(* RedisClient (redisclient.cpp) as ChatService uses it, together with the *)
(* data it keeps in the shared Redis server:                               *)
(*   - the presence hash "user:<id>" of every user;                        *)
(*   - the friend list cached under "friends:<id>";                        *)
(*   - pub/sub: the group channels, and in every node the subscriber       *)
(*     thread with its queue of subscribe and unsubscribe requests.        *)
(* Every Redis command and every section under sub_mutex_ is one step;     *)
(* the operators below are the effects of those steps on the variables of  *)
(* this module, which the handlers of ChatService take in their order.     *)
(* The connection each command borrows is the subject of                   *)
(* RedisConnectionPool; here a command either happens or, when no          *)
(* connection came or it threw, fails (ChatService!Fault).                 *)
(***************************************************************************)
EXTENDS Integers, Sequences, FiniteSets, SequencesExt

CONSTANTS
  Nodes,   \* server processes sharing one Redis and one MySQL
  Users,   \* ids of the rows of table User
  Groups   \* ids that rows of table AllGroup can get

\* User and group ids are MySQL auto-increment columns of type INT.
ASSUME IdAssumption == Users \subseteq Nat /\ Groups \subseteq Nat /\ IsFiniteSet(Groups)

VARIABLES
  presence,      \* presence[u]: the hash "user:<u>" and whether it has a TTL
  friendsCache,  \* friendsCache[u]: the list under "friends:<u>", {} if absent
  subTasks,      \* subTasks[n]: sub_tasks_ of node n
  subGroupSet,   \* subGroupSet[n]: sub_group_set_, the channels n listens to
  batch,         \* batch[n]: the tasks the subscriber thread swapped out
  subAt,         \* subAt[n]: where the subscriber loop stands
  channel        \* channel[n]: published messages not yet consumed by n

subVars == <<subTasks, subGroupSet, batch, subAt, channel>>

\* A Group object whose row was never inserted keeps this id.
NoId == -1
GroupIds == Groups \cup {NoId}

-----------------------------------------------------------------------------
(* The presence hash.  Nothing in the program reads the values of "node"   *)
(* and "conn", so a hash is the set of its fields and a TTL flag; Redis    *)
(* deletes a hash, TTL included, with its last field.                      *)

Fields == {"online", "node", "conn"}
Hash == [fields: SUBSET Fields, ttl: BOOLEAN]
NoHash == [fields |-> {}, ttl |-> FALSE]

isUserOnline(u) == "online" \in presence[u].fields

hset(u, f) == presence' = [presence EXCEPT ![u].fields = @ \cup {f}]

hdel(u, f) ==
  presence' = [presence EXCEPT ![u] = IF @.fields \subseteq {f} THEN NoHash
                                      ELSE [fields |-> @.fields \ {f}, ttl |-> @.ttl]]

\* EXPIRE of a key that is gone has no effect.
expire(u) == presence' = [presence EXCEPT ![u].ttl = @ \/ presence[u].fields # {}]

-----------------------------------------------------------------------------
(* Pub/sub.  The node checks the set of channels it has, not the tasks     *)
(* that are still queued, before it queues a task.                         *)

Task == [type: {"Subscribe", "Unsubscribe"}, group: GroupIds]

subscribeGroupChannel(n, g) ==
  subTasks' = IF g \in subGroupSet[n] THEN subTasks
              ELSE [subTasks EXCEPT ![n] = Append(@, [type |-> "Subscribe", group |-> g])]

\* The loops of loginOut and clientQuitEcption call unsubscribeGroupChannel for
\* each empty group, in whatever order the unordered map has its keys.
unsubscribeGroupChannels(n, S) ==
  \E gone \in SetToSeqs(S \cap subGroupSet[n]) :
    subTasks' = [subTasks EXCEPT ![n] =
      @ \o [i \in DOMAIN gone |-> [type |-> "Unsubscribe", group |-> gone[i]]]]

\* PUBLISH reaches the nodes subscribed at that instant and no other.
publishGroupMessage(m, g) ==
  channel' = [n \in Nodes |-> IF g \in subGroupSet[n] /\ subAt[n] # "dead"
                              THEN Append(channel[n], [msg |-> m, group |-> g])
                              ELSE channel[n]]

\* The subscriber loop.  A consume() that returns without a message (its socket
\* timed out after two seconds, or it read the reply to a SUBSCRIBE) and one
\* that dispatched a message (ChatService!Dispatch) both lead to the swap of
\* the queued tasks, which run in order before the next consume().  A turn that
\* finds no task queued changes nothing and is left out.
ConsumeNothing(n) ==
  /\ subAt[n] = "consume" /\ subTasks[n] # <<>>
  /\ subAt' = [subAt EXCEPT ![n] = "swap"]
  /\ UNCHANGED <<subTasks, subGroupSet, batch, channel>>

SwapTasks(n) ==
  /\ subAt[n] = "swap"
  /\ batch' = [batch EXCEPT ![n] = subTasks[n]]
  /\ subTasks' = [subTasks EXCEPT ![n] = <<>>]
  /\ subAt' = [subAt EXCEPT ![n] = "run"]
  /\ UNCHANGED <<subGroupSet, channel>>

\* Mutant: the channel is subscribed, sub_group_set_ is not updated.
RunTaskForgotten(n) ==
  /\ subAt[n] = "run" /\ batch[n] # <<>>
  /\ batch' = [batch EXCEPT ![n] = Tail(@)]
  /\ UNCHANGED <<subTasks, subGroupSet, subAt, channel>>

\* SUBSCRIBE is sent, Redis carries it out and sub_group_set_ follows: one step,
\* since the subscriber thread alone writes the set, and a handler that reads it a
\* moment earlier queues one task more, whose SUBSCRIBE changes nothing.
RunTask(n) ==
  /\ subAt[n] = "run" /\ batch[n] # <<>>
  /\ LET t == Head(batch[n]) IN
       subGroupSet' = [subGroupSet EXCEPT ![n] =
         IF t.type = "Subscribe" THEN @ \cup {t.group} ELSE @ \ {t.group}]
  /\ batch' = [batch EXCEPT ![n] = Tail(@)]
  /\ UNCHANGED <<subTasks, subAt, channel>>

\* SUBSCRIBE or UNSUBSCRIBE threw: the task is dropped, the set unchanged.
DropTask(n) ==
  /\ subAt[n] = "run" /\ batch[n] # <<>>
  /\ batch' = [batch EXCEPT ![n] = Tail(@)]
  /\ UNCHANGED <<subTasks, subGroupSet, subAt, channel>>

TasksDone(n) ==
  /\ subAt[n] = "run" /\ batch[n] = <<>>
  /\ subAt' = [subAt EXCEPT ![n] = "consume"]
  /\ UNCHANGED <<subTasks, subGroupSet, batch, channel>>

\* The connection of the subscriber breaks.  It is never opened again: from then on
\* every consume() throws at once, every task throws and is dropped, Redis delivers
\* nothing to the node, and sub_group_set_ still names its channels.
SubscriberBreaks(n) ==
  /\ subAt[n] = "consume"
  /\ subAt' = [subAt EXCEPT ![n] = "dead"]
  /\ channel' = [channel EXCEPT ![n] = <<>>]
  /\ UNCHANGED <<subTasks, subGroupSet, batch>>

DropAll(n) ==
  /\ subAt[n] = "dead" /\ subTasks[n] # <<>>
  /\ subTasks' = [subTasks EXCEPT ![n] = <<>>]
  /\ UNCHANGED <<subGroupSet, batch, subAt, channel>>

-----------------------------------------------------------------------------
RedisInit ==
  /\ presence = [u \in Users |-> NoHash]
  /\ friendsCache = [u \in Users |-> {}]
  /\ subTasks = [n \in Nodes |-> <<>>]
  /\ subGroupSet = [n \in Nodes |-> {}]
  /\ batch = [n \in Nodes |-> <<>>]
  /\ subAt = [n \in Nodes |-> "consume"]
  /\ channel = [n \in Nodes |-> <<>>]

===============================================================================
