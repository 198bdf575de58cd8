----------------------------- MODULE MCChatService -----------------------------
(***************************************************************************)
(* Values of the constants of ChatService for TLC.                         *)
(***************************************************************************)
EXTENDS ChatService

CONSTANTS n1, n2, c1, c2

\* Two connections on one node: the races between IO threads of one process.
OneNode == {n1}
TwoConns == {c1, c2}
BothOnN1 == [c \in TwoConns |-> n1]

\* One connection on each of two nodes: what goes through Redis and MySQL.
TwoNodes == {n1, n2}
OneOnEach == [c \in TwoConns |-> IF c = c1 THEN n1 ELSE n2]

\* One client alone.
OneConn == {c1}
AloneOnN1 == [c \in OneConn |-> n1]

\* Every client knows every password; or c1 that of user 1 and c2 both; or each
\* client has its own user.
AllAccounts == [c \in Conns |-> Users]
OneAccountOnC1 == [c \in Conns |-> IF c = c1 THEN {1} ELSE Users]
OwnAccount == [c \in Conns |-> IF c = c1 THEN {1} ELSE {2}]

\* Users 1 and 2 are friends; user 1 is in group 1.
OneFriendship == {<<1, 2>>}
OneMember == {<<1, 1>>}

\* Who may fail, and how often (each run names its choice in its cfg).
Calm == [k \in Events |-> IF k \in {"close", "login", "member"} THEN Always ELSE 0]
CalmWithTtl == [Calm EXCEPT !["ttl"] = Always]
SessionBudget == [CalmWithTtl EXCEPT !["redis"] = 1, !["login"] = 3]
ChatBudget == [Calm EXCEPT !["mysql"] = 1, !["reply"] = 1, !["crash"] = 1,
                           !["login"] = 3, !["close"] = 0]
GroupBudget == [Calm EXCEPT !["pubsub"] = 1, !["login"] = 2, !["close"] = 0, !["member"] = 1]
LiveBudget == [Calm EXCEPT !["mysql"] = 1, !["reply"] = 1, !["login"] = 2, !["close"] = 1,
                           !["member"] = 1]

\* The connections of one node are interchangeable (safety runs only).
ConnSymmetry == Permutations(TwoConns)

===============================================================================
