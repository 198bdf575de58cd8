------------------------- MODULE MCRedisConnectionPool -------------------------
(***************************************************************************)
(* Values of the constants of RedisConnectionPool for TLC.                 *)
(***************************************************************************)
EXTENDS RedisConnectionPool

CONSTANTS t1, t2, t3, t4, t5, k1, k2

\* More threads than connections, two of them with a timeout.
FiveThreads == {t1, t2, t3, t4, t5}
TwoConnections == {k1, k2}
TwoTimed == {t1, t2}

===============================================================================
