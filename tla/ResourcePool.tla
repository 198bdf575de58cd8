------------------------------ MODULE ResourcePool ------------------------------
(***************************************************************************)
(* What a pool of exclusive resources promises its users, whatever it does *)
(* to make them wait: a resource is free or has one owner, an open pool    *)
(* hands out only free ones, a closed pool hands out none.                 *)
(***************************************************************************)
CONSTANTS Users, Resources, Nobody

VARIABLES free, owner, closed

poolVars == <<free, owner, closed>>

PoolInit ==
  /\ free = Resources
  /\ owner = [r \in Resources |-> Nobody]
  /\ closed = FALSE

Take(u, r) ==
  /\ ~closed /\ r \in free
  /\ \A s \in Resources : owner[s] # u
  /\ free' = free \ {r}
  /\ owner' = [owner EXCEPT ![r] = u]
  /\ UNCHANGED closed

Give(u, r) ==
  /\ owner[r] = u
  /\ free' = free \cup {r}
  /\ owner' = [owner EXCEPT ![r] = Nobody]
  /\ UNCHANGED closed

\* Closing discards the resources that are free; the others may still come back.
Close ==
  /\ ~closed
  /\ closed' = TRUE
  /\ free' = {}
  /\ UNCHANGED owner

PoolNext == Close \/ \E u \in Users, r \in Resources : Take(u, r) \/ Give(u, r)

PoolSpec == PoolInit /\ [][PoolNext]_poolVars

===============================================================================
