----------------------------- MODULE MessageStore -----------------------------
(***************************************************************************)
(* What the callers of OfflineMessage::insert rely on: a message is kept   *)
(* before it is accepted (its insert returns, its sender is told errno 0), *)
(* and what is kept stays kept.                                            *)
(***************************************************************************)
CONSTANTS Messages
VARIABLES kept, accepted

Init == kept = {} /\ accepted = {}

Keep(m) == m \notin kept /\ kept' = kept \cup {m} /\ UNCHANGED accepted
Accept(m) == m \in kept /\ m \notin accepted /\ accepted' = accepted \cup {m} /\ UNCHANGED kept
KeepAndAccept(m) ==
  m \notin accepted /\ kept' = kept \cup {m} /\ accepted' = accepted \cup {m}

Next == \E m \in Messages : Keep(m) \/ Accept(m) \/ KeepAndAccept(m)

Spec == Init /\ [][Next]_<<kept, accepted>>

===============================================================================
