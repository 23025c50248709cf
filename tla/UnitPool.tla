----------------------------- MODULE UnitPool -----------------------------
(***************************************************************************)
(* What the gateway promises its callers, without queues, policies or      *)
(* leases: each resource has Cap units; a session that asked is given one  *)
(* free unit per request, or stops asking; a unit that was given can come  *)
(* back, and is then free again.                                           *)
(***************************************************************************)
EXTENDS Naturals, FiniteSets

CONSTANTS Sids, Res, Cap

VARIABLES
  asking,    \* resource -> sessions with an open request
  taken      \* resource -> units given and not back, <<session, request>>

pvars == <<asking, taken>>

Init ==
  /\ asking = [q \in Res |-> {}]
  /\ taken = [q \in Res |-> {}]

\* Requests are made and withdrawn, units come back: nothing is given.
Move ==
  /\ asking' \in [Res -> SUBSET Sids]
  /\ \A q \in Res : taken'[q] \subseteq taken[q]
  /\ DOMAIN taken' = Res

\* One session is given a unit that is free, and its request is closed.
Give(q, s) ==
  /\ s \in asking[q]
  /\ Cardinality(taken[q]) < Cap[q]
  /\ asking' = [asking EXCEPT ![q] = @ \ {s}]
  /\ \E g \in taken'[q] \ taken[q] : g[1] = s /\ taken' = [taken EXCEPT ![q] = @ \cup {g}]

Next == Move \/ \E q \in Res, s \in Sids : Give(q, s)

Spec == Init /\ [][Next]_pvars
=============================================================================
