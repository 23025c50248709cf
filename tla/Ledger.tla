------------------------------- MODULE Ledger -------------------------------
(***************************************************************************)
(* The lease ledger (class Ledger of agentsim/resources.py) as the gateway *)
(* uses it: operators on a ledger L, which gives each resource and run the *)
(* run's lease there.                                                      *)
(*                                                                         *)
(* Time is relative: `wait` units until the lease starts (0: it has        *)
(* started), `left` units until it expires.  amt = 0 is "no lease"; an     *)
(* expired lease is dropped at once, where the code ignores it (own,       *)
(* active_sum and active_max all compare with the expiry) until expire()   *)
(* removes it.                                                             *)
(***************************************************************************)
EXTENDS Naturals, FiniteSets

CONSTANTS
  Runs,      \* the sessions leases belong to
  Res,       \* the resources
  Cap,       \* Cap[res]: capacity, the limit of invariant I1
  H          \* how far ahead a lease may reach

ASSUME LedgerAssumption ==
  /\ IsFiniteSet(Runs)
  /\ Cap \in [Res -> Nat \ {0}]
  /\ H \in Nat \ {0}

NoLease == [amt |-> 0, wait |-> 0, left |-> 0]
Lease(k, w, l) == [amt |-> k, wait |-> w, left |-> l]

Leases == [amt : Nat, wait : 0 .. H, left : 0 .. H]
EmptyLedger == [q \in Res |-> [r \in Runs |-> NoLease]]

\* Runs whose lease on q is active t units from now.
ActiveAt(L, q, t) == {r \in Runs : /\ L[q][r].amt > 0
                                   /\ L[q][r].wait <= t
                                   /\ t < L[q][r].left}

\* The reserved units, one pair per unit of a lease.
UnitsAt(L, q, t) == UNION {{r} \X (1 .. L[q][r].amt) : r \in ActiveAt(L, q, t)}

\* active_sum, t units from now.
SumAt(L, q, t) == Cardinality(UnitsAt(L, q, t))

\* A plausible bug: the lease is compared with the capacity, not with what is left.
FitsAlone(L, q, k, w, l) == k <= Cap[q]

\* active_max over the window [w, l), plus k, within capacity.
FitsWindow(L, q, k, w, l) == \A t \in w .. (l - 1) : SumAt(L, q, t) + k <= Cap[q]

\* own: the run's own active lease.
Own(L, q, r) == IF r \in ActiveAt(L, q, 0) THEN L[q][r].amt ELSE 0

\* The active leases of the runs in S, less what those runs already hold
\* (holds[r] units of q).
Unconsumed(L, q, S, holds) ==
  Cardinality(UNION {{o} \X ((holds[o] + 1) .. L[q][o].amt) : o \in ActiveAt(L, q, 0) \cap S})

\* reserved_for_others: capacity the run r may not touch.
ReservedForOthers(L, q, r, holds) == Unconsumed(L, q, Runs \ {r}, holds)

\* consume: the lease is fulfilled and gone, whatever its amount.
Consumed(L, q, r) == [L EXCEPT ![q][r] = NoLease]

\* A plausible bug: a lease that is not issued again is left in the ledger.
SetSessionAdding(L, r, keep) ==
  [q \in Res |-> [L[q] EXCEPT ![r] = IF q \in DOMAIN keep THEN keep[q] ELSE @]]

\* set_session: every lease of r is replaced by `keep` (resource -> lease).
SetSession(L, r, keep) ==
  [q \in Res |-> [L[q] EXCEPT ![r] = IF q \in DOMAIN keep THEN keep[q] ELSE NoLease]]

Less(n) == IF n = 0 THEN 0 ELSE n - 1

\* A plausible bug: time starts leases and never ends them.
AgedKeeping(L) == [q \in Res |-> [r \in Runs |-> [L[q][r] EXCEPT !.wait = Less(@)]]]

\* One unit of time passes; what has expired is gone.
Aged(L) ==
  [q \in Res |-> [r \in Runs |->
     IF L[q][r].left <= 1 THEN NoLease
     ELSE [L[q][r] EXCEPT !.wait = Less(@), !.left = @ - 1]]]

(***************************************************************************)
(* Invariant I1: at no present or future instant do the leases on a        *)
(* resource reserve more than its capacity.                                *)
(***************************************************************************)
I1(L) == \A q \in Res, t \in 0 .. H : SumAt(L, q, t) <= Cap[q]
=============================================================================
