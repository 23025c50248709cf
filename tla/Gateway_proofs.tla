--------------------------- MODULE Gateway_proofs ---------------------------
(***************************************************************************)
(* Proofs about Gateway and its Ledger, for any societies, resources,      *)
(* capacities and horizon.  In this order: leases never promise more than  *)
(* there is, at any instant (invariant I1 of the ledger); units are never  *)
(* booked beyond the capacity, nor a grant made at the expense of what is  *)
(* reserved; queues are sound; units are owned; every variable is typed;   *)
(* ended runs reserve nothing; the gateway implements UnitPool; no unit is *)
(* idle.  Each part states its inductive invariant first.                  *)
(***************************************************************************)
EXTENDS Gateway, FiniteSetTheorems, TLAPS

-----------------------------------------------------------------------------
(* The ledger. *)

\* What the induction needs besides I1: no single lease exceeds the capacity.
LedgerTyped(L) ==
  /\ L \in [Res -> [Runs -> Leases]]
  /\ \A q \in Res, r \in Runs : L[q][r].amt <= Cap[q]

LedgerInv(L) == LedgerTyped(L) /\ I1(L)

LEMMA UnitsFinite ==
  ASSUME NEW L, LedgerTyped(L), NEW q \in Res, NEW t
  PROVE  IsFiniteSet(UnitsAt(L, q, t)) /\ SumAt(L, q, t) \in Nat
<1>1. IsFiniteSet(Runs) /\ Cap[q] \in Nat
  BY LedgerAssumption
<1>2. IsFiniteSet(1 .. Cap[q])
  BY <1>1, FS_Interval
<1>3. IsFiniteSet(Runs \X (1 .. Cap[q]))
  BY <1>1, <1>2, FS_Product
<1>4. UnitsAt(L, q, t) \subseteq Runs \X (1 .. Cap[q])
  <2> SUFFICES ASSUME NEW r \in ActiveAt(L, q, t), NEW u \in 1 .. L[q][r].amt
               PROVE  r \in Runs /\ u \in 1 .. Cap[q]
    BY DEF UnitsAt
  <2>1. r \in Runs /\ L[q][r].amt \in Nat /\ L[q][r].amt <= Cap[q]
    BY DEF ActiveAt, LedgerTyped, Leases
  <2> QED
    BY <1>1, <2>1
<1> QED
  BY <1>3, <1>4, FS_Subset, FS_CardinalityType DEF SumAt

\* Fewer units are reserved: the bound at t follows from the bound at u.
LEMMA FewerUnits ==
  ASSUME NEW L, NEW M, LedgerTyped(L), NEW q \in Res, NEW t, NEW u,
         UnitsAt(M, q, t) \subseteq UnitsAt(L, q, u), SumAt(L, q, u) <= Cap[q]
  PROVE  SumAt(M, q, t) <= Cap[q]
<1>1. IsFiniteSet(UnitsAt(L, q, u)) /\ SumAt(L, q, u) \in Nat
  BY UnitsFinite
<1>2. SumAt(M, q, t) <= SumAt(L, q, u) /\ SumAt(M, q, t) \in Nat
  BY <1>1, FS_Subset, FS_CardinalityType DEF SumAt
<1> QED
  BY <1>1, <1>2, LedgerAssumption

\* Adding k units of one run to what is reserved adds k at most.
LEMMA AddedUnits ==
  ASSUME NEW L, NEW M, LedgerTyped(L), NEW q \in Res, NEW r, NEW t, NEW k \in Nat,
         UnitsAt(M, q, t) \subseteq UnitsAt(L, q, t) \cup ({r} \X (1 .. k)),
         SumAt(L, q, t) + k <= Cap[q]
  PROVE  SumAt(M, q, t) <= Cap[q]
<1> DEFINE A == UnitsAt(L, q, t)
           B == {r} \X (1 .. k)
<1>1. IsFiniteSet(A) /\ Cardinality(A) \in Nat
  BY UnitsFinite DEF SumAt
<1>2. IsFiniteSet(B) /\ Cardinality(B) = k
  <2>1. IsFiniteSet({r}) /\ Cardinality({r}) = 1
    BY FS_Singleton
  <2>2. IsFiniteSet(1 .. k) /\ Cardinality(1 .. k) = k
    BY FS_Interval
  <2>3. IsFiniteSet(B) /\ Cardinality(B) = Cardinality({r}) * Cardinality(1 .. k)
    BY <2>1, <2>2, FS_Product
  <2> QED
    BY <2>1, <2>2, <2>3
<1> HIDE DEF A, B
<1>3. IsFiniteSet(A \cup B) /\ Cardinality(A \cup B) <= Cardinality(A) + k
  <2>1. /\ IsFiniteSet(A \cup B)
        /\ Cardinality(A \cup B) = Cardinality(A) + Cardinality(B) - Cardinality(A \cap B)
    BY <1>1, <1>2, FS_Union
  <2>2. A \cap B \subseteq A
    OBVIOUS
  <2>3. Cardinality(A \cap B) \in Nat
    BY <1>1, <2>2, FS_Subset, FS_CardinalityType
  <2> QED
    BY <1>1, <1>2, <2>1, <2>3
<1>4. UnitsAt(M, q, t) \subseteq A \cup B /\ SumAt(L, q, t) = Cardinality(A)
  BY DEF A, B, SumAt
<1>5. Cardinality(UnitsAt(M, q, t)) <= Cardinality(A \cup B)
      /\ Cardinality(UnitsAt(M, q, t)) \in Nat /\ Cardinality(A \cup B) \in Nat
  BY <1>3, <1>4, FS_Subset, FS_CardinalityType
<1> QED
  BY <1>1, <1>3, <1>4, <1>5, LedgerAssumption DEF SumAt

(***************************************************************************)
(* set_session keeps I1 when every lease it books was checked against the  *)
(* ledger over its own window: leases of one run that go away only help.   *)
(***************************************************************************)
LEMMA SetSessionKeeps ==
  ASSUME NEW L, LedgerInv(L), NEW r \in Runs, NEW keep,
         \A q \in Res \cap DOMAIN keep :
            /\ keep[q] \in Leases /\ keep[q].wait < keep[q].left
            /\ FitsWindow(L, q, keep[q].amt, keep[q].wait, keep[q].left)
  PROVE  LedgerInv(SetSession(L, r, keep))
<1> DEFINE M == SetSession(L, r, keep)
<1>1. LedgerTyped(L) /\ I1(L)
  BY DEF LedgerInv
<1>2. \A q \in Res : Cap[q] \in Nat
  BY LedgerAssumption
<1>3. NoLease \in Leases /\ H \in Nat
  BY LedgerAssumption DEF NoLease, Leases
<1>4. M \in [Res -> [Runs -> Leases]]
  BY <1>1, <1>3 DEF SetSession, LedgerTyped
<1>5. ASSUME NEW q \in Res
      PROVE  /\ \A o \in Runs \ {r} : M[q][o] = L[q][o]
             /\ M[q][r] = IF q \in DOMAIN keep THEN keep[q] ELSE NoLease
  BY <1>1 DEF SetSession, LedgerTyped
<1> HIDE DEF M
<1>6. ASSUME NEW q \in Res, q \in DOMAIN keep PROVE keep[q].amt <= Cap[q]
  <2>1. keep[q].amt \in Nat /\ keep[q].wait \in 0 .. H /\ keep[q].left \in 0 .. H
    BY <1>6 DEF Leases
  <2>2. keep[q].wait \in keep[q].wait .. (keep[q].left - 1)
    BY <1>3, <1>6, <2>1
  <2>3. SumAt(L, q, keep[q].wait) + keep[q].amt <= Cap[q]
    BY <1>6, <2>2 DEF FitsWindow
  <2> QED
    BY <1>1, <1>2, <2>1, <2>3, UnitsFinite
<1>7. LedgerTyped(M)
  <2> SUFFICES ASSUME NEW q \in Res, NEW o \in Runs PROVE M[q][o].amt <= Cap[q]
    BY <1>4 DEF LedgerTyped
  <2> QED
    BY <1>1, <1>2, <1>5, <1>6 DEF LedgerTyped, NoLease
<1>8. ASSUME NEW q \in Res, NEW t \in 0 .. H PROVE SumAt(M, q, t) <= Cap[q]
  <2>1. SumAt(L, q, t) <= Cap[q]
    BY <1>1 DEF I1
  <2>2. CASE r \notin ActiveAt(M, q, t)
    <3>1. UnitsAt(M, q, t) \subseteq UnitsAt(L, q, t)
      BY <1>5, <2>2 DEF UnitsAt, ActiveAt
    <3> QED
      BY <1>1, <2>1, <3>1, FewerUnits
  <2>3. CASE r \in ActiveAt(M, q, t)
    <3>1. q \in DOMAIN keep /\ M[q][r] = keep[q]
      BY <1>5, <2>3 DEF ActiveAt, NoLease
    <3>2. keep[q].amt \in Nat /\ t \in keep[q].wait .. (keep[q].left - 1)
      BY <1>3, <2>3, <3>1 DEF ActiveAt, Leases
    <3>3. SumAt(L, q, t) + keep[q].amt <= Cap[q]
      BY <3>1, <3>2 DEF FitsWindow
    <3>4. UnitsAt(M, q, t) \subseteq UnitsAt(L, q, t) \cup ({r} \X (1 .. keep[q].amt))
      BY <1>5, <3>1 DEF UnitsAt, ActiveAt
    <3> QED
      BY <1>1, <3>2, <3>3, <3>4, AddedUnits
  <2> QED
    BY <2>2, <2>3
<1> QED
  BY <1>7, <1>8 DEF LedgerInv, I1, M

LEMMA ConsumedKeeps ==
  ASSUME NEW L, LedgerInv(L), NEW p \in Res, NEW r \in Runs
  PROVE  LedgerInv(Consumed(L, p, r))
<1> DEFINE M == Consumed(L, p, r)
<1>1. LedgerTyped(L) /\ I1(L)
  BY DEF LedgerInv
<1>2. NoLease \in Leases /\ \A q \in Res : Cap[q] \in Nat
  BY LedgerAssumption DEF NoLease, Leases
<1>3. /\ M \in [Res -> [Runs -> Leases]]
      /\ \A q \in Res, o \in Runs : M[q][o] = L[q][o] \/ M[q][o] = NoLease
  BY <1>1, <1>2 DEF Consumed, LedgerTyped
<1> HIDE DEF M
<1>4. LedgerTyped(M)
  BY <1>1, <1>2, <1>3 DEF LedgerTyped, NoLease
<1>5. ASSUME NEW q \in Res, NEW t \in 0 .. H PROVE SumAt(M, q, t) <= Cap[q]
  <2>1. UnitsAt(M, q, t) \subseteq UnitsAt(L, q, t)
    BY <1>3 DEF UnitsAt, ActiveAt, NoLease
  <2> QED
    BY <1>1, <2>1, FewerUnits DEF I1
<1> QED
  BY <1>4, <1>5 DEF LedgerInv, I1, M

\* What is reserved t units after the step was reserved t + 1 units before it.
LEMMA AgedKeeps == ASSUME NEW L, LedgerInv(L) PROVE LedgerInv(Aged(L))
<1> DEFINE M == Aged(L)
<1>1. LedgerTyped(L) /\ I1(L)
  BY DEF LedgerInv
<1>2. H \in Nat \ {0} /\ \A q \in Res : Cap[q] \in Nat
  BY LedgerAssumption
<1>3. ASSUME NEW q \in Res, NEW r \in Runs
      PROVE  /\ M[q][r] \in Leases /\ M[q][r].amt <= Cap[q]
             /\ M[q][r] = NoLease \/ /\ M[q][r].amt = L[q][r].amt
                                     /\ M[q][r].wait = Less(L[q][r].wait)
                                     /\ M[q][r].left = L[q][r].left - 1
  <2>1. L[q][r] \in Leases /\ L[q][r].amt <= Cap[q]
    BY <1>1 DEF LedgerTyped
  <2>2. M[q][r] = IF L[q][r].left <= 1 THEN NoLease
                  ELSE [L[q][r] EXCEPT !.wait = Less(@), !.left = @ - 1]
    BY DEF Aged
  <2>3. L[q][r].amt \in Nat /\ L[q][r].wait \in 0 .. H /\ L[q][r].left \in 0 .. H
    BY <2>1 DEF Leases
  <2>4. CASE L[q][r].left <= 1
    BY <1>2, <2>2, <2>4 DEF Leases, NoLease
  <2>5. CASE ~(L[q][r].left <= 1)
    <3>1. M[q][r] = [amt |-> L[q][r].amt, wait |-> Less(L[q][r].wait), left |-> L[q][r].left - 1]
      BY <2>1, <2>2, <2>5 DEF Leases
    <3>2. Less(L[q][r].wait) \in 0 .. H /\ L[q][r].left - 1 \in 0 .. H
      BY <1>2, <2>3, <2>5 DEF Less
    <3> QED
      BY <2>1, <2>3, <3>1, <3>2 DEF Leases
  <2> QED
    BY <2>4, <2>5
<1>4. M = [q \in Res |-> [r \in Runs |-> M[q][r]]]
  BY DEF Aged
<1> HIDE DEF M
<1>5. LedgerTyped(M)
  BY <1>3, <1>4 DEF LedgerTyped
<1>6. ASSUME NEW q \in Res, NEW t \in 0 .. H PROVE SumAt(M, q, t) <= Cap[q]
  <2>1. ASSUME NEW r \in ActiveAt(M, q, t)
        PROVE  r \in ActiveAt(L, q, t + 1) /\ M[q][r].amt = L[q][r].amt /\ t + 1 \in 0 .. H
    <3>1. r \in Runs /\ L[q][r] \in Leases
      BY <1>1, <2>1 DEF ActiveAt, LedgerTyped
    <3>2. M[q][r].amt = L[q][r].amt /\ M[q][r].wait = Less(L[q][r].wait) /\ M[q][r].left = L[q][r].left - 1
      BY <1>3, <2>1, <3>1 DEF ActiveAt, NoLease
    <3> QED
      BY <1>2, <2>1, <3>1, <3>2 DEF ActiveAt, Less, Leases
  <2>2. UnitsAt(M, q, t) \subseteq UnitsAt(L, q, t + 1)
    BY <2>1 DEF UnitsAt
  <2>3. CASE UnitsAt(M, q, t) = {}
    BY <1>2, <2>3, FS_EmptySet DEF SumAt
  <2>4. CASE UnitsAt(M, q, t) # {}
    <3>1. t + 1 \in 0 .. H
      BY <2>1, <2>4 DEF UnitsAt
    <3> QED
      BY <1>1, <2>2, <3>1, FewerUnits DEF I1
  <2> QED
    BY <2>3, <2>4
<1> QED
  BY <1>5, <1>6 DEF LedgerInv, I1, M

-----------------------------------------------------------------------------
(* The gateway's steps. *)

LEMMA ReissuedKeeps ==
  ASSUME world \in Worlds, NEW L, LedgerInv(L), NEW at, NEW r \in Runs, NEW M \in Reissued(L, at, r)
  PROVE  LedgerInv(M)
<1>1. CASE M = L
  BY <1>1
<1>2. CASE M # L
  <2>1. PICK keep \in UNION {[T -> {Lease(1, w, l) : w \in 1 .. H, l \in 1 .. H}] : T \in SUBSET Upcoming(at, r)} :
          /\ \A q \in DOMAIN keep : /\ keep[q].wait < keep[q].left
                                    /\ FitsWindow(L, q, 1, keep[q].wait, keep[q].left)
          /\ M = SetSession(L, r, keep)
    BY <1>2 DEF Reissued
  <2>2. \A q \in DOMAIN keep : \E w \in 1 .. H, l \in 1 .. H : keep[q] = Lease(1, w, l)
    BY <2>1
  <2>3. \A q \in DOMAIN keep : keep[q] \in Leases /\ keep[q].amt = 1
    BY <2>2, LedgerAssumption DEF Lease, Leases
  <2> QED
    BY <2>1, <2>3, SetSessionKeeps
<1> QED
  BY <1>1, <1>2

LEMMA GangedKeeps ==
  ASSUME world \in Worlds, NEW L, LedgerInv(L), NEW r \in Runs, NEW M \in Ganged(L, r)
  PROVE  LedgerInv(M)
<1>1. CASE M = L
  BY <1>1
<1>2. CASE M # L
  <2>1. PICK x \in Res \X (1 .. H) :
          /\ Cardinality(Roots(r, x[1])) >= 2
          /\ FitsWindow(L, x[1], Cardinality(Roots(r, x[1])), 0, x[2])
          /\ M = SetSession(L, r, [p \in {x[1]} |-> Lease(Cardinality(Roots(r, x[1])), 0, x[2])])
    BY <1>2 DEF Ganged
  <2> DEFINE k == Cardinality(Roots(r, x[1]))
             keep == [p \in {x[1]} |-> Lease(k, 0, x[2])]
  <2>2. k \in Nat
    <3>1. IsFiniteSet(Sids) /\ Roots(r, x[1]) \subseteq Sids
      BY GatewayAssumption DEF IsWorld, Sids, Roots
    <3> QED
      BY <3>1, FS_Subset, FS_CardinalityType
  <2>3. M = SetSession(L, r, keep) /\ FitsWindow(L, x[1], k, 0, x[2]) /\ x[1] \in Res /\ x[2] \in 1 .. H
    BY <2>1
  <2> HIDE DEF k
  <2>4. /\ DOMAIN keep = {x[1]}
        /\ keep[x[1]] \in Leases /\ keep[x[1]].amt = k /\ keep[x[1]].wait = 0 /\ keep[x[1]].left = x[2]
    BY <2>2, <2>3, LedgerAssumption DEF Lease, Leases
  <2>5. 0 < x[2]
    BY <2>3, LedgerAssumption
  <2> HIDE DEF keep
  <2> QED
    BY <2>3, <2>4, <2>5, SetSessionKeeps
<1> QED
  BY <1>1, <1>2

LEMMA EmptyKeeps == LedgerInv(EmptyLedger)
<1>1. NoLease \in Leases /\ \A q \in Res : Cap[q] \in Nat
  BY LedgerAssumption DEF NoLease, Leases
<1>2. LedgerTyped(EmptyLedger)
  BY <1>1 DEF LedgerTyped, EmptyLedger, NoLease
<1>3. \A q \in Res, t \in 0 .. H : UnitsAt(EmptyLedger, q, t) = {}
  BY DEF UnitsAt, ActiveAt, EmptyLedger, NoLease
<1> QED
  BY <1>1, <1>2, <1>3, FS_EmptySet DEF LedgerInv, I1, SumAt

\* The loop looks at resources only.
LoopInv == world \in Worlds /\ agenda \subseteq Res /\ scanRes \in Res

LeaseInv == LoopInv /\ LedgerInv(leases)

LEMMA LoopStep == LoopInv /\ [Next]_vars => LoopInv'
<1> SUFFICES ASSUME LoopInv, [Next]_vars PROVE LoopInv'
  OBVIOUS
<1>1. world' = world
  BY DEF Next, Dispatch, RunStart, RunEnd, Session, TimerFires, Tick, vars
<1>2. \A s \in Sids : Tier[s] \in Res /\ Sandbox \in Res
  BY GatewayAssumption DEF LoopInv, IsWorld, Sids, Tier
<1>3. CASE NoDispatch
  BY <1>1, <1>3 DEF NoDispatch, loop, LoopInv
<1>4. CASE DispatchAll
  BY <1>1, <1>4 DEF DispatchAll, LoopInv
<1>5. ASSUME NEW q \in Res, NEW o, DispatchOnly(q, o) PROVE LoopInv'
  BY <1>1, <1>5 DEF DispatchOnly, LoopInv
<1>6. CASE Dispatch
  BY <1>1, <1>6 DEF Dispatch, BeginPass, Pass, PassDone, PassFull, PassOver, Grant, LoopInv
<1>7. CASE \E r \in Runs : RunStart(r) \/ RunEnd(r)
  BY <1>3, <1>4, <1>7 DEF RunStart, RunEnd
<1>8. ASSUME NEW s \in AllSids, Session(s) \/ TimerFires(s) PROVE LoopInv'
  <2>1. CASE CallModel(s) \/ CallTool(s) \/ CallGate(s)
    BY <1>2, <1>5, <1>8, <2>1 DEF CallModel, CallTool, CallGate, Enqueue, Session, TimerFires
  <2>2. CASE CallRefused(s) \/ CallBurned(s) \/ Resume(s) \/ Rejected(s) \/ Verdict(s) \/ Skip(s) \/ TimerFires(s)
    BY <1>3, <2>2 DEF CallRefused, CallBurned, Resume, Rejected, Verdict, Skip, TimerFires
  <2>3. CASE ToolReturns(s) \/ WorkerReturns(s) \/ GateReturns(s) \/ GiveUp(s)
    BY <1>3, <1>4, <2>3 DEF ToolReturns, WorkerReturns, GateReturns, GiveUp
  <2> QED
    BY <1>8, <2>1, <2>2, <2>3 DEF Session
<1>9. CASE Tick
  BY <1>4, <1>9 DEF Tick
<1>10. CASE UNCHANGED vars
  BY <1>10 DEF vars, LoopInv
<1> QED
  BY <1>6, <1>7, <1>8, <1>9, <1>10 DEF Next

\* A session's step leaves the ledger alone, or re-issues the leases of its run
\* once or twice, whatever the predictions and the states they rest on.
LEMMA SessionLeases ==
  ASSUME LeaseInv, NEW s, Session(s)
  PROVE  LedgerInv(leases')
<1>1. world \in Worlds /\ LedgerInv(leases) /\ s \in Sids
  BY DEF LeaseInv, LoopInv, Session
<1>2. RunOf[s] \in Runs
  BY <1>1, GatewayAssumption DEF IsWorld, Sids, RunOf
<1>3. ASSUME NEW at, leases' \in Reissued(leases, at, RunOf[s]) PROVE LedgerInv(leases')
  BY <1>1, <1>2, <1>3, ReissuedKeeps
<1>4. ASSUME NEW at, NEW L, LedgerInv(L), leases' \in ReissuedIfRunning(L, at, RunOf[s]) PROVE LedgerInv(leases')
  BY <1>1, <1>2, <1>4, ReissuedKeeps DEF ReissuedIfRunning
<1>5. ASSUME NEW at, NEW L \in Reissued(leases, at, RunOf[s]) PROVE LedgerInv(L)
  BY <1>1, <1>2, ReissuedKeeps
<1>6. CASE leases' = leases
  BY <1>1, <1>6
<1>7. CASE Verdict(s) \/ Rejected(s)
  BY <1>3, <1>6, <1>7 DEF Verdict, Rejected
<1>8. CASE WorkerReturns(s)
  BY <1>1, <1>4, <1>5, <1>8 DEF WorkerReturns
<1>9. CASE GiveUp(s)
  BY <1>3, <1>4, <1>5, <1>6, <1>9 DEF GiveUp
<1>10. CASE \/ CallModel(s) \/ CallRefused(s) \/ CallBurned(s) \/ Resume(s) \/ CallTool(s)
            \/ ToolReturns(s) \/ CallGate(s) \/ GateReturns(s) \/ Skip(s)
  BY <1>6, <1>10 DEF CallModel, CallRefused, CallBurned, Resume, CallTool, ToolReturns, CallGate, GateReturns, Skip
<1> QED
  BY <1>7, <1>8, <1>9, <1>10 DEF Session

LEMMA LeaseStep == LeaseInv /\ [Next]_vars => LeaseInv'
<1> SUFFICES ASSUME LeaseInv, [Next]_vars PROVE LedgerInv(leases')
  BY LoopStep DEF LeaseInv
<1>1. world \in Worlds /\ scanRes \in Res /\ LedgerInv(leases)
  BY DEF LeaseInv, LoopInv
<1>2. CASE leases' = leases
  BY <1>1, <1>2
<1>3. CASE Dispatch
  <2>1. leases' = leases \/ /\ leases' = Consumed(leases, scanRes, RunOf[Head(scan)])
                            /\ Own(leases, scanRes, RunOf[Head(scan)]) > 0
    BY <1>3 DEF Dispatch, BeginPass, Pass, PassDone, PassFull, PassOver, Grant
  <2>2. Own(leases, scanRes, RunOf[Head(scan)]) > 0 => RunOf[Head(scan)] \in Runs
    BY DEF Own, ActiveAt
  <2> QED
    BY <1>1, <2>1, <2>2, ConsumedKeeps
<1>4. ASSUME NEW r \in Runs, RunStart(r) \/ RunEnd(r) PROVE LedgerInv(leases')
  <2>1. CASE RunStart(r)
    BY <1>1, <2>1, GangedKeeps DEF RunStart
  <2>2. CASE RunEnd(r)
    <3>1. leases' = SetSession(leases, r, <<>>)
      BY <2>2 DEF RunEnd
    <3>2. DOMAIN <<>> = {}
      OBVIOUS
    <3>3. \A q \in Res \cap DOMAIN <<>> : FALSE
      BY <3>2
    <3> QED
      BY <1>1, <3>1, <3>3, SetSessionKeeps
  <2> QED
    BY <1>4, <2>1, <2>2
<1>5. CASE Tick
  BY <1>1, <1>5, AgedKeeps DEF Tick
<1>6. ASSUME NEW s, Session(s) PROVE LedgerInv(leases')
  BY <1>6, SessionLeases
<1>7. ASSUME NEW s, TimerFires(s) PROVE LedgerInv(leases')
  BY <1>2, <1>7 DEF TimerFires
<1>8. CASE UNCHANGED vars
  BY <1>2, <1>8 DEF vars
<1> QED
  BY <1>3, <1>4, <1>5, <1>6, <1>7, <1>8 DEF Next

(***************************************************************************)
(* Leases never reserve more than a resource has, now or at any instant    *)
(* that is already spoken for, in whatever order runs start, repeat, end,  *)
(* time out and have their leases issued anew, whatever the predictions    *)
(* ask for, and however the windows of different runs overlap.             *)
(***************************************************************************)
THEOREM LeasesAreBounded == Spec => []LeasesBounded
<1>1. Init => LeaseInv
  BY EmptyKeeps, GatewayAssumption DEF Init, LeaseInv, LoopInv
<1>2. LeaseInv => LeasesBounded
  BY DEF LeaseInv, LedgerInv, LeasesBounded
<1> QED
  BY <1>1, <1>2, LeaseStep, PTL DEF Spec

-----------------------------------------------------------------------------
(* Units in use. *)

HolderInv ==
  /\ LeaseInv
  /\ Policy # "needs" => leases = EmptyLedger
  /\ holders = [q \in Res |-> holders[q]]
  /\ \A q \in Res : IsFiniteSet(holders[q]) /\ Used(q) <= Cap[q]

\* Only _grant takes a unit, and it takes one.
Granting ==
  /\ scan # <<>> /\ scanRes \in Res /\ Room(scanRes, Head(scan))
  /\ fut[Head(scan)] = "pending" /\ fut' = [fut EXCEPT ![Head(scan)] = "granted"]
  /\ holders' = [holders EXCEPT ![scanRes] = @ \cup {Latest(Head(scan))}]
  /\ leases' = IF Policy = "needs" /\ Own(leases, scanRes, RunOf[Head(scan)]) > 0
               THEN Consumed(leases, scanRes, RunOf[Head(scan)]) ELSE leases
  /\ UNCHANGED <<world, pc, calls>>

Releasing ==
  /\ holders' = [q \in Res |-> holders'[q]]
  /\ \A q \in Res : holders'[q] \subseteq holders[q]

LEMMA HolderShape ==
  ASSUME HolderInv, [Next]_vars
  PROVE  Granting \/ Releasing
<1>1. scanRes \in Res /\ holders = [q \in Res |-> holders[q]]
  BY DEF HolderInv, LeaseInv, LoopInv
<1>2. CASE holders' = holders
  BY <1>1, <1>2 DEF Releasing
<1>3. ASSUME NEW p, NEW g, holders' = [holders EXCEPT ![p] = @ \ {g}] PROVE Releasing
  BY <1>1, <1>3 DEF Releasing
<1>4. CASE Dispatch
  <2>1. CASE scan # <<>> /\ Grant(Head(scan)) /\ UNCHANGED session
    BY <1>1, <1>4, <2>1 DEF Dispatch, Grant, Granting, session
  <2>2. CASE BeginPass \/ PassDone(Head(scan)) \/ PassFull(Head(scan)) \/ PassOver(Head(scan))
    BY <1>2, <2>2 DEF BeginPass, PassDone, PassFull, PassOver
  <2>3. CASE scan # <<>> /\ Pass(Head(scan))
    BY <2>1, <2>2, <2>3 DEF Pass
  <2> QED
    BY <1>4, <2>2, <2>3 DEF Dispatch
<1>5. CASE Tick \/ \E r \in Runs : RunStart(r) \/ RunEnd(r)
  BY <1>2, <1>5 DEF Tick, RunStart, RunEnd
<1>6. ASSUME NEW s, Session(s) \/ TimerFires(s) PROVE Releasing
  <2>1. CASE ToolReturns(s) \/ GateReturns(s)
    BY <1>3, <2>1 DEF ToolReturns, GateReturns, GiveSand
  <2>2. CASE WorkerReturns(s)
    BY <1>3, <2>2 DEF WorkerReturns, GiveChat
  <2>3. CASE GiveUp(s)
    <3>1. CASE UNCHANGED holders
      BY <1>1, <3>1 DEF Releasing
    <3>2. CASE holders' = GiveChat(s)
      BY <1>3, <3>2 DEF GiveChat
    <3> QED
      BY <2>3, <3>1, <3>2 DEF GiveUp
  <2>4. CASE \/ CallModel(s) \/ CallRefused(s) \/ CallBurned(s) \/ Resume(s) \/ CallTool(s)
             \/ Rejected(s) \/ CallGate(s) \/ Verdict(s) \/ Skip(s) \/ TimerFires(s)
    BY <1>1, <2>4 DEF CallModel, CallRefused, CallBurned, Resume, CallTool, Rejected, CallGate, Verdict, Skip,
                      TimerFires, Releasing
  <2> QED
    BY <1>6, <2>1, <2>2, <2>3, <2>4 DEF Session
<1>7. CASE UNCHANGED vars
  BY <1>2, <1>7 DEF vars
<1> QED
  BY <1>4, <1>5, <1>6, <1>7 DEF Next

\* Without prediction no lease is ever issued.
LEMMA PlainStep ==
  ASSUME Policy # "needs", leases = EmptyLedger, [Next]_vars
  PROVE  Policy' # "needs" /\ leases' = EmptyLedger
<1>1. world' = world
  BY DEF Next, Dispatch, RunStart, RunEnd, Session, TimerFires, Tick, vars
<1>2. Policy' # "needs"
  BY <1>1 DEF Policy
<1>3. \A L, at, r : Reissued(L, at, r) = {L} /\ ReissuedIfRunning(L, at, r) = {L} /\ Ganged(L, r) = {L}
  BY DEF Reissued, ReissuedIfRunning, Ganged
<1>4. \A r : SetSession(EmptyLedger, r, <<>>) = EmptyLedger
  <2> TAKE r
  <2>1. \A q : q \notin DOMAIN <<>>
    OBVIOUS
  <2>2. \A q \in Res : [EmptyLedger[q] EXCEPT ![r] = NoLease] = EmptyLedger[q]
    BY DEF EmptyLedger
  <2>3. SetSession(EmptyLedger, r, <<>>) = [q \in Res |-> EmptyLedger[q]]
    BY <2>1, <2>2 DEF SetSession
  <2> QED
    BY <2>3 DEF EmptyLedger
<1>5. Aged(EmptyLedger) = EmptyLedger
  BY DEF Aged, EmptyLedger, NoLease
<1>6. CASE Dispatch
  BY <1>2, <1>6 DEF Dispatch, BeginPass, Pass, PassDone, PassFull, PassOver, Grant
<1>7. CASE \E r \in Runs : RunStart(r) \/ RunEnd(r)
  BY <1>2, <1>3, <1>4, <1>7 DEF RunStart, RunEnd
<1>8. ASSUME NEW s, Session(s) \/ TimerFires(s) PROVE leases' = EmptyLedger
  <2>1. CASE WorkerReturns(s) \/ GiveUp(s)
    BY <1>3, <2>1 DEF WorkerReturns, GiveUp
  <2>2. CASE Rejected(s) \/ Verdict(s)
    BY <1>3, <2>2 DEF Rejected, Verdict
  <2>3. CASE \/ CallModel(s) \/ CallRefused(s) \/ CallBurned(s) \/ Resume(s) \/ CallTool(s) \/ ToolReturns(s)
             \/ CallGate(s) \/ GateReturns(s) \/ Skip(s) \/ TimerFires(s)
    BY <2>3 DEF CallModel, CallRefused, CallBurned, Resume, CallTool, ToolReturns, CallGate, GateReturns, Skip,
                TimerFires
  <2> QED
    BY <1>8, <2>1, <2>2, <2>3 DEF Session
<1>9. CASE Tick
  BY <1>2, <1>5, <1>9 DEF Tick
<1>10. CASE UNCHANGED vars
  BY <1>2, <1>10 DEF vars
<1> QED
  BY <1>2, <1>6, <1>7, <1>8, <1>9, <1>10 DEF Next

\* The set whose size Unconsumed is.
Pending(L, q, S, holds) == UNION {{o} \X ((holds[o] + 1) .. L[q][o].amt) : o \in ActiveAt(L, q, 0) \cap S}

\* What the others have reserved and do not hold yet is a number of units.
LEMMA ReservedNat ==
  ASSUME NEW L, LedgerTyped(L), NEW q \in Res, NEW S, S \subseteq Runs, NEW holds, \A o \in Runs : holds[o] \in Nat
  PROVE  /\ IsFiniteSet(Pending(L, q, S, holds))
         /\ Unconsumed(L, q, S, holds) \in Nat
<1> DEFINE U == Pending(L, q, S, holds)
<1>1. Cap[q] \in Nat /\ IsFiniteSet(Runs \X (1 .. Cap[q]))
  <2>1. Cap[q] \in Nat /\ IsFiniteSet(Runs)
    BY LedgerAssumption
  <2>2. IsFiniteSet(1 .. Cap[q])
    BY <2>1, FS_Interval
  <2> QED
    BY <2>1, <2>2, FS_Product
<1>2. U \subseteq Runs \X (1 .. Cap[q])
  <2> SUFFICES ASSUME NEW o \in ActiveAt(L, q, 0) \cap S, NEW u \in (holds[o] + 1) .. L[q][o].amt
               PROVE  o \in Runs /\ u \in 1 .. Cap[q]
    BY DEF Pending
  <2>1. o \in Runs /\ holds[o] \in Nat /\ L[q][o].amt \in Nat /\ L[q][o].amt <= Cap[q]
    BY DEF ActiveAt, LedgerTyped, Leases
  <2> QED
    BY <1>1, <2>1
<1> HIDE DEF U
<1>3. IsFiniteSet(U) /\ Cardinality(U) \in Nat
  BY <1>1, <1>2, FS_Subset, FS_CardinalityType
<1> QED
  BY <1>3 DEF U, Pending, Unconsumed

LEMMA HeldNat == ASSUME NEW q \in Res, IsFiniteSet(holders[q]) PROVE \A o \in Runs : HeldBy(q)[o] \in Nat
<1> SUFFICES ASSUME NEW o \in Runs PROVE Cardinality({g \in holders[q] : RunOf[g[1]] = o}) \in Nat
  BY DEF HeldBy
<1> DEFINE G == {g \in holders[q] : RunOf[g[1]] = o}
<1>1. G \subseteq holders[q]
  OBVIOUS
<1> HIDE DEF G
<1>2. Cardinality(G) \in Nat
  BY <1>1, FS_Subset, FS_CardinalityType
<1> QED
  BY <1>2 DEF G

\* What a grant leaves: one more unit in use, and what was reserved for others.
LEMMA GrantRoom ==
  ASSUME HolderInv, Granting
  PROVE  /\ IsFiniteSet(holders'[scanRes]) /\ Used(scanRes) \in Nat
         /\ Cardinality(holders'[scanRes]) \in Nat
         /\ Cardinality(holders'[scanRes]) <= Used(scanRes) + 1
         /\ Reserved(scanRes, Head(scan)) \in Nat
         /\ Used(scanRes) + 1 + Reserved(scanRes, Head(scan)) <= Cap[scanRes]
<1>1. scanRes \in Res /\ IsFiniteSet(holders[scanRes]) /\ LedgerTyped(leases)
  BY DEF HolderInv, Granting, LeaseInv, LedgerInv
<1>2. holders'[scanRes] = holders[scanRes] \cup {Latest(Head(scan))}
  BY <1>1 DEF Granting, HolderInv
<1>3. /\ IsFiniteSet(holders'[scanRes])
      /\ Cardinality(holders'[scanRes]) <= Cardinality(holders[scanRes]) + 1
      /\ Cardinality(holders[scanRes]) \in Nat /\ Cardinality(holders'[scanRes]) \in Nat
  <2>1. Cardinality(holders[scanRes]) \in Nat
    BY <1>1, FS_CardinalityType
  <2>2. /\ IsFiniteSet(holders'[scanRes])
        /\ Cardinality(holders'[scanRes]) = IF Latest(Head(scan)) \in holders[scanRes]
                                            THEN Cardinality(holders[scanRes]) ELSE Cardinality(holders[scanRes]) + 1
    BY <1>1, <1>2, FS_AddElement
  <2> QED
    BY <2>1, <2>2
<1>4. Reserved(scanRes, Head(scan)) \in Nat
  <2>1. Runs \ {RunOf[Head(scan)]} \subseteq Runs
    OBVIOUS
  <2> QED
    BY <1>1, <2>1, HeldNat, ReservedNat DEF Reserved, ReservedForOthers
<1> QED
  BY <1>3, <1>4 DEF Granting, Room, Used

LEMMA HolderStep == HolderInv /\ [Next]_vars => HolderInv'
<1> SUFFICES ASSUME HolderInv, [Next]_vars PROVE HolderInv'
  OBVIOUS
<1>1. LeaseInv' /\ (Policy # "needs" => leases = EmptyLedger)'
  <2>1. LeaseInv'
    BY LeaseStep DEF HolderInv
  <2>2. Policy' # "needs" => Policy # "needs"
    BY DEF Next, Dispatch, RunStart, RunEnd, Session, TimerFires, Tick, vars, Policy
  <2> QED
    BY <2>1, <2>2, PlainStep DEF HolderInv
<1>2. CASE Releasing
  <2>1. \A q \in Res : IsFiniteSet(holders[q]) /\ Cardinality(holders[q]) <= Cap[q] /\ holders'[q] \subseteq holders[q]
    BY <1>2 DEF HolderInv, Used, Releasing
  <2>2. \A q \in Res : IsFiniteSet(holders'[q]) /\ Cardinality(holders'[q]) <= Cap[q]
    <3> TAKE q \in Res
    <3>1. IsFiniteSet(holders'[q]) /\ Cardinality(holders'[q]) <= Cardinality(holders[q])
      BY <2>1, FS_Subset
    <3>2. Cardinality(holders'[q]) \in Nat /\ Cardinality(holders[q]) \in Nat /\ Cap[q] \in Nat
      BY <2>1, <3>1, FS_CardinalityType, LedgerAssumption
    <3> QED
      BY <2>1, <3>1, <3>2
  <2> QED
    BY <1>1, <1>2, <2>2 DEF HolderInv, Used, Releasing
<1>3. CASE Granting
  <2>1. /\ scanRes \in Res /\ holders = [q \in Res |-> holders[q]]
        /\ \A q \in Res : IsFiniteSet(holders[q]) /\ Cardinality(holders[q]) <= Cap[q]
    BY <1>3 DEF HolderInv, Used, Granting
  <2>2. IsFiniteSet(holders'[scanRes]) /\ Cardinality(holders'[scanRes]) <= Cap[scanRes]
    <3>1. Cap[scanRes] \in Nat
      BY <2>1, LedgerAssumption
    <3> QED
      BY <1>3, <3>1, GrantRoom
  <2>3. holders' = [q \in Res |-> holders'[q]] /\ \A q \in Res \ {scanRes} : holders'[q] = holders[q]
    BY <1>3, <2>1 DEF Granting
  <2>4. \A q \in Res : IsFiniteSet(holders'[q]) /\ Cardinality(holders'[q]) <= Cap[q]
    BY <2>1, <2>2, <2>3
  <2> QED
    BY <1>1, <2>3, <2>4 DEF HolderInv, Used
<1> QED
  BY <1>2, <1>3, HolderShape

LEMMA HolderInvariant == Spec => []HolderInv
<1>1. Init => HolderInv
  <2> SUFFICES ASSUME Init PROVE HolderInv
    OBVIOUS
  <2>1. LeaseInv /\ leases = EmptyLedger /\ holders = [q \in Res |-> {}]
    BY EmptyKeeps, GatewayAssumption DEF Init, LeaseInv, LoopInv
  <2>2. \A q \in Res : IsFiniteSet(holders[q]) /\ Cardinality(holders[q]) = 0 /\ Cap[q] \in Nat
    BY <2>1, FS_EmptySet, LedgerAssumption
  <2> QED
    BY <2>1, <2>2 DEF HolderInv, Used
<1> QED
  BY <1>1, HolderStep, PTL DEF Spec

\* Never more units in use than there are.
CapacityKept == \A q \in Res : Used(q) <= Cap[q]

\* No resource is ever used beyond its capacity, whatever the dispatch loop,
\* leases, timeouts and retries do in between.
THEOREM CapacityIsKept == Spec => []CapacityKept
<1>1. HolderInv => CapacityKept
  BY DEF HolderInv, CapacityKept
<1> QED
  BY <1>1, HolderInvariant, PTL

-----------------------------------------------------------------------------
(* What a grant leaves to those who reserved. *)

\* The taker's own lease is consumed, and the others hold what they held.
LEMMA GrantLeavesPending ==
  ASSUME HolderInv, Granting, NEW q \in Res, q = scanRes, Policy = "needs"
  PROVE  Pending(leases, q, Runs, HeldBy(q))' \subseteq
         Pending(leases, q, Runs \ {RunOf[Head(scan)]}, HeldBy(q))
<1> DEFINE me == RunOf[Head(scan)]
<1>1. leases \in [Res -> [Runs -> Leases]] /\ RunOf' = RunOf /\ holders = [p \in Res |-> holders[p]]
  BY DEF HolderInv, LeaseInv, LedgerInv, LedgerTyped, Granting, RunOf
<1>2. \A o \in Runs \ {me} : leases'[q][o] = leases[q][o]
  BY <1>1 DEF Granting, Consumed
<1>3. me \in Runs => me \notin ActiveAt(leases', q, 0)
  <2> SUFFICES ASSUME me \in Runs, me \in ActiveAt(leases', q, 0) PROVE FALSE
    OBVIOUS
  <2>1. CASE Own(leases, q, me) > 0
    <3>1. leases'[q][me] = NoLease
      BY <1>1, <2>1 DEF Granting, Consumed
    <3> QED
      BY <3>1 DEF ActiveAt, NoLease
  <2>2. CASE ~(Own(leases, q, me) > 0)
    <3>1. leases' = leases
      BY <2>2 DEF Granting
    <3> QED
      BY <2>2, <3>1 DEF Own, ActiveAt
  <2> QED
    BY <2>1, <2>2
<1>4. \A o \in Runs \ {me} : HeldBy(q)'[o] = HeldBy(q)[o]
  <2> TAKE o \in Runs \ {me}
  <2>1. holders'[q] = holders[q] \cup {Latest(Head(scan))} /\ Latest(Head(scan))[1] = Head(scan)
    BY <1>1 DEF Granting, Latest
  <2>2. {g \in holders'[q] : RunOf[g[1]] = o} = {g \in holders[q] : RunOf[g[1]] = o}
    BY <2>1
  <2> QED
    BY <1>1, <2>2 DEF HeldBy
<1>5. ASSUME NEW x \in Pending(leases, q, Runs, HeldBy(q))'
      PROVE  x \in Pending(leases, q, Runs \ {me}, HeldBy(q))
  <2>1. PICK o \in ActiveAt(leases', q, 0) \cap Runs : x \in {o} \X ((HeldBy(q)'[o] + 1) .. leases'[q][o].amt)
    BY <1>5 DEF Pending
  <2>2. o \in Runs \ {me}
    BY <1>3, <2>1
  <2>3. o \in ActiveAt(leases, q, 0)
    BY <1>2, <2>1, <2>2 DEF ActiveAt
  <2>4. x \in {o} \X ((HeldBy(q)[o] + 1) .. leases[q][o].amt)
    BY <1>2, <1>4, <2>1, <2>2
  <2> QED
    BY <2>2, <2>3, <2>4 DEF Pending
<1> QED
  BY <1>5

LEMMA GrantCovered ==
  ASSUME HolderInv, HolderInv', Granting, NEW q \in Res, q = scanRes
  PROVE  Covered(q)'
<1>1. /\ Cardinality(holders'[q]) <= Used(q) + 1 /\ Cardinality(holders'[q]) \in Nat /\ Used(q) \in Nat
      /\ Used(q) + 1 + Reserved(q, Head(scan)) <= Cap[q] /\ Reserved(q, Head(scan)) \in Nat
      /\ Cap[q] \in Nat
  BY GrantRoom, LedgerAssumption
<1>2. /\ LedgerTyped(leases) /\ IsFiniteSet(holders[q])
      /\ LedgerTyped(leases') /\ IsFiniteSet(holders'[q])
  BY DEF HolderInv, LeaseInv, LedgerInv
<1>3. (\A o \in Runs : HeldBy(q)[o] \in Nat) /\ (\A o \in Runs : HeldBy(q)[o] \in Nat)'
  <2>1. (IsFiniteSet(holders[q]) => \A o \in Runs : HeldBy(q)[o] \in Nat)'
    BY HeldNat, PTL
  <2> QED
    BY <1>2, <2>1, HeldNat
<1>4. Unconsumed(leases, q, Runs, HeldBy(q))' \in Nat
  BY <1>2, <1>3, ReservedNat
<1>5. Unconsumed(leases, q, Runs, HeldBy(q))' <= Reserved(q, Head(scan))
  <2>1. CASE Policy = "needs"
    <3> DEFINE S == Runs \ {RunOf[Head(scan)]}
    <3>1. S \subseteq Runs
      OBVIOUS
    <3> HIDE DEF S
    <3>2. IsFiniteSet(Pending(leases, q, S, HeldBy(q)))
      BY <1>2, <1>3, <3>1, ReservedNat
    <3>3. Pending(leases, q, Runs, HeldBy(q))' \subseteq Pending(leases, q, S, HeldBy(q))
      BY <2>1, GrantLeavesPending DEF S
    <3>4. Cardinality(Pending(leases, q, Runs, HeldBy(q))') <= Cardinality(Pending(leases, q, S, HeldBy(q)))
      BY <3>2, <3>3, FS_Subset
    <3>5. Unconsumed(leases, q, Runs, HeldBy(q))' = Cardinality(Pending(leases, q, Runs, HeldBy(q))')
      BY DEF Unconsumed, Pending
    <3>6. Reserved(q, Head(scan)) = Cardinality(Pending(leases, q, S, HeldBy(q)))
      BY <2>1 DEF Reserved, ReservedForOthers, Unconsumed, Pending, S
    <3> QED
      BY <3>4, <3>5, <3>6
  <2>2. CASE Policy # "needs"
    <3>1. leases' = EmptyLedger /\ Reserved(q, Head(scan)) = 0
      BY <2>2 DEF HolderInv, Granting, Reserved
    <3>2. ActiveAt(leases', q, 0) = {}
      BY <3>1 DEF ActiveAt, EmptyLedger, NoLease
    <3>3. Unconsumed(leases, q, Runs, HeldBy(q))' = 0
      BY <3>2, FS_EmptySet DEF Unconsumed
    <3> QED
      BY <3>1, <3>3
  <2> QED
    BY <2>1, <2>2
<1>6. Used(q)' = Cardinality(holders'[q])
  BY DEF Used
<1> QED
  BY <1>1, <1>4, <1>5, <1>6 DEF Covered

(***************************************************************************)
(* While the free units of a resource cover every active reservation, they *)
(* still do after any grant: nobody is given a unit another run was        *)
(* promised, with any number of runs, leases and resources.                *)
(***************************************************************************)
THEOREM GrantsSpareReservations == Spec => GrantsKeepReservations
<1>1. ASSUME HolderInv, HolderInv', [Next]_vars,
             NEW q \in Res, holders[q] \subseteq holders'[q], holders[q] # holders'[q]
      PROVE  Covered(q)'
  <2>1. Granting
    BY <1>1, HolderShape DEF Releasing
  <2>2. q = scanRes
    BY <1>1, <2>1 DEF Granting, HolderInv
  <2> QED
    BY <1>1, <2>1, <2>2, GrantCovered
<1>2. HolderInv /\ HolderInv' /\ [Next]_vars =>
        [\A q \in Res : Covered(q) /\ holders[q] \subseteq holders'[q] /\ holders[q] # holders'[q] => Covered(q)']_vars
  BY <1>1
<1> QED
  BY <1>2, HolderInvariant, PTL DEF Spec, GrantsKeepReservations
-----------------------------------------------------------------------------
(* Queues: no session is in one twice. *)

Once(seq) == \A i, j \in DOMAIN seq : seq[i] = seq[j] => i = j

LEMMA AppendShape ==
  ASSUME NEW S, NEW seq \in Seq(S), Once(seq), NEW s \in S, s \notin Queued(seq)
  PROVE  /\ Append(seq, s) \in Seq(S) /\ Once(Append(seq, s))
         /\ Queued(Append(seq, s)) = Queued(seq) \cup {s}
<1> DEFINE n == Len(seq)
           app == Append(seq, s)
<1>1. n \in Nat /\ DOMAIN seq = 1 .. n
  OBVIOUS
<1>2. /\ app \in Seq(S) /\ DOMAIN app = 1 .. n + 1
      /\ \A i \in 1 .. n : app[i] = seq[i]
      /\ app[n + 1] = s
  OBVIOUS
<1> HIDE DEF app, n
<1>3. \A i \in 1 .. n : seq[i] # s
  BY <1>1 DEF Queued
<1>4. Once(app)
  <2> SUFFICES ASSUME NEW i \in 1 .. n + 1, NEW j \in 1 .. n + 1, app[i] = app[j] PROVE i = j
    BY <1>2 DEF Once
  <2>1. (i \in 1 .. n \/ i = n + 1) /\ (j \in 1 .. n \/ j = n + 1)
    BY <1>1
  <2> QED
    BY <1>1, <1>2, <1>3, <2>1 DEF Once
<1>5. 1 .. n + 1 = (1 .. n) \cup {n + 1}
  BY <1>1
<1>6. Queued(app) = Queued(seq) \cup {s}
  BY <1>1, <1>2, <1>5 DEF Queued
<1> QED
  BY <1>2, <1>4, <1>6 DEF app

LEMMA TailShape ==
  ASSUME NEW S, NEW seq \in Seq(S), Once(seq), seq # <<>>
  PROVE  /\ Tail(seq) \in Seq(S) /\ Once(Tail(seq))
         /\ Head(seq) \in S /\ Head(seq) \in Queued(seq)
         /\ Queued(Tail(seq)) = Queued(seq) \ {Head(seq)}
<1> DEFINE n == Len(seq)
           t == Tail(seq)
<1>1. n \in Nat /\ n # 0 /\ DOMAIN seq = 1 .. n /\ Head(seq) = seq[1]
  OBVIOUS
<1>2. /\ t \in Seq(S) /\ DOMAIN t = 1 .. n - 1
      /\ \A i \in 1 .. n - 1 : t[i] = seq[i + 1]
  OBVIOUS
<1>3. Head(seq) \in S /\ Head(seq) \in Queued(seq)
  BY <1>1 DEF Queued
<1> HIDE DEF t, n
<1>4. \A i \in 1 .. n - 1 : i + 1 \in 1 .. n /\ i + 1 # 1
  BY <1>1
<1>5. Once(t)
  <2> SUFFICES ASSUME NEW i \in 1 .. n - 1, NEW j \in 1 .. n - 1, t[i] = t[j] PROVE i = j
    BY <1>2 DEF Once
  <2>1. seq[i + 1] = seq[j + 1]
    BY <1>2
  <2>2. i + 1 = j + 1
    BY <1>1, <1>4, <2>1 DEF Once
  <2> QED
    BY <1>1, <2>2
<1>6. ASSUME NEW x \in Queued(t) PROVE x \in Queued(seq) \ {Head(seq)}
  <2>1. PICK i \in 1 .. n - 1 : x = seq[i + 1]
    BY <1>2 DEF Queued
  <2>2. i + 1 \in DOMAIN seq /\ i + 1 # 1 /\ 1 \in DOMAIN seq
    BY <1>1, <1>4
  <2> QED
    BY <1>1, <2>1, <2>2 DEF Queued, Once
<1>7. ASSUME NEW x \in Queued(seq), x # Head(seq) PROVE x \in Queued(t)
  <2>1. PICK k \in 1 .. n : x = seq[k]
    BY <1>1 DEF Queued
  <2>2. k - 1 \in 1 .. n - 1 /\ (k - 1) + 1 = k
    BY <1>1, <1>7, <2>1
  <2>3. t[k - 1] = x
    BY <1>2, <2>1, <2>2
  <2> QED
    BY <1>2, <2>2, <2>3 DEF Queued
<1> QED
  BY <1>2, <1>3, <1>5, <1>6, <1>7 DEF t

LEMMA WithoutShape ==
  ASSUME NEW S, NEW seq \in Seq(S), Once(seq), NEW s
  PROVE  /\ Without(seq, s) \in Seq(S) /\ Once(Without(seq, s))
         /\ Queued(Without(seq, s)) = Queued(seq) \ {s}
<1> DEFINE n == Len(seq)
<1>1. n \in Nat /\ DOMAIN seq = 1 .. n /\ \A i \in 1 .. n : seq[i] \in S
  OBVIOUS
<1>2. CASE \A k \in DOMAIN seq : seq[k] # s
  BY <1>2 DEF Without, Queued
<1>3. CASE ~(\A k \in DOMAIN seq : seq[k] # s)
  <2> DEFINE at == CHOOSE k \in DOMAIN seq : seq[k] = s
             skip(i) == IF i < at THEN i ELSE i + 1
             w == [i \in 1 .. n - 1 |-> seq[skip(i)]]
  <2>1. at \in 1 .. n /\ seq[at] = s
    BY <1>1, <1>3
  <2>2. Without(seq, s) = w
    BY <1>3 DEF Without
  <2> HIDE DEF at, n
  <2>3. n - 1 \in Nat /\ at \in Nat
    BY <1>1, <2>1
  <2>4. \A i \in 1 .. n - 1 : skip(i) \in 1 .. n /\ skip(i) # at
    BY <1>1, <2>1
  <2>5. \A i, j \in 1 .. n - 1 : skip(i) = skip(j) => i = j
    BY <1>1, <2>1
  <2>6. \A k \in 1 .. n : k # at => \E i \in 1 .. n - 1 : skip(i) = k
    <3> SUFFICES ASSUME NEW k \in 1 .. n, k # at PROVE \E i \in 1 .. n - 1 : skip(i) = k
      OBVIOUS
    <3>1. CASE k < at
      <4>1. k \in 1 .. n - 1
        BY <1>1, <2>1, <3>1
      <4> QED
        BY <3>1, <4>1
    <3>2. CASE ~(k < at)
      <4>1. k - 1 \in 1 .. n - 1 /\ ~(k - 1 < at) /\ (k - 1) + 1 = k
        BY <1>1, <2>1, <3>2
      <4> QED
        BY <4>1
    <3> QED
      BY <3>1, <3>2
  <2> HIDE DEF skip
  <2>7. w \in Seq(S)
    <3>1. \A i \in 1 .. n - 1 : w[i] \in S
      BY <1>1, <2>4
    <3> QED
      BY <2>3, <3>1
  <2>8. DOMAIN w = 1 .. n - 1 /\ \A i \in 1 .. n - 1 : w[i] = seq[skip(i)]
    OBVIOUS
  <2> HIDE DEF w
  <2>9. Once(w)
    <3> SUFFICES ASSUME NEW i \in 1 .. n - 1, NEW j \in 1 .. n - 1, w[i] = w[j] PROVE i = j
      BY <2>8 DEF Once
    <3>1. seq[skip(i)] = seq[skip(j)] /\ skip(i) \in DOMAIN seq /\ skip(j) \in DOMAIN seq
      BY <1>1, <2>4, <2>8
    <3>2. skip(i) = skip(j)
      BY <3>1 DEF Once
    <3> QED
      BY <2>5, <3>2
  <2>10. ASSUME NEW x \in Queued(w) PROVE x \in Queued(seq) \ {s}
    <3>1. PICK i \in 1 .. n - 1 : x = seq[skip(i)]
      BY <2>8, <2>10 DEF Queued
    <3>2. skip(i) \in DOMAIN seq /\ skip(i) # at /\ at \in DOMAIN seq
      BY <1>1, <2>1, <2>4
    <3> QED
      BY <2>1, <3>1, <3>2 DEF Queued, Once
  <2>11. ASSUME NEW x \in Queued(seq), x # s PROVE x \in Queued(w)
    <3>1. PICK k \in 1 .. n : x = seq[k]
      BY <1>1 DEF Queued
    <3>2. PICK i \in 1 .. n - 1 : skip(i) = k
      BY <2>1, <2>6, <2>11, <3>1
    <3> QED
      BY <2>8, <3>1, <3>2 DEF Queued
  <2> QED
    BY <2>2, <2>7, <2>9, <2>10, <2>11
<1> QED
  BY <1>2, <1>3

\* Whatever the prediction, a pass goes through the waiters, each once.
LEMMA OrderShape ==
  ASSUME NEW q \in Res, NEW S, waiters[q] \in Seq(S), Once(waiters[q]), IsFiniteSet(S), NEW p \in Orders(q)
  PROVE  /\ p \in Seq(S) /\ Once(p) /\ Queued(p) \subseteq Queued(waiters[q])
         /\ Policy # "needs" => p = waiters[q]
<1>1. CASE Policy # "needs"
  BY <1>1 DEF Orders
<1>2. CASE Policy = "needs"
  <2> DEFINE Q == Queued(waiters[q])
  <2>1. p \in Arrangements(Q)
    BY <1>2 DEF Orders
  <2>2. Q \subseteq S
    BY DEF Queued
  <2> HIDE DEF Q
  <2>3. Cardinality(Q) \in Nat
    BY <2>2, FS_Subset, FS_CardinalityType
  <2>4. p \in [1 .. Cardinality(Q) -> Q] /\ Once(p)
    BY <2>1 DEF Arrangements, Once
  <2>5. p \in Seq(S)
    BY <2>2, <2>3, <2>4
  <2>6. Queued(p) \subseteq Q
    BY <2>4 DEF Queued
  <2> QED
    BY <1>2, <2>4, <2>5, <2>6 DEF Q
<1> QED
  BY <1>1, <1>2

-----------------------------------------------------------------------------
(* The queues. *)

States == {"idle", "again", "backoff", "chatWait", "calling", "toolWait", "tooling", "called", "failed",
           "judging", "gateWait", "gating", "judged", "over", "gaveup", "skipped", "crashed"}

Futures == {"none", "pending", "granted", "cancelled"}

QueueTyped ==
  /\ LoopInv
  /\ pc \in [Sids -> States] /\ calls \in [Sids -> Nat] /\ fut \in [Sids -> Futures]
  /\ expired \subseteq Sids
  /\ waiters \in [Res -> Seq(Sids)] /\ scan \in Seq(Sids)

\* A session waits exactly while it has a future, and while that is pending it
\* is queued; a timer has cancelled it or came too late.
WaiterSound(s) ==
  /\ pc[s] \in Waiting <=> fut[s] # "none"
  /\ fut[s] = "pending" => s \in Queued(waiters[Want(s)]) /\ s \notin expired
  /\ fut[s] = "cancelled" => s \in expired
  /\ s \in expired => fut[s] # "none" /\ Timeouts

WaitersSound(q) ==
  /\ Once(waiters[q])
  /\ \A s \in Queued(waiters[q]) : Want(s) = q /\ fut[s] \in {"pending", "cancelled"}

\* A pass looks at waiters that are still queued.
ScanSound == Once(scan) /\ Queued(scan) \subseteq Queued(waiters[scanRes])

QueueInv ==
  /\ QueueTyped
  /\ \A s \in Sids : WaiterSound(s)
  /\ \A q \in Res : WaitersSound(q)
  /\ ScanSound

LEMMA WorldFacts ==
  ASSUME world \in Worlds
  PROVE  /\ IsFiniteSet(Sids) /\ Sids \subseteq AllSids /\ Sandbox \in Res
         /\ \A s \in Sids : Tier[s] \in Res \ {Sandbox} /\ RunOf[s] \in Runs
         /\ MaxAttempts \in Nat \ {0} /\ Metered \subseteq Res
BY GatewayAssumption DEF IsWorld, Sids, AllSids, Tier, RunOf, MaxAttempts, Metered

LEMMA WantTyped == ASSUME QueueTyped, NEW s \in Sids PROVE Want(s) \in Res
BY WorldFacts DEF QueueTyped, LoopInv, Want

LEMMA WorldFixed == [Next]_vars => world' = world
BY DEF Next, Dispatch, RunStart, RunEnd, Session, TimerFires, Tick, vars

\* What is wanted depends on where the session is, nothing else.
LEMMA WantSame ==
  ASSUME NEW s, world' = world, pc'[s] = pc[s]
  PROVE  Want(s)' = Want(s)
BY DEF Want, Tier

-----------------------------------------------------------------------------
(* What a session's step does to the queues. *)

\* acquire, up to its await.
Asking(s) ==
  /\ AtRest /\ s \in Sids /\ pc[s] \notin Waiting
  /\ \E q \in Res : \E to \in Waiting :
       /\ q = (IF to = "chatWait" THEN Tier[s] ELSE Sandbox)
       /\ Enqueue(s, q, to)
  /\ UNCHANGED <<world, unit, expired, holders, short, leases, run>>

\* The session does something else than waiting, before and after the step.
Working(s) ==
  /\ AtRest /\ s \in Sids /\ pc[s] \notin Waiting
  /\ \E to \in States \ Waiting : pc' = [pc EXCEPT ![s] = to]
  /\ UNCHANGED <<world, calls, queue, run>>
  /\ DispatchAll \/ NoDispatch

LEMMA AgainState == ASSUME NEW s PROVE Again(s) \in {"again", "gaveup"}
BY DEF Again

LEMMA SessionShape ==
  ASSUME QueueTyped, NEW s, Session(s)
  PROVE  Asking(s) \/ Working(s) \/ Resume(s) \/ GiveUp(s)
<1>1. /\ s \in Sids /\ UNCHANGED world /\ Sandbox \in Res
      /\ Tier[s] \in Res /\ pc \in [Sids -> States]
  BY WorldFacts DEF Session, QueueTyped, LoopInv
<1>2. CASE CallModel(s)
  <2>1. "chatWait" \in Waiting /\ pc[s] \notin Waiting /\ AtRest
    BY <1>2 DEF CallModel, MayCall, Waiting, Turn
  <2>2. Enqueue(s, Tier[s], "chatWait") /\ UNCHANGED <<world, unit, expired, holders, short, leases, run>>
    BY <1>1, <1>2 DEF CallModel
  <2> QED
    BY <1>1, <2>1, <2>2 DEF Asking
<1>3. CASE CallTool(s)
  <2>1. "toolWait" \in Waiting /\ pc[s] \notin Waiting /\ AtRest
    BY <1>3 DEF CallTool, Waiting, Turn
  <2>2. Enqueue(s, Sandbox, "toolWait") /\ UNCHANGED <<world, unit, expired, holders, short, leases, run>>
    BY <1>1, <1>3 DEF CallTool
  <2> QED
    BY <1>1, <2>1, <2>2 DEF Asking
<1>4. CASE CallGate(s)
  <2>1. "gateWait" \in Waiting /\ pc[s] \notin Waiting /\ AtRest
    BY <1>4 DEF CallGate, Waiting, Turn
  <2>2. Enqueue(s, Sandbox, "gateWait") /\ UNCHANGED <<world, unit, expired, holders, short, leases, run>>
    BY <1>1, <1>4 DEF CallGate
  <2> QED
    BY <1>1, <2>1, <2>2 DEF Asking
<1>5. CASE CallRefused(s)
  <2>1. "backoff" \in States \ Waiting /\ pc[s] \notin Waiting /\ AtRest
    BY <1>5 DEF CallRefused, MayCall, Waiting, Turn, States
  <2> QED
    BY <1>1, <1>5, <2>1 DEF CallRefused, Working
<1>6. CASE CallBurned(s)
  <2>1. {"again", "gaveup"} \subseteq States \ Waiting /\ pc[s] \notin Waiting /\ AtRest
    BY <1>6 DEF CallBurned, MayCall, Waiting, Turn, States
  <2>2. \E to \in {"again", "gaveup"} : pc' = [pc EXCEPT ![s] = to]
    BY <1>6 DEF CallBurned
  <2> QED
    BY <1>1, <1>6, <2>1, <2>2 DEF CallBurned, Working
<1>7. CASE ToolReturns(s)
  <2>1. "called" \in States \ Waiting /\ pc[s] \notin Waiting /\ AtRest
    BY <1>7 DEF ToolReturns, Waiting, Turn, States
  <2> QED
    BY <1>1, <1>7, <2>1 DEF ToolReturns, Working
<1>8. CASE WorkerReturns(s)
  <2>1. {"judging", "failed", "gaveup", "crashed"} \subseteq States \ Waiting /\ pc[s] \notin Waiting /\ AtRest
    BY <1>8 DEF WorkerReturns, Waiting, Turn, States
  <2>2. \E to \in {"judging", "failed", "gaveup", "crashed"} : pc' = [pc EXCEPT ![s] = to]
    BY <1>8 DEF WorkerReturns
  <2> QED
    BY <1>1, <1>8, <2>1, <2>2 DEF WorkerReturns, Working
<1>9. CASE Rejected(s)
  <2>1. Again(s) \in States \ Waiting /\ pc[s] \notin Waiting /\ AtRest
    BY <1>9, AgainState DEF Rejected, Waiting, Turn, States
  <2> QED
    BY <1>1, <1>9, <2>1 DEF Rejected, Working
<1>10. CASE GateReturns(s)
  <2>1. {"judged", "gaveup", "crashed"} \subseteq States \ Waiting /\ pc[s] \notin Waiting /\ AtRest
    BY <1>10 DEF GateReturns, Waiting, Turn, States
  <2>2. \E to \in {"judged", "gaveup", "crashed"} : pc' = [pc EXCEPT ![s] = to]
    BY <1>10 DEF GateReturns
  <2> QED
    BY <1>1, <1>10, <2>1, <2>2 DEF GateReturns, Working
<1>11. CASE Verdict(s)
  <2>1. {"over", "gaveup", "crashed", Again(s)} \subseteq States \ Waiting /\ pc[s] \notin Waiting /\ AtRest
    BY <1>11, AgainState DEF Verdict, Waiting, Turn, States
  <2>2. \E to \in {"over", "gaveup", "crashed", Again(s)} : pc' = [pc EXCEPT ![s] = to]
    BY <1>11 DEF Verdict
  <2> QED
    BY <1>1, <1>11, <2>1, <2>2 DEF Verdict, Working
<1>12. CASE Skip(s)
  <2>1. "skipped" \in States \ Waiting /\ pc[s] \notin Waiting /\ AtRest
    BY <1>12 DEF Skip, Waiting, Turn, States
  <2> QED
    BY <1>1, <1>12, <2>1 DEF Skip, Working
<1> QED
  BY <1>2, <1>3, <1>4, <1>5, <1>6, <1>7, <1>8, <1>9, <1>10, <1>11, <1>12 DEF Session

-----------------------------------------------------------------------------
(* The queues stay sound. *)

\* A step that moves neither sessions in or out of waiting nor the queues.
LEMMA QueuesAlone ==
  ASSUME QueueInv, [Next]_vars, AtRest, UNCHANGED <<world, queue, calls>>, agenda' \subseteq Res,
         scan' = scan, scanRes' = scanRes,
         pc' \in [Sids -> States],
         \A s \in Sids : (pc'[s] = pc[s]) \/ (pc[s] \notin Waiting /\ pc'[s] \notin Waiting)
  PROVE  QueueInv'
<1>1. QueueTyped'
  BY DEF QueueInv, QueueTyped, LoopInv, queue, Sids
<1>2. ASSUME NEW s \in Sids PROVE WaiterSound(s)'
  <2>1. WaiterSound(s) /\ fut[s] \in Futures
    BY DEF QueueInv, QueueTyped
  <2>2. CASE pc'[s] = pc[s]
    BY <2>1, <2>2, WantSame DEF WaiterSound, queue, Timeouts
  <2>3. CASE pc[s] \notin Waiting /\ pc'[s] \notin Waiting
    BY <2>1, <2>3 DEF WaiterSound, queue, Timeouts
  <2> QED
    BY <2>2, <2>3
<1>3. ASSUME NEW q \in Res PROVE WaitersSound(q)'
  <2>1. WaitersSound(q) /\ waiters' = waiters /\ fut' = fut
    BY DEF QueueInv, queue
  <2>2. ASSUME NEW s \in Queued(waiters[q]) PROVE Want(s)' = q
    <3>1. s \in Sids
      BY DEF QueueInv, QueueTyped, Queued
    <3>2. Want(s) = q /\ fut[s] # "none"
      BY <2>1 DEF WaitersSound
    <3>3. pc[s] \in Waiting
      BY <3>1, <3>2 DEF QueueInv, WaiterSound
    <3> QED
      BY <3>1, <3>2, <3>3, WantSame
  <2> QED
    BY <2>1, <2>2 DEF WaitersSound
<1>4. ScanSound'
  BY DEF QueueInv, ScanSound, queue
<1> QED
  BY <1>1, <1>2, <1>3, <1>4 DEF QueueInv, Sids

LEMMA AskingQueues == ASSUME QueueInv, NEW s, Asking(s), LoopInv' PROVE QueueInv'
<1>1. PICK q \in Res, to \in Waiting : q = (IF to = "chatWait" THEN Tier[s] ELSE Sandbox) /\ Enqueue(s, q, to)
  BY DEF Asking
<1>2. /\ s \in Sids /\ pc[s] \notin Waiting /\ QueueTyped
      /\ world' = world /\ expired' = expired /\ scan' = scan /\ scanRes' = scanRes /\ scan = <<>>
  BY <1>1 DEF Asking, QueueInv, AtRest, Enqueue, DispatchOnly
<1>3. /\ pc' = [pc EXCEPT ![s] = to] /\ fut' = [fut EXCEPT ![s] = "pending"]
      /\ calls' = [calls EXCEPT ![s] = @ + 1]
      /\ waiters' = [waiters EXCEPT ![q] = Append(@, s)]
  BY <1>1 DEF Enqueue
<1>4. fut[s] = "none" /\ s \notin expired
  BY <1>2 DEF QueueInv, WaiterSound
<1>5. \A p \in Res : s \notin Queued(waiters[p])
  BY <1>4 DEF QueueInv, WaitersSound
<1>6. /\ waiters'[q] \in Seq(Sids) /\ Once(waiters'[q])
      /\ Queued(waiters'[q]) = Queued(waiters[q]) \cup {s}
  <2>1. waiters[q] \in Seq(Sids) /\ Once(waiters[q]) /\ waiters'[q] = Append(waiters[q], s)
    BY <1>2, <1>3 DEF QueueInv, QueueTyped, WaitersSound
  <2> QED
    BY <1>2, <1>5, <2>1, AppendShape
<1>7. \A p \in Res \ {q} : waiters'[p] = waiters[p]
  BY <1>2, <1>3 DEF QueueTyped
<1>8. /\ pc'[s] = to /\ fut'[s] = "pending" /\ s \in DOMAIN pc
      /\ \A o \in Sids \ {s} : pc'[o] = pc[o] /\ fut'[o] = fut[o]
  BY <1>2, <1>3 DEF QueueTyped
<1>9. Want(s)' = q
  BY <1>1, <1>2, <1>8 DEF Want, Tier
<1>10. QueueTyped'
  <2>1. to \in States
    BY DEF Waiting, States
  <2>2. pc' \in [Sids -> States] /\ fut' \in [Sids -> Futures] /\ calls' \in [Sids -> Nat]
    BY <1>2, <1>3, <2>1 DEF QueueTyped, Futures
  <2>3. waiters' \in [Res -> Seq(Sids)]
    BY <1>2, <1>3, <1>6 DEF QueueTyped
  <2> QED
    BY <1>2, <2>2, <2>3 DEF QueueTyped, Sids
<1>11. ASSUME NEW o \in Sids PROVE WaiterSound(o)'
  <2>1. CASE o = s
    BY <1>2, <1>4, <1>6, <1>8, <1>9, <2>1 DEF WaiterSound
  <2>2. CASE o # s
    <3>1. WaiterSound(o) /\ pc'[o] = pc[o] /\ fut'[o] = fut[o] /\ Want(o)' = Want(o) /\ Want(o) \in Res
      BY <1>2, <1>8, <2>2, WantSame, WantTyped DEF QueueInv
    <3>2. Queued(waiters[Want(o)]) \subseteq Queued(waiters'[Want(o)])
      BY <1>6, <1>7, <3>1
    <3> QED
      BY <1>2, <3>1, <3>2 DEF WaiterSound, Timeouts
  <2> QED
    BY <2>1, <2>2
<1>12. ASSUME NEW p \in Res PROVE WaitersSound(p)'
  <2>1. WaitersSound(p) /\ Queued(waiters[p]) \subseteq Sids
    BY <1>2 DEF QueueInv, QueueTyped, Queued
  <2>2. ASSUME NEW o \in Queued(waiters[p]) PROVE Want(o)' = p /\ fut'[o] \in {"pending", "cancelled"}
    <3>1. o \in Sids \ {s} /\ Want(o) = p /\ fut[o] \in {"pending", "cancelled"}
      BY <1>5, <2>1 DEF WaitersSound
    <3> QED
      BY <1>2, <1>8, <3>1, WantSame
  <2>3. CASE p = q
    BY <1>6, <1>8, <1>9, <2>2, <2>3 DEF WaitersSound
  <2>4. CASE p # q
    BY <1>7, <2>1, <2>2, <2>4 DEF WaitersSound
  <2> QED
    BY <2>3, <2>4
<1>13. ScanSound'
  BY <1>2 DEF ScanSound, Once, Queued
<1> QED
  BY <1>2, <1>10, <1>11, <1>12, <1>13 DEF QueueInv, Sids

\* A session stops waiting: it has its unit, or its timer fired and it gives up.
LEMMA LeavingQueues ==
  ASSUME QueueInv, LoopInv', NEW s \in Sids, AtRest, NEW to \in States \ Waiting, NEW q \in Res,
         pc' = [pc EXCEPT ![s] = to], fut' = [fut EXCEPT ![s] = "none"],
         UNCHANGED <<world, calls, scan, scanRes>>,
         expired' = expired \ {s},
         q = Want(s), \/ waiters' = waiters /\ s \notin Queued(waiters[q])
                      \/ waiters' = [waiters EXCEPT ![q] = Without(@, s)]
  PROVE  QueueInv'
<1>1. QueueTyped /\ scan = <<>>
  BY DEF QueueInv, AtRest
<1>2. /\ waiters'[q] \in Seq(Sids) /\ Once(waiters'[q])
      /\ Queued(waiters'[q]) = Queued(waiters[q]) \ {s}
  <2>1. waiters[q] \in Seq(Sids) /\ Once(waiters[q])
    BY <1>1 DEF QueueInv, QueueTyped, WaitersSound
  <2>2. (waiters'[q] = waiters[q] /\ s \notin Queued(waiters[q])) \/ waiters'[q] = Without(waiters[q], s)
    BY <1>1 DEF QueueTyped
  <2> QED
    BY <2>1, <2>2, WithoutShape
<1>3. (\A p \in Res \ {q} : waiters'[p] = waiters[p]) /\ waiters' = [p \in Res |-> waiters'[p]]
  BY <1>1 DEF QueueTyped
<1>4. /\ pc'[s] = to /\ fut'[s] = "none"
      /\ \A o \in Sids \ {s} : pc'[o] = pc[o] /\ fut'[o] = fut[o]
  BY <1>1 DEF QueueTyped
<1>5. \A p \in Res \ {q} : s \notin Queued(waiters[p])
  BY DEF QueueInv, WaitersSound
<1>6. QueueTyped'
  <2>1. pc' \in [Sids -> States] /\ fut' \in [Sids -> Futures]
    BY <1>1 DEF QueueTyped, Futures
  <2>2. waiters' \in [Res -> Seq(Sids)]
    BY <1>1, <1>2, <1>3 DEF QueueTyped
  <2> QED
    BY <1>1, <2>1, <2>2 DEF QueueTyped, Sids
<1>7. ASSUME NEW o \in Sids PROVE WaiterSound(o)'
  <2>1. CASE o = s
    BY <1>4, <2>1 DEF WaiterSound
  <2>2. CASE o # s
    <3>1. WaiterSound(o) /\ pc'[o] = pc[o] /\ fut'[o] = fut[o] /\ Want(o)' = Want(o) /\ Want(o) \in Res
      BY <1>1, <1>4, <2>2, WantSame, WantTyped DEF QueueInv
    <3>2. o \in Queued(waiters[Want(o)]) => o \in Queued(waiters'[Want(o)])
      BY <1>2, <1>3, <2>2, <3>1
    <3> QED
      BY <2>2, <3>1, <3>2 DEF WaiterSound, Timeouts
  <2> QED
    BY <2>1, <2>2
<1>8. ASSUME NEW p \in Res PROVE WaitersSound(p)'
  <2>1. WaitersSound(p) /\ Queued(waiters[p]) \subseteq Sids
    BY <1>1 DEF QueueInv, QueueTyped, Queued
  <2>2. ASSUME NEW o \in Queued(waiters[p]), o # s PROVE Want(o)' = p /\ fut'[o] \in {"pending", "cancelled"}
    <3>1. o \in Sids \ {s} /\ Want(o) = p /\ fut[o] \in {"pending", "cancelled"}
      BY <2>1, <2>2 DEF WaitersSound
    <3> QED
      BY <1>4, <3>1, WantSame
  <2>3. CASE p = q
    BY <1>2, <2>2, <2>3 DEF WaitersSound
  <2>4. CASE p # q
    BY <1>3, <1>5, <2>1, <2>2, <2>4 DEF WaitersSound
  <2> QED
    BY <2>3, <2>4
<1>9. ScanSound'
  BY <1>1 DEF ScanSound, Once, Queued
<1> QED
  BY <1>6, <1>7, <1>8, <1>9 DEF QueueInv, Sids

LEMMA TimerQueues == ASSUME QueueInv, LoopInv', NEW s, TimerFires(s) PROVE QueueInv'
<1>1. /\ s \in Sids /\ QueueTyped /\ WaiterSound(s) /\ Timeouts /\ pc[s] \in Waiting /\ AtRest
      /\ UNCHANGED <<world, pc, calls, waiters, scan, scanRes>> /\ expired' = expired \cup {s}
      /\ fut' = [fut EXCEPT ![s] = IF @ = "pending" THEN "cancelled" ELSE @]
  BY DEF TimerFires, QueueInv, Turn, session, NoDispatch, loop
<1>2. /\ fut'[s] = (IF fut[s] = "pending" THEN "cancelled" ELSE fut[s])
      /\ \A o \in Sids \ {s} : fut'[o] = fut[o]
      /\ fut[s] \in Futures
  BY <1>1 DEF QueueTyped
<1>3. QueueTyped'
  <2>1. fut' \in [Sids -> Futures]
    BY <1>1 DEF QueueTyped, Futures
  <2> QED
    BY <1>1, <2>1 DEF QueueTyped, Sids
<1>4. ASSUME NEW o \in Sids PROVE WaiterSound(o)'
  <2>1. WaiterSound(o) /\ Want(o)' = Want(o)
    BY <1>1, WantSame DEF QueueInv
  <2>2. CASE o = s
    BY <1>1, <1>2, <2>1, <2>2 DEF WaiterSound, Futures, Timeouts
  <2>3. CASE o # s
    BY <1>1, <1>2, <2>1, <2>3 DEF WaiterSound, Timeouts
  <2> QED
    BY <2>2, <2>3
<1>5. ASSUME NEW q \in Res PROVE WaitersSound(q)'
  <2>1. WaitersSound(q) /\ Queued(waiters[q]) \subseteq Sids
    BY <1>1 DEF QueueInv, QueueTyped, Queued
  <2>2. \A o \in Queued(waiters[q]) : Want(o)' = Want(o) /\ fut'[o] \in {"pending", "cancelled"}
    BY <1>1, <1>2, <2>1, WantSame DEF WaitersSound
  <2> QED
    BY <1>1, <2>1, <2>2 DEF WaitersSound
<1>6. ScanSound'
  BY <1>1 DEF ScanSound, QueueInv
<1> QED
  BY <1>1, <1>3, <1>4, <1>5, <1>6 DEF QueueInv, Sids

\* One waiter leaves the queue that is gone through: granted, or dropped because
\* its future was cancelled.
LEMMA ServedQueues ==
  ASSUME QueueInv, LoopInv', NEW s, scan # <<>>, s = Head(scan),
         UNCHANGED <<world, pc, calls, expired, scanRes>>,
         waiters' = [waiters EXCEPT ![scanRes] = Without(@, s)],
         scan' = Tail(scan),
         \/ fut[s] = "pending" /\ fut' = [fut EXCEPT ![s] = "granted"]
         \/ fut[s] = "cancelled" /\ fut' = fut
  PROVE  QueueInv'
<1> DEFINE q == scanRes
<1>1. QueueTyped /\ q \in Res /\ scan \in Seq(Sids) /\ Once(scan)
  BY DEF QueueInv, QueueTyped, LoopInv, ScanSound
<1>2. /\ Tail(scan) \in Seq(Sids) /\ Once(Tail(scan)) /\ s \in Sids /\ s \in Queued(scan)
      /\ Queued(Tail(scan)) = Queued(scan) \ {s}
  BY <1>1, TailShape
<1>3. s \in Queued(waiters[q]) /\ Want(s) = q
  BY <1>1, <1>2 DEF QueueInv, ScanSound, WaitersSound
<1>4. /\ waiters'[q] \in Seq(Sids) /\ Once(waiters'[q])
      /\ Queued(waiters'[q]) = Queued(waiters[q]) \ {s}
  <2>1. waiters[q] \in Seq(Sids) /\ Once(waiters[q])
    BY <1>1 DEF QueueInv, QueueTyped, WaitersSound
  <2>2. waiters'[q] = Without(waiters[q], s)
    BY <1>1 DEF QueueTyped
  <2> QED
    BY <2>1, <2>2, WithoutShape
<1>5. (\A p \in Res \ {q} : waiters'[p] = waiters[p]) /\ waiters' = [p \in Res |-> waiters'[p]]
  BY <1>1 DEF QueueTyped
<1>6. /\ \A o \in Sids \ {s} : fut'[o] = fut[o]
      /\ \/ fut[s] = "pending" /\ fut'[s] = "granted"
         \/ fut[s] = "cancelled" /\ fut'[s] = "cancelled"
  <2>1. fut \in [Sids -> Futures] /\ s \in Sids
    BY <1>1, <1>2 DEF QueueTyped
  <2>2. CASE fut[s] = "pending" /\ fut' = [fut EXCEPT ![s] = "granted"]
    BY <2>1, <2>2
  <2>3. CASE fut[s] = "cancelled" /\ fut' = fut
    BY <2>3
  <2> QED
    BY <2>2, <2>3
<1>7. \A p \in Res \ {q} : s \notin Queued(waiters[p])
  BY <1>3 DEF QueueInv, WaitersSound
<1>8. \A o \in Sids : Want(o)' = Want(o)
  BY WantSame
<1>9. QueueTyped'
  <2>1. fut' \in [Sids -> Futures]
    BY <1>1 DEF QueueTyped, Futures
  <2>2. waiters' \in [Res -> Seq(Sids)]
    BY <1>1, <1>4, <1>5 DEF QueueTyped
  <2> QED
    BY <1>1, <1>2, <2>1, <2>2 DEF QueueTyped, Sids
<1>10. ASSUME NEW o \in Sids PROVE WaiterSound(o)'
  <2>1. WaiterSound(o) /\ Want(o)' = Want(o) /\ Want(o) \in Res
    BY <1>1, <1>8, WantTyped DEF QueueInv
  <2>2. CASE o = s
    BY <1>6, <2>1, <2>2 DEF WaiterSound, Timeouts
  <2>3. CASE o # s
    <3>1. o \in Queued(waiters[Want(o)]) => o \in Queued(waiters'[Want(o)])
      BY <1>4, <1>5, <2>1, <2>3
    <3> QED
      BY <1>6, <2>1, <2>3, <3>1 DEF WaiterSound, Timeouts
  <2> QED
    BY <2>2, <2>3
<1>11. ASSUME NEW p \in Res PROVE WaitersSound(p)'
  <2>1. WaitersSound(p) /\ Queued(waiters[p]) \subseteq Sids
    BY <1>1 DEF QueueInv, QueueTyped, Queued
  <2>2. ASSUME NEW o \in Queued(waiters[p]), o # s PROVE Want(o)' = p /\ fut'[o] \in {"pending", "cancelled"}
    BY <1>6, <1>8, <2>1, <2>2 DEF WaitersSound
  <2>3. CASE p = q
    BY <1>4, <2>2, <2>3 DEF WaitersSound
  <2>4. CASE p # q
    BY <1>5, <1>7, <2>1, <2>2, <2>4 DEF WaitersSound
  <2> QED
    BY <2>3, <2>4
<1>12. ScanSound'
  BY <1>2, <1>4 DEF ScanSound, QueueInv
<1> QED
  BY <1>9, <1>10, <1>11, <1>12 DEF QueueInv, Sids

\* A pass begins, ends or goes on without touching the queue.
LEMMA ScanQueues ==
  ASSUME QueueInv, LoopInv', UNCHANGED <<world, pc, calls, fut, expired, waiters>>,
         scan' \in Seq(Sids), Once(scan'), Queued(scan') \subseteq Queued(waiters[scanRes'])
  PROVE  QueueInv'
<1>1. QueueTyped'
  BY DEF QueueInv, QueueTyped, Sids
<1>2. \A s \in Sids : Want(s)' = Want(s)
  BY WantSame
<1>3. ASSUME NEW s \in Sids PROVE WaiterSound(s)'
  BY <1>2 DEF QueueInv, WaiterSound, Timeouts
<1>4. ASSUME NEW q \in Res PROVE WaitersSound(q)'
  <2>1. WaitersSound(q) /\ Queued(waiters[q]) \subseteq Sids
    BY DEF QueueInv, QueueTyped, Queued
  <2> QED
    BY <1>2, <2>1 DEF WaitersSound
<1>5. ScanSound'
  BY DEF ScanSound
<1> QED
  BY <1>1, <1>3, <1>4, <1>5 DEF QueueInv, Sids

\* The waiter that is looked at is one of the queue, and has not been served.
LEMMA HeadFacts ==
  ASSUME QueueInv, scan # <<>>
  PROVE  /\ scanRes \in Res /\ Head(scan) \in Sids /\ Head(scan) \in Queued(scan)
         /\ Want(Head(scan)) = scanRes /\ fut[Head(scan)] \in {"pending", "cancelled"}
         /\ Tail(scan) \in Seq(Sids) /\ Once(Tail(scan))
         /\ Queued(Tail(scan)) = Queued(scan) \ {Head(scan)}
<1>1. scanRes \in Res /\ scan \in Seq(Sids) /\ ScanSound
  BY DEF QueueInv, QueueTyped, LoopInv
<1>2. /\ Head(scan) \in Sids /\ Head(scan) \in Queued(scan) /\ Tail(scan) \in Seq(Sids) /\ Once(Tail(scan))
      /\ Queued(Tail(scan)) = Queued(scan) \ {Head(scan)}
  BY <1>1, TailShape DEF ScanSound
<1>3. Head(scan) \in Queued(waiters[scanRes])
  BY <1>1, <1>2 DEF ScanSound
<1> QED
  BY <1>1, <1>2, <1>3 DEF QueueInv, WaitersSound

LEMMA DispatchQueues == ASSUME QueueInv, LoopInv', Dispatch PROVE QueueInv'
<1>1. QueueTyped /\ ScanSound /\ world' = world
  BY DEF QueueInv, Dispatch
<1>2. CASE BeginPass
  <2>1. PICK q \in agenda : scanRes' = q /\ scan' \in Orders(q)
    BY <1>2 DEF BeginPass
  <2>2. q \in Res /\ waiters[q] \in Seq(Sids) /\ Once(waiters[q]) /\ IsFiniteSet(Sids)
    BY <1>1, WorldFacts DEF QueueInv, QueueTyped, LoopInv, WaitersSound
  <2>3. scan' \in Seq(Sids) /\ Once(scan') /\ Queued(scan') \subseteq Queued(waiters[scanRes'])
    BY <2>1, <2>2, OrderShape
  <2> QED
    BY <1>1, <1>2, <2>3, ScanQueues DEF BeginPass, session, queue
<1>3. CASE scan # <<>> /\ Pass(Head(scan))
  <2> DEFINE s == Head(scan)
  <2>1. UNCHANGED <<world, pc, calls, expired, scanRes>>
    BY <1>1, <1>3 DEF Pass, session
  <2>2. CASE PassDone(s)
    BY <1>3, <2>1, <2>2, ServedQueues DEF PassDone
  <2>3. CASE Grant(s)
    BY <1>3, <2>1, <2>3, ServedQueues DEF Grant
  <2>4. CASE PassFull(s)
    <3>1. <<>> \in Seq(Sids) /\ Once(<<>>) /\ Queued(<<>>) = {}
      BY DEF Once, Queued
    <3> QED
      BY <2>1, <2>4, <3>1, ScanQueues DEF PassFull
  <2>5. CASE PassOver(s)
    BY <1>1, <1>3, <2>1, <2>5, HeadFacts, ScanQueues DEF PassOver, ScanSound
  <2> QED
    BY <1>3, <2>2, <2>3, <2>4, <2>5 DEF Pass
<1> QED
  BY <1>2, <1>3 DEF Dispatch

LEMMA QueueStep == QueueInv /\ [Next]_vars => QueueInv'
<1> SUFFICES ASSUME QueueInv, [Next]_vars PROVE QueueInv'
  OBVIOUS
<1>1. QueueTyped /\ LoopInv' /\ world' = world
  BY LoopStep, WorldFixed DEF QueueInv, QueueTyped
<1>2. CASE Dispatch
  BY <1>1, <1>2, DispatchQueues
<1>3. CASE Tick \/ \E r \in Runs : RunStart(r) \/ RunEnd(r)
  <2>1. AtRest /\ UNCHANGED <<session, queue, scan, scanRes>>
    BY <1>3 DEF Tick, RunStart, RunEnd, Turn, NoDispatch, DispatchAll, loop
  <2>2. pc' = pc /\ calls' = calls /\ agenda' \subseteq Res
    BY <1>1, <2>1 DEF session, LoopInv
  <2> QED
    BY <1>1, <2>1, <2>2, QueuesAlone DEF QueueTyped
<1>4. ASSUME NEW s, Session(s) PROVE QueueInv'
  <2>1. CASE Asking(s)
    BY <1>1, <2>1, AskingQueues
  <2>2. CASE Working(s)
    <3>1. PICK to \in States \ Waiting : pc' = [pc EXCEPT ![s] = to]
      BY <2>2 DEF Working
    <3>2. s \in Sids /\ pc[s] \notin Waiting /\ AtRest
          /\ UNCHANGED <<world, queue, calls, scan, scanRes>> /\ agenda' \subseteq Res
      BY <1>1, <2>2 DEF Working, NoDispatch, DispatchAll, loop, LoopInv
    <3>3. /\ pc' \in [Sids -> States]
          /\ \A o \in Sids : pc'[o] = pc[o] \/ (pc[o] \notin Waiting /\ pc'[o] \notin Waiting)
      BY <1>1, <3>1, <3>2 DEF QueueTyped
    <3> QED
      BY <3>2, <3>3, QueuesAlone
  <2>3. CASE Resume(s)
    <3>1. s \in Sids /\ AtRest /\ fut[s] = "granted" /\ s \notin expired /\ world' = world
      BY <1>1, <1>4, <2>3 DEF Session, Resume, Turn
    <3>2. \E to \in {"calling", "tooling", "gating"} : pc' = [pc EXCEPT ![s] = to]
      BY <2>3 DEF Resume, Waiting
    <3>3. PICK to \in States \ Waiting : pc' = [pc EXCEPT ![s] = to]
      BY <3>2 DEF States, Waiting
    <3>4. Want(s) \in Res /\ s \notin Queued(waiters[Want(s)])
      BY <1>1, <3>1, WantTyped DEF QueueInv, WaitersSound
    <3>5. fut' = [fut EXCEPT ![s] = "none"] /\ expired' = expired \ {s} /\ waiters' = waiters
          /\ UNCHANGED <<world, calls, scan, scanRes>>
      BY <2>3, <3>1 DEF Resume, NoDispatch, loop
    <3> QED
      BY <1>1, <3>1, <3>3, <3>4, <3>5, LeavingQueues
  <2>4. CASE GiveUp(s)
    <3>1. s \in Sids /\ AtRest /\ world' = world
      BY <1>1, <1>4, <2>4 DEF Session, GiveUp, Turn
    <3>2. \E to \in {Again(s), "crashed"} : pc' = [pc EXCEPT ![s] = to]
      BY <2>4 DEF GiveUp
    <3>3. PICK to \in States \ Waiting : pc' = [pc EXCEPT ![s] = to]
      BY <3>2, AgainState DEF States, Waiting
    <3>4. Want(s) \in Res
      BY <1>1, <3>1, WantTyped
    <3>5. fut' = [fut EXCEPT ![s] = "none"] /\ expired' = expired \ {s}
          /\ waiters' = [waiters EXCEPT ![Want(s)] = Without(@, s)]
          /\ UNCHANGED <<world, calls, scan, scanRes>>
      BY <2>4, <3>1 DEF GiveUp, NoDispatch, DispatchAll, loop
    <3> QED
      BY <1>1, <3>1, <3>3, <3>4, <3>5, LeavingQueues
  <2> QED
    BY <1>1, <1>4, <2>1, <2>2, <2>3, <2>4, SessionShape
<1>5. ASSUME NEW s, TimerFires(s) PROVE QueueInv'
  BY <1>1, <1>5, TimerQueues
<1>6. CASE UNCHANGED vars
  BY <1>1, <1>6, ScanQueues DEF vars, QueueInv, QueueTyped, ScanSound
<1> QED
  BY <1>2, <1>3, <1>4, <1>5, <1>6 DEF Next

LEMMA QueueInvariant == Spec => []QueueInv
<1>1. Init => QueueInv
  <2> SUFFICES ASSUME Init PROVE QueueInv
    OBVIOUS
  <2>1. LoopInv /\ Timeouts \in BOOLEAN
    BY GatewayAssumption DEF Init, LoopInv, IsWorld, Timeouts
  <2>2. QueueTyped
    BY <2>1 DEF Init, QueueTyped, States, Futures
  <2>3. \A q \in Res : waiters[q] = <<>> /\ Queued(waiters[q]) = {} /\ Once(waiters[q])
    BY DEF Init, Queued, Once
  <2>4. \A s \in Sids : fut[s] = "none" /\ pc[s] \notin Waiting /\ s \notin expired
    BY DEF Init, Waiting
  <2>5. scan = <<>> /\ Queued(scan) = {} /\ Once(scan)
    BY DEF Init, Queued, Once
  <2> QED
    BY <2>2, <2>3, <2>4, <2>5 DEF QueueInv, WaiterSound, WaitersSound, ScanSound
<1> QED
  BY <1>1, QueueStep, PTL DEF Spec

(***************************************************************************)
(* No waiter is lost or stale: whatever is granted, dropped, timed out or  *)
(* released in between, a session with an open request is in exactly one   *)
(* queue, once, the one of the resource it waits for, and every entry of a *)
(* queue is such a session or one whose timer has just cancelled it.       *)
(***************************************************************************)
THEOREM QueuesAreSound == Spec => []QueueSound
<1>1. QueueInv => QueueSound
  <2> SUFFICES ASSUME QueueInv, NEW q \in Res
               PROVE  /\ Once(waiters[q])
                      /\ \A i \in DOMAIN waiters[q] : LET s == waiters[q][i] IN
                           pc[s] \in Waiting /\ Want(s) = q /\ fut[s] \in {"pending", "cancelled"}
                      /\ \A s \in Sids : fut[s] = "pending" /\ Want(s) = q =>
                           \E i \in DOMAIN waiters[q] : waiters[q][i] = s
    BY DEF QueueSound, Once
  <2>1. WaitersSound(q) /\ Queued(waiters[q]) \subseteq Sids
    BY DEF QueueInv, QueueTyped, Queued
  <2>2. ASSUME NEW i \in DOMAIN waiters[q]
        PROVE  LET s == waiters[q][i] IN pc[s] \in Waiting /\ Want(s) = q /\ fut[s] \in {"pending", "cancelled"}
    <3> DEFINE s == waiters[q][i]
    <3>1. s \in Queued(waiters[q])
      BY DEF Queued
    <3>2. s \in Sids /\ Want(s) = q /\ fut[s] \in {"pending", "cancelled"}
      BY <2>1, <3>1 DEF WaitersSound
    <3> QED
      BY <3>2 DEF QueueInv, WaiterSound
  <2>3. ASSUME NEW s \in Sids, fut[s] = "pending", Want(s) = q
        PROVE  \E i \in DOMAIN waiters[q] : waiters[q][i] = s
    BY <2>3 DEF QueueInv, WaiterSound, Queued
  <2> QED
    BY <2>1, <2>2, <2>3 DEF WaitersSound
<1> QED
  BY <1>1, QueueInvariant, PTL

-----------------------------------------------------------------------------
(* Units and their owners. *)

\* The session s is answerable for its n-th Grant, a unit of q (see Owned).
Owns(s, q, n) ==
  \/ Tier[s] = q /\ n # 0 /\ n = unit[s].chat
  \/ Sandbox = q /\ n # 0 /\ n = unit[s].sand
  \/ pc[s] \in Waiting /\ fut[s] = "granted" /\ Want(s) = q /\ n = calls[s]

Booked(s, q, n) == <<s, n>> \in holders[q]

UnitTyped ==
  /\ unit \in [Sids -> [chat : Nat, sand : Nat]]
  /\ holders \in [Res -> SUBSET (Sids \X Nat)]

\* Which units a session has follows from where it is; what it answers for is
\* booked; without timeouts nothing else is; and the Grant it waits for has
\* not been booked yet.
UnitSound(s) ==
  /\ unit[s].chat # 0 <=> pc[s] \in {"calling", "toolWait", "tooling", "called"}
  /\ unit[s].sand # 0 <=> pc[s] \in {"tooling", "gating"}
  /\ pc[s] \in Waiting => calls[s] # 0
  /\ \A q \in Res, n \in Nat :
       /\ Owns(s, q, n) => Booked(s, q, n)
       /\ Booked(s, q, n) => n <= calls[s] /\ (fut[s] \in {"pending", "cancelled"} => n # calls[s])
       /\ ~Timeouts /\ Booked(s, q, n) => Owns(s, q, n)

UnitInv == UnitTyped /\ \A s \in Sids : UnitSound(s)

\* A step that concerns one session's units only.
LEMMA UnitMove ==
  ASSUME UnitInv, QueueTyped, world' = world, NEW s \in Sids, UnitTyped', UnitSound(s)',
         \A o \in Sids \ {s} : pc'[o] = pc[o] /\ fut'[o] = fut[o] /\ calls'[o] = calls[o] /\ unit'[o] = unit[o],
         \A o \in Sids \ {s}, q \in Res, n \in Nat : Booked(o, q, n)' <=> Booked(o, q, n)
  PROVE  UnitInv'
<1>1. ASSUME NEW o \in Sids, o # s PROVE UnitSound(o)'
  <2>1. UnitSound(o) /\ Want(o)' = Want(o) /\ Tier' = Tier /\ Timeouts' = Timeouts
    BY <1>1, WantSame DEF UnitInv, Tier, Timeouts
  <2>2. pc'[o] = pc[o] /\ fut'[o] = fut[o] /\ calls'[o] = calls[o] /\ unit'[o] = unit[o]
    BY <1>1
  <2>3. ASSUME NEW q, NEW n PROVE Owns(o, q, n)' <=> Owns(o, q, n)
    BY <2>1, <2>2 DEF Owns
  <2> QED
    BY <1>1, <2>1, <2>2, <2>3 DEF UnitSound
<1> QED
  BY <1>1 DEF UnitInv, Sids

\* Grants are of the session that gives them back.
LEMMA GivenBack ==
  ASSUME UnitTyped, world' = world, NEW s, NEW p \in Res, NEW k, holders' = [holders EXCEPT ![p] = @ \ {<<s, k>>}]
  PROVE  /\ holders' \in [Res -> SUBSET (Sids \X Nat)]
         /\ \A o, q, n : q \in Res => (Booked(o, q, n)' <=> Booked(o, q, n) /\ ~(o = s /\ q = p /\ n = k))
<1>1. holders \in [Res -> SUBSET (Sids \X Nat)]
  BY DEF UnitTyped
<1>2. /\ holders'[p] = holders[p] \ {<<s, k>>}
      /\ \A q \in Res \ {p} : holders'[q] = holders[q]
      /\ holders' = [q \in Res |-> holders'[q]]
  BY <1>1
<1>3. ASSUME NEW q \in Res PROVE holders'[q] \subseteq Sids \X Nat
  BY <1>1, <1>2
<1>4. ASSUME NEW o, NEW q \in Res, NEW n
      PROVE  Booked(o, q, n)' <=> Booked(o, q, n) /\ ~(o = s /\ q = p /\ n = k)
  <2>1. CASE q = p
    BY <1>2, <2>1 DEF Booked
  <2>2. CASE q # p
    BY <1>2, <2>2 DEF Booked
  <2> QED
    BY <2>1, <2>2
<1> QED
  BY <1>2, <1>3, <1>4

LEMMA AskingUnits == ASSUME UnitInv, QueueInv, NEW s, Session(s), Asking(s) PROVE UnitInv'
<1>1. /\ s \in Sids /\ world' = world /\ QueueTyped /\ UnitTyped /\ UnitSound(s) /\ pc[s] \notin Waiting
      /\ fut[s] = "none" /\ unit' = unit /\ holders' = holders /\ Sids' = Sids
  BY DEF Asking, QueueInv, UnitInv, WaiterSound, Sids
<1>2. PICK to \in Waiting : /\ pc' = [pc EXCEPT ![s] = to]
                            /\ calls' = [calls EXCEPT ![s] = @ + 1] /\ fut' = [fut EXCEPT ![s] = "pending"]
  BY DEF Asking, Enqueue
<1>3. /\ pc'[s] = to /\ fut'[s] = "pending" /\ calls'[s] = calls[s] + 1 /\ calls[s] \in Nat
      /\ \A o \in Sids \ {s} : pc'[o] = pc[o] /\ fut'[o] = fut[o] /\ calls'[o] = calls[o] /\ unit'[o] = unit[o]
  BY <1>1, <1>2 DEF QueueTyped
<1>4. \/ pc[s] \in {"idle", "again", "backoff"} /\ to = "chatWait"
      \/ pc[s] = "calling" /\ to = "toolWait"
      \/ pc[s] = "judging" /\ to = "gateWait"
  <2>1. CASE CallModel(s)
    <3>1. pc' = [pc EXCEPT ![s] = "chatWait"] /\ pc[s] \in {"idle", "again", "backoff"}
      BY <2>1 DEF CallModel, MayCall, Enqueue
    <3> QED
      BY <1>1, <1>3, <3>1 DEF QueueTyped
  <2>2. CASE CallTool(s)
    <3>1. pc' = [pc EXCEPT ![s] = "toolWait"] /\ pc[s] = "calling"
      BY <2>2 DEF CallTool, Enqueue
    <3> QED
      BY <1>1, <1>3, <3>1 DEF QueueTyped
  <2>3. CASE CallGate(s)
    <3>1. pc' = [pc EXCEPT ![s] = "gateWait"] /\ pc[s] = "judging"
      BY <2>3 DEF CallGate, Enqueue
    <3> QED
      BY <1>1, <1>3, <3>1 DEF QueueTyped
  <2>4. ~(\/ CallRefused(s) \/ CallBurned(s) \/ Resume(s) \/ GiveUp(s) \/ ToolReturns(s) \/ WorkerReturns(s)
          \/ Rejected(s) \/ GateReturns(s) \/ Verdict(s) \/ Skip(s))
    <3>1. calls'[s] # calls[s]
      BY <1>3
    <3> QED
      BY <3>1 DEF CallRefused, CallBurned, Resume, GiveUp, ToolReturns, WorkerReturns, Rejected, GateReturns,
                  Verdict, Skip
  <2> QED
    BY <2>1, <2>2, <2>3, <2>4 DEF Session
<1>5. /\ unit'[s].chat # 0 <=> pc'[s] \in {"calling", "toolWait", "tooling", "called"}
      /\ unit'[s].sand # 0 <=> pc'[s] \in {"tooling", "gating"}
      /\ calls'[s] # 0
  BY <1>1, <1>3, <1>4 DEF UnitSound
<1>6. ASSUME NEW q \in Res, NEW n \in Nat
      PROVE  /\ Owns(s, q, n)' => Booked(s, q, n)'
             /\ Booked(s, q, n)' => n <= calls'[s] /\ n # calls'[s]
             /\ ~Timeouts' /\ Booked(s, q, n)' => Owns(s, q, n)'
  <2>1. Owns(s, q, n)' <=> Owns(s, q, n)
    BY <1>1, <1>3 DEF Owns, Tier
  <2>2. Booked(s, q, n)' <=> Booked(s, q, n)
    BY <1>1 DEF Booked
  <2>3. Booked(s, q, n) => n <= calls[s]
    BY <1>1 DEF UnitSound
  <2> QED
    BY <1>1, <1>3, <2>1, <2>2, <2>3 DEF UnitSound, Timeouts
<1>7. UnitSound(s)' /\ UnitTyped'
  BY <1>1, <1>3, <1>5, <1>6 DEF UnitSound, UnitTyped
<1>8. \A o \in Sids \ {s}, q \in Res, n \in Nat : Booked(o, q, n)' <=> Booked(o, q, n)
  BY <1>1 DEF Booked
<1> QED
  BY <1>1, <1>3, <1>7, <1>8, UnitMove

\* Where a session has no unit and waits for none.
Quiet == {"idle", "again", "backoff", "failed", "judging", "judged", "over", "gaveup", "skipped", "crashed"}

LEMMA QuietUnits ==
  ASSUME UnitInv, QueueInv, NEW s \in Sids, world' = world, UNCHANGED <<unit, holders, fut, calls>>,
         NEW to \in Quiet, pc[s] \in Quiet, pc' = [pc EXCEPT ![s] = to]
  PROVE  UnitInv'
<1>1. QueueTyped /\ UnitTyped /\ UnitSound(s) /\ Sids' = Sids
  BY DEF QueueInv, UnitInv, Sids
<1>2. pc'[s] = to /\ \A o \in Sids \ {s} : pc'[o] = pc[o]
  BY <1>1 DEF QueueTyped
<1>3. pc[s] \notin Waiting /\ pc'[s] \notin Waiting
  BY <1>2 DEF Quiet, Waiting
<1>4. ASSUME NEW q \in Res, NEW n \in Nat
      PROVE  (Owns(s, q, n)' <=> Owns(s, q, n)) /\ (Booked(s, q, n)' <=> Booked(s, q, n))
  BY <1>3 DEF Owns, Booked, Tier
<1>5. /\ unit'[s].chat # 0 <=> pc'[s] \in {"calling", "toolWait", "tooling", "called"}
      /\ unit'[s].sand # 0 <=> pc'[s] \in {"tooling", "gating"}
  BY <1>1, <1>2 DEF UnitSound, Quiet
<1>6. UnitSound(s)'
  BY <1>1, <1>3, <1>4, <1>5 DEF UnitSound, Timeouts
<1>7. UnitTyped'
  BY <1>1 DEF UnitTyped
<1>8. \A o \in Sids \ {s}, q \in Res, n \in Nat : Booked(o, q, n)' <=> Booked(o, q, n)
  BY DEF Booked
<1> QED
  BY <1>1, <1>2, <1>6, <1>7, <1>8, UnitMove

\* The model unit goes back.
LEMMA ChatBack ==
  ASSUME UnitInv, QueueInv, NEW s \in Sids, world' = world, UNCHANGED <<fut, calls>>,
         NEW to \in {"judging", "failed", "gaveup", "crashed"}, pc[s] \in {"calling", "called"}, pc' = [pc EXCEPT ![s] = to],
         holders' = GiveChat(s), unit' = [unit EXCEPT ![s].chat = 0]
  PROVE  UnitInv'
<1>1. /\ QueueTyped /\ UnitTyped /\ UnitSound(s) /\ Sids' = Sids
      /\ Tier[s] \in Res /\ Tier[s] # Sandbox /\ Tier' = Tier
  BY WorldFacts DEF QueueInv, QueueTyped, LoopInv, UnitInv, Sids, Tier
<1>2. pc'[s] = to /\ \A o \in Sids \ {s} : pc'[o] = pc[o]
  BY <1>1 DEF QueueTyped
<1>3. pc[s] \notin Waiting /\ pc'[s] \notin Waiting
  BY <1>2 DEF Waiting
<1>4. /\ unit' \in [Sids -> [chat : Nat, sand : Nat]]
      /\ unit'[s].chat = 0 /\ unit'[s].sand = unit[s].sand
      /\ \A o \in Sids \ {s} : unit'[o] = unit[o]
  BY <1>1 DEF UnitTyped
<1>5. holders' = [holders EXCEPT ![Tier[s]] = @ \ {<<s, unit[s].chat>>}]
  BY DEF GiveChat
<1>6. /\ holders' \in [Res -> SUBSET (Sids \X Nat)]
      /\ \A o, q, n : q \in Res => (Booked(o, q, n)' <=> Booked(o, q, n) /\ ~(o = s /\ q = Tier[s] /\ n = unit[s].chat))
  BY <1>1, <1>5, GivenBack
<1>7. unit[s].sand = 0 /\ unit[s].chat # 0
  BY <1>1 DEF UnitSound
<1>8. \A q \in Res, n \in Nat : ~Owns(s, q, n)' /\ (Owns(s, q, n) <=> q = Tier[s] /\ n = unit[s].chat)
  BY <1>1, <1>3, <1>4, <1>7 DEF Owns
<1>9. UnitSound(s)'
  BY <1>1, <1>2, <1>3, <1>4, <1>6, <1>7, <1>8 DEF UnitSound, Timeouts
<1>10. UnitTyped'
  BY <1>1, <1>4, <1>6 DEF UnitTyped
<1>11. \A o \in Sids \ {s}, q \in Res, n \in Nat : Booked(o, q, n)' <=> Booked(o, q, n)
  BY <1>6
<1> QED
  BY <1>1, <1>2, <1>4, <1>9, <1>10, <1>11, UnitMove

\* The sandbox unit goes back, after a tool or a gate.
LEMMA SandBack ==
  ASSUME UnitInv, QueueInv, NEW s \in Sids, world' = world, UNCHANGED <<fut, calls>>,
         NEW to, (pc[s] = "tooling" /\ to = "called") \/ (pc[s] = "gating" /\ to \in {"judged", "gaveup", "crashed"}),
         pc' = [pc EXCEPT ![s] = to],
         holders' = GiveSand(s), unit' = [unit EXCEPT ![s].sand = 0]
  PROVE  UnitInv'
<1>1. /\ QueueTyped /\ UnitTyped /\ UnitSound(s) /\ Sids' = Sids
      /\ Tier[s] \in Res /\ Tier[s] # Sandbox /\ Tier' = Tier /\ Sandbox \in Res
  BY WorldFacts DEF QueueInv, QueueTyped, LoopInv, UnitInv, Sids, Tier
<1>2. pc'[s] = to /\ \A o \in Sids \ {s} : pc'[o] = pc[o]
  BY <1>1 DEF QueueTyped
<1>3. pc[s] \notin Waiting /\ pc'[s] \notin Waiting
  BY <1>2 DEF Waiting
<1>4. /\ unit' \in [Sids -> [chat : Nat, sand : Nat]]
      /\ unit'[s].sand = 0 /\ unit'[s].chat = unit[s].chat
      /\ \A o \in Sids \ {s} : unit'[o] = unit[o]
  BY <1>1 DEF UnitTyped
<1>5. holders' = [holders EXCEPT ![Sandbox] = @ \ {<<s, unit[s].sand>>}]
  BY DEF GiveSand
<1>6. /\ holders' \in [Res -> SUBSET (Sids \X Nat)]
      /\ \A o, q, n : q \in Res => (Booked(o, q, n)' <=> Booked(o, q, n) /\ ~(o = s /\ q = Sandbox /\ n = unit[s].sand))
  BY <1>1, <1>5, GivenBack
<1>7. unit[s].sand # 0
  BY <1>1 DEF UnitSound
<1>8. \A q \in Res, n \in Nat : Owns(s, q, n)' <=> Owns(s, q, n) /\ ~(q = Sandbox /\ n = unit[s].sand)
  BY <1>1, <1>3, <1>4, <1>7 DEF Owns
<1>9. UnitSound(s)'
  <2>1. /\ unit'[s].chat # 0 <=> pc'[s] \in {"calling", "toolWait", "tooling", "called"}
        /\ unit'[s].sand # 0 <=> pc'[s] \in {"tooling", "gating"}
    BY <1>1, <1>2, <1>4 DEF UnitSound
  <2> QED
    BY <1>1, <1>3, <1>6, <1>8, <2>1 DEF UnitSound, Timeouts
<1>10. UnitTyped'
  BY <1>1, <1>4, <1>6 DEF UnitTyped
<1>11. \A o \in Sids \ {s}, q \in Res, n \in Nat : Booked(o, q, n)' <=> Booked(o, q, n)
  BY <1>6
<1> QED
  BY <1>1, <1>2, <1>4, <1>9, <1>10, <1>11, UnitMove

\* The session takes over the Grant it waited for.
LEMMA ResumeUnits == ASSUME UnitInv, QueueInv, NEW s \in Sids, world' = world, Resume(s) PROVE UnitInv'
<1>1. /\ QueueTyped /\ UnitTyped /\ UnitSound(s) /\ Sids' = Sids
      /\ Tier[s] \in Res /\ Tier[s] # Sandbox /\ Tier' = Tier /\ Sandbox \in Res
  BY WorldFacts DEF QueueInv, QueueTyped, LoopInv, UnitInv, Sids, Tier
<1>2. pc[s] \in Waiting /\ fut[s] = "granted" /\ holders' = holders /\ calls' = calls
      /\ fut' = [fut EXCEPT ![s] = "none"] /\ calls[s] \in Nat
  BY <1>1 DEF Resume, QueueTyped
<1>3. \A o, q, n : Booked(o, q, n)' <=> Booked(o, q, n)
  BY <1>2 DEF Booked
<1>4. calls[s] # 0 /\ fut'[s] = "none" /\ \A o \in Sids \ {s} : fut'[o] = fut[o]
  BY <1>1, <1>2 DEF UnitSound, QueueTyped
<1>5. ASSUME NEW to, NEW u \in [chat : Nat, sand : Nat],
             pc' = [pc EXCEPT ![s] = to], unit' = [unit EXCEPT ![s] = u], to \notin Waiting,
             u.chat # 0 <=> to \in {"calling", "toolWait", "tooling", "called"},
             u.sand # 0 <=> to \in {"tooling", "gating"},
             \A q \in Res, n \in Nat : (\/ Tier[s] = q /\ n # 0 /\ n = u.chat
                                        \/ Sandbox = q /\ n # 0 /\ n = u.sand) <=> Owns(s, q, n)
      PROVE  UnitInv'
  <2>1. /\ pc'[s] = to /\ unit'[s] = u /\ unit' \in [Sids -> [chat : Nat, sand : Nat]]
        /\ \A o \in Sids \ {s} : pc'[o] = pc[o] /\ unit'[o] = unit[o]
    BY <1>1, <1>5 DEF QueueTyped, UnitTyped
  <2>2. \A q \in Res, n \in Nat : Owns(s, q, n)' <=> Owns(s, q, n)
    BY <1>1, <1>5, <2>1 DEF Owns
  <2>3. UnitSound(s)'
    BY <1>1, <1>2, <1>3, <1>4, <1>5, <2>1, <2>2 DEF UnitSound, Timeouts
  <2>4. UnitTyped'
    BY <1>1, <1>2, <2>1 DEF UnitTyped
  <2> QED
    BY <1>1, <1>2, <1>3, <1>4, <2>1, <2>3, <2>4, UnitMove
<1>6. unit[s] \in [chat : Nat, sand : Nat]
  BY <1>1 DEF UnitTyped
<1>7. CASE pc[s] = "chatWait"
  <2> DEFINE u == [unit[s] EXCEPT !.chat = calls[s]]
  <2>1. pc' = [pc EXCEPT ![s] = "calling"] /\ unit' = [unit EXCEPT ![s] = u] /\ "calling" \notin Waiting
    BY <1>7 DEF Resume, Waiting
  <2>2. u \in [chat : Nat, sand : Nat] /\ u.chat = calls[s] /\ u.sand = unit[s].sand
    BY <1>2, <1>6
  <2> HIDE DEF u
  <2>3. unit[s].chat = 0 /\ unit[s].sand = 0
    BY <1>1, <1>7 DEF UnitSound
  <2>4. \A q \in Res, n \in Nat : Owns(s, q, n) <=> q = Tier[s] /\ n = calls[s]
    BY <1>2, <1>7, <2>3 DEF Owns, Want
  <2>5. \A q \in Res, n \in Nat : (\/ Tier[s] = q /\ n # 0 /\ n = u.chat
                                   \/ Sandbox = q /\ n # 0 /\ n = u.sand) <=> Owns(s, q, n)
    BY <1>4, <2>2, <2>3, <2>4
  <2>6. /\ u.chat # 0 <=> "calling" \in {"calling", "toolWait", "tooling", "called"}
        /\ u.sand # 0 <=> "calling" \in {"tooling", "gating"}
    BY <1>4, <2>2, <2>3
  <2> QED
    BY <1>5, <2>1, <2>2, <2>5, <2>6
<1>8. CASE pc[s] \in {"toolWait", "gateWait"}
  <2> DEFINE u == [unit[s] EXCEPT !.sand = calls[s]]
             to == IF pc[s] = "toolWait" THEN "tooling" ELSE "gating"
  <2>1. pc' = [pc EXCEPT ![s] = to] /\ unit' = [unit EXCEPT ![s] = u] /\ to \notin Waiting
    BY <1>8 DEF Resume, Waiting
  <2>2. u \in [chat : Nat, sand : Nat] /\ u.sand = calls[s] /\ u.chat = unit[s].chat
    BY <1>2, <1>6
  <2> HIDE DEF u
  <2>3. unit[s].sand = 0 /\ (unit[s].chat # 0 <=> pc[s] = "toolWait")
    BY <1>1, <1>8 DEF UnitSound
  <2>4. \A q \in Res, n \in Nat :
          Owns(s, q, n) <=> \/ q = Tier[s] /\ n # 0 /\ n = unit[s].chat
                            \/ q = Sandbox /\ n = calls[s]
    BY <1>2, <1>8, <2>3 DEF Owns, Want
  <2>5. \A q \in Res, n \in Nat : (\/ Tier[s] = q /\ n # 0 /\ n = u.chat
                                   \/ Sandbox = q /\ n # 0 /\ n = u.sand) <=> Owns(s, q, n)
    BY <1>4, <2>2, <2>4
  <2>6. /\ u.chat # 0 <=> to \in {"calling", "toolWait", "tooling", "called"}
        /\ u.sand # 0 <=> to \in {"tooling", "gating"}
    BY <1>4, <1>8, <2>2, <2>3
  <2> HIDE DEF to
  <2> QED
    BY <1>5, <2>1, <2>2, <2>5, <2>6
<1> QED
  BY <1>2, <1>7, <1>8 DEF Waiting

\* The session gives up waiting: what it had goes back, and what it may have
\* been granted meanwhile stays booked.
LEMMA GiveUpUnits == ASSUME UnitInv, QueueInv, NEW s \in Sids, world' = world, GiveUp(s) PROVE UnitInv'
<1>1. /\ QueueTyped /\ UnitTyped /\ UnitSound(s) /\ WaiterSound(s) /\ Sids' = Sids
      /\ Tier[s] \in Res /\ Tier[s] # Sandbox /\ Tier' = Tier
  BY WorldFacts DEF QueueInv, QueueTyped, LoopInv, UnitInv, Sids, Tier
<1>2. /\ pc[s] \in Waiting /\ s \in expired /\ calls' = calls /\ calls[s] \in Nat
      /\ fut' = [fut EXCEPT ![s] = "none"]
  BY <1>1 DEF GiveUp, QueueTyped
<1>3. Timeouts' /\ fut'[s] = "none" /\ \A o \in Sids \ {s} : fut'[o] = fut[o]
  BY <1>1, <1>2 DEF WaiterSound, QueueTyped, Timeouts
<1>4. ASSUME NEW to \in {"again", "gaveup", "crashed"}, pc' = [pc EXCEPT ![s] = to], UnitTyped',
             unit'[s].chat = 0, unit'[s].sand = 0, \A o \in Sids \ {s} : unit'[o] = unit[o],
             \A o \in Sids, q \in Res, n \in Nat : Booked(o, q, n)' => Booked(o, q, n),
             \A o \in Sids \ {s}, q \in Res, n \in Nat : Booked(o, q, n)' <=> Booked(o, q, n)
      PROVE  UnitInv'
  <2>1. /\ pc'[s] = to /\ \A o \in Sids \ {s} : pc'[o] = pc[o]
        /\ pc'[s] \notin Waiting
    BY <1>1, <1>4 DEF QueueTyped, Waiting
  <2>2. \A q \in Res, n \in Nat : ~Owns(s, q, n)'
    BY <1>4, <2>1 DEF Owns
  <2>3. \A q \in Res, n \in Nat : Booked(s, q, n)' => n <= calls'[s]
    BY <1>1, <1>2, <1>4 DEF UnitSound
  <2>4. /\ unit'[s].chat # 0 <=> pc'[s] \in {"calling", "toolWait", "tooling", "called"}
        /\ unit'[s].sand # 0 <=> pc'[s] \in {"tooling", "gating"}
    BY <1>4, <2>1
  <2>5. UnitSound(s)'
    BY <1>3, <2>1, <2>2, <2>3, <2>4 DEF UnitSound
  <2> QED
    BY <1>1, <1>2, <1>3, <1>4, <2>1, <2>5, UnitMove
<1>5. CASE pc[s] = "toolWait"
  <2>1. /\ pc' = [pc EXCEPT ![s] = "crashed"] /\ unit' = [unit EXCEPT ![s].chat = 0]
        /\ holders' = [holders EXCEPT ![Tier[s]] = @ \ {<<s, unit[s].chat>>}]
    BY <1>5 DEF GiveUp, GiveChat
  <2>2. /\ unit' \in [Sids -> [chat : Nat, sand : Nat]]
        /\ unit'[s].chat = 0 /\ unit'[s].sand = unit[s].sand
        /\ \A o \in Sids \ {s} : unit'[o] = unit[o]
    BY <1>1, <2>1 DEF UnitTyped
  <2>3. unit[s].sand = 0
    BY <1>1, <1>5 DEF UnitSound
  <2>4. /\ holders' \in [Res -> SUBSET (Sids \X Nat)]
        /\ \A o, q, n : q \in Res => (Booked(o, q, n)' <=> Booked(o, q, n) /\ ~(o = s /\ q = Tier[s] /\ n = unit[s].chat))
    BY <1>1, <2>1, GivenBack
  <2>5. UnitTyped'
    BY <1>1, <2>2, <2>4 DEF UnitTyped
  <2>6. /\ \A o \in Sids, q \in Res, n \in Nat : Booked(o, q, n)' => Booked(o, q, n)
        /\ \A o \in Sids \ {s}, q \in Res, n \in Nat : Booked(o, q, n)' <=> Booked(o, q, n)
    BY <2>4
  <2> QED
    BY <1>4, <2>1, <2>2, <2>3, <2>5, <2>6
<1>6. CASE pc[s] \in {"chatWait", "gateWait"}
  <2>1. /\ \E to \in {Again(s), "crashed"} : pc' = [pc EXCEPT ![s] = to]
        /\ unit' = unit /\ holders' = holders
    BY <1>6 DEF GiveUp
  <2>2. PICK to \in {"again", "gaveup", "crashed"} : pc' = [pc EXCEPT ![s] = to]
    BY <2>1, AgainState
  <2>3. unit[s].chat = 0 /\ unit[s].sand = 0
    BY <1>1, <1>6 DEF UnitSound
  <2>4. UnitTyped'
    BY <1>1, <2>1 DEF UnitTyped
  <2>5. \A o \in Sids, q \in Res, n \in Nat : Booked(o, q, n)' <=> Booked(o, q, n)
    BY <2>1 DEF Booked
  <2> QED
    BY <1>4, <2>1, <2>2, <2>3, <2>4, <2>5
<1> QED
  BY <1>2, <1>5, <1>6 DEF Waiting

LEMMA TimerUnits == ASSUME UnitInv, QueueInv, NEW s, TimerFires(s) PROVE UnitInv'
<1>1. /\ s \in Sids /\ QueueTyped /\ UnitTyped /\ UnitSound(s) /\ world' = world /\ Sids' = Sids
      /\ pc' = pc /\ calls' = calls /\ unit' = unit /\ holders' = holders
      /\ fut' = [fut EXCEPT ![s] = IF @ = "pending" THEN "cancelled" ELSE @]
  BY DEF TimerFires, QueueInv, UnitInv, session, Sids
<1>2. /\ fut'[s] = (IF fut[s] = "pending" THEN "cancelled" ELSE fut[s])
      /\ \A o \in Sids \ {s} : fut'[o] = fut[o]
  BY <1>1 DEF QueueTyped
<1>3. \A o, q, n : Booked(o, q, n)' <=> Booked(o, q, n)
  BY <1>1 DEF Booked
<1>4. /\ Want(s)' = Want(s) /\ Tier' = Tier
      /\ fut'[s] = "granted" <=> fut[s] = "granted"
      /\ fut'[s] \in {"pending", "cancelled"} => fut[s] \in {"pending", "cancelled"}
  BY <1>1, <1>2, WantSame DEF Tier
<1>5. \A q \in Res, n \in Nat : Owns(s, q, n)' <=> Owns(s, q, n)
  BY <1>1, <1>4 DEF Owns
<1>6. UnitSound(s)'
  BY <1>1, <1>3, <1>4, <1>5 DEF UnitSound, Timeouts
<1>7. UnitTyped'
  BY <1>1 DEF UnitTyped
<1> QED
  BY <1>1, <1>2, <1>3, <1>6, <1>7, UnitMove

LEMMA GrantUnits ==
  ASSUME UnitInv, QueueInv, scan # <<>>, world' = world, NEW s, s = Head(scan), Grant(s),
         UNCHANGED <<pc, calls, unit>>
  PROVE  UnitInv'
<1> DEFINE p == scanRes
<1>1. /\ s \in Sids /\ p \in Res /\ Want(s) = p /\ fut[s] \in {"pending", "cancelled"}
      /\ QueueTyped /\ UnitTyped /\ UnitSound(s) /\ WaiterSound(s) /\ Sids' = Sids
      /\ calls[s] \in Nat /\ Sids' = Sids
  BY HeadFacts DEF QueueInv, QueueTyped, UnitInv, Sids
<1>2. fut' = [fut EXCEPT ![s] = "granted"] /\ holders' = [holders EXCEPT ![p] = @ \cup {<<s, calls[s]>>}]
  BY DEF Grant, Latest
<1>3. fut'[s] = "granted" /\ \A o \in Sids \ {s} : fut'[o] = fut[o]
  BY <1>1, <1>2 DEF QueueTyped
<1>4. /\ holders'[p] = holders[p] \cup {<<s, calls[s]>>}
      /\ \A q \in Res \ {p} : holders'[q] = holders[q]
      /\ holders' = [q \in Res |-> holders'[q]]
  BY <1>1, <1>2 DEF UnitTyped
<1>5. \A o, q, n : q \in Res => (Booked(o, q, n)' <=> Booked(o, q, n) \/ (o = s /\ q = p /\ n = calls[s]))
  BY <1>4 DEF Booked
<1>6. UnitTyped'
  <2>1. \A q \in Res : holders'[q] \subseteq Sids \X Nat
    BY <1>1, <1>4 DEF UnitTyped
  <2> QED
    BY <1>1, <1>4, <2>1 DEF UnitTyped
<1>7. pc[s] \in Waiting /\ Want(s)' = p /\ Tier' = Tier
  BY <1>1, WantSame DEF WaiterSound, Tier
<1>8. \A q \in Res, n \in Nat : Owns(s, q, n)' <=> Owns(s, q, n) \/ (q = p /\ n = calls[s])
  BY <1>1, <1>3, <1>7 DEF Owns
<1>9. UnitSound(s)'
  BY <1>1, <1>3, <1>5, <1>7, <1>8 DEF UnitSound, Timeouts
<1>10. \A o \in Sids \ {s}, q \in Res, n \in Nat : Booked(o, q, n)' <=> Booked(o, q, n)
  BY <1>5
<1> QED
  BY <1>1, <1>3, <1>6, <1>9, <1>10, UnitMove

\* Where nothing of this is touched.
LEMMA UnitsAlone ==
  ASSUME UnitInv, UNCHANGED <<world, pc, fut, calls, unit, holders>> PROVE UnitInv'
<1>1. \A s \in Sids : Want(s)' = Want(s) /\ Tier' = Tier /\ Timeouts' = Timeouts
  BY WantSame DEF Tier, Timeouts
<1>2. ASSUME NEW s \in Sids PROVE UnitSound(s)'
  <2>1. \A q, n : (Owns(s, q, n)' <=> Owns(s, q, n)) /\ (Booked(s, q, n)' <=> Booked(s, q, n))
    BY <1>1 DEF Owns, Booked
  <2> QED
    BY <1>1, <2>1 DEF UnitInv, UnitSound
<1> QED
  BY <1>2 DEF UnitInv, UnitTyped, Sids

LEMMA UnitStep == UnitInv /\ QueueInv /\ [Next]_vars => UnitInv'
<1> SUFFICES ASSUME UnitInv, QueueInv, [Next]_vars PROVE UnitInv'
  OBVIOUS
<1>1. world' = world /\ QueueTyped
  BY WorldFixed DEF QueueInv
<1>2. CASE Dispatch
  <2>1. CASE BeginPass
    BY <1>1, <2>1, UnitsAlone DEF BeginPass, session, queue
  <2>2. CASE scan # <<>> /\ Pass(Head(scan))
    <3>1. UNCHANGED <<pc, calls, unit>>
      BY <2>2 DEF Pass, session
    <3>2. CASE Grant(Head(scan))
      BY <1>1, <2>2, <3>1, <3>2, GrantUnits
    <3>3. CASE PassDone(Head(scan)) \/ PassFull(Head(scan)) \/ PassOver(Head(scan))
      BY <1>1, <3>1, <3>3, UnitsAlone DEF PassDone, PassFull, PassOver
    <3> QED
      BY <2>2, <3>2, <3>3 DEF Pass
  <2> QED
    BY <1>2, <2>1, <2>2 DEF Dispatch
<1>3. CASE Tick \/ \E r \in Runs : RunStart(r) \/ RunEnd(r)
  BY <1>1, <1>3, UnitsAlone DEF Tick, RunStart, RunEnd, session, queue
<1>4. ASSUME NEW s, Session(s) PROVE UnitInv'
  <2>0. s \in Sids
    BY <1>4 DEF Session
  <2>1. CASE CallModel(s) \/ CallTool(s) \/ CallGate(s)
    <3>1. calls'[s] # calls[s] /\ calls' # calls
      <4>1. calls' = [calls EXCEPT ![s] = @ + 1]
        BY <2>1 DEF CallModel, CallTool, CallGate, Enqueue
      <4> QED
        BY <1>1, <2>0, <4>1 DEF QueueTyped
    <3>2. Asking(s)
      <4>1. ~Working(s) /\ ~Resume(s) /\ ~GiveUp(s)
        BY <3>1 DEF Working, Resume, GiveUp
      <4> QED
        BY <1>1, <1>4, <4>1, SessionShape
    <3> QED
      BY <1>4, <3>2, AskingUnits
  <2>2. CASE CallRefused(s) \/ CallBurned(s) \/ Rejected(s) \/ Verdict(s) \/ Skip(s)
    <3>1. UNCHANGED <<unit, holders, fut, calls>>
      BY <2>2 DEF CallRefused, CallBurned, Rejected, Verdict, Skip, queue
    <3>2. pc[s] \in Quiet
      BY <2>2 DEF CallRefused, CallBurned, Rejected, Verdict, Skip, MayCall, Quiet
    <3>3. \E to \in {"backoff", "again", "gaveup", "over", "skipped", "crashed", Again(s)} :
            pc' = [pc EXCEPT ![s] = to]
      BY <2>2 DEF CallRefused, CallBurned, Rejected, Verdict, Skip
    <3>4. PICK to \in Quiet : pc' = [pc EXCEPT ![s] = to]
      BY <3>3, AgainState DEF Quiet
    <3> QED
      BY <1>1, <2>0, <3>1, <3>2, <3>4, QuietUnits
  <2>3. CASE Resume(s)
    BY <1>1, <2>0, <2>3, ResumeUnits
  <2>4. CASE GiveUp(s)
    BY <1>1, <2>0, <2>4, GiveUpUnits
  <2>5. CASE ToolReturns(s) \/ GateReturns(s)
    <3>1. /\ UNCHANGED <<fut, calls>> /\ holders' = GiveSand(s) /\ unit' = [unit EXCEPT ![s].sand = 0]
          /\ \/ pc[s] = "tooling" /\ pc' = [pc EXCEPT ![s] = "called"]
             \/ pc[s] = "gating" /\ \E to \in {"judged", "gaveup", "crashed"} : pc' = [pc EXCEPT ![s] = to]
      BY <2>5 DEF ToolReturns, GateReturns, queue
    <3>2. PICK to : /\ pc' = [pc EXCEPT ![s] = to]
                    /\ \/ pc[s] = "tooling" /\ to = "called"
                       \/ pc[s] = "gating" /\ to \in {"judged", "gaveup", "crashed"}
      BY <3>1
    <3> QED
      BY <1>1, <2>0, <3>1, <3>2, SandBack
  <2>6. CASE WorkerReturns(s)
    <3>1. /\ UNCHANGED <<fut, calls>> /\ holders' = GiveChat(s) /\ unit' = [unit EXCEPT ![s].chat = 0]
          /\ pc[s] \in {"calling", "called"}
      BY <2>6 DEF WorkerReturns, queue
    <3>2. PICK to \in {"judging", "failed", "gaveup", "crashed"} : pc' = [pc EXCEPT ![s] = to]
      BY <2>6 DEF WorkerReturns
    <3> QED
      BY <1>1, <2>0, <3>1, <3>2, ChatBack
  <2> QED
    BY <1>4, <2>1, <2>2, <2>3, <2>4, <2>5, <2>6 DEF Session
<1>5. ASSUME NEW s, TimerFires(s) PROVE UnitInv'
  BY <1>5, TimerUnits
<1>6. CASE UNCHANGED vars
  BY <1>6, UnitsAlone DEF vars
<1> QED
  BY <1>2, <1>3, <1>4, <1>5, <1>6 DEF Next

LEMMA UnitInvariant == Spec => []UnitInv
<1>1. Init => UnitInv
  <2> SUFFICES ASSUME Init PROVE UnitInv
    OBVIOUS
  <2>1. UnitTyped
    BY DEF Init, UnitTyped
  <2>2. ASSUME NEW s \in Sids PROVE UnitSound(s)
    <3>1. unit[s].chat = 0 /\ unit[s].sand = 0 /\ pc[s] = "idle"
      BY DEF Init
    <3>2. \A q \in Res, n \in Nat : ~Owns(s, q, n) /\ ~Booked(s, q, n)
      BY <3>1 DEF Owns, Booked, Init, Waiting
    <3> QED
      BY <3>1, <3>2 DEF UnitSound, Waiting
  <2> QED
    BY <2>1, <2>2 DEF UnitInv
<1> QED
  BY <1>1, UnitStep, QueueInvariant, PTL DEF Spec

LEMMA OwnedGrants ==
  ASSUME UnitTyped, QueueTyped, NEW q \in Res, NEW g
  PROVE  g \in Owned(q) <=> \E s \in Sids : \E n \in Nat : Owns(s, q, n) /\ g = <<s, n>>
<1>1. \A s \in Sids : unit[s].chat \in Nat /\ unit[s].sand \in Nat /\ calls[s] \in Nat
  BY DEF UnitTyped, QueueTyped
<1>2. ASSUME g \in Owned(q) PROVE \E s \in Sids : \E n \in Nat : Owns(s, q, n) /\ g = <<s, n>>
  <2>1. PICK s \in Sids : \/ Tier[s] = q /\ unit[s].chat # 0 /\ g = <<s, unit[s].chat>>
                          \/ Sandbox = q /\ unit[s].sand # 0 /\ g = <<s, unit[s].sand>>
                          \/ pc[s] \in Waiting /\ fut[s] = "granted" /\ Want(s) = q /\ g = <<s, calls[s]>>
    BY <1>2 DEF Owned, Latest
  <2> QED
    BY <1>1, <2>1 DEF Owns
<1>3. ASSUME NEW s \in Sids, NEW n \in Nat, Owns(s, q, n), g = <<s, n>> PROVE g \in Owned(q)
  BY <1>3 DEF Owned, Owns, Latest
<1> QED
  BY <1>2, <1>3

(***************************************************************************)
(* What a session counts on is booked: no unit is released that was not    *)
(* taken, or released twice (Resource.give raises on that); and where      *)
(* calls do not time out, every booked unit has a session that will give   *)
(* it back: nothing leaks, whatever the policy, retries and rejections.    *)
(***************************************************************************)
THEOREM UnitsAreKept == Spec => []UnitsKept
<1>1. UnitInv /\ QueueInv => UnitsKept
  <2> SUFFICES ASSUME UnitInv, QueueInv, NEW q \in Res
               PROVE  Owned(q) \subseteq holders[q] /\ (~Timeouts => holders[q] \subseteq Owned(q))
    BY DEF UnitsKept
  <2>1. UnitTyped /\ QueueTyped /\ \A s \in Sids : UnitSound(s)
    BY DEF UnitInv, QueueInv
  <2>2. ASSUME NEW g \in Owned(q) PROVE g \in holders[q]
    <3>1. PICK s \in Sids : \E n \in Nat : Owns(s, q, n) /\ g = <<s, n>>
      BY <2>1, OwnedGrants
    <3> QED
      BY <2>1, <3>1 DEF UnitSound, Booked
  <2>3. ASSUME ~Timeouts, NEW g \in holders[q] PROVE g \in Owned(q)
    <3>1. PICK s \in Sids : \E n \in Nat : g = <<s, n>>
      BY <2>1 DEF UnitTyped
    <3>2. PICK n \in Nat : g = <<s, n>>
      BY <3>1
    <3>3. Owns(s, q, n)
      BY <2>1, <2>3, <3>2 DEF UnitSound, Booked
    <3> QED
      BY <2>1, <3>2, <3>3, OwnedGrants
  <2> QED
    BY <2>2, <2>3
<1> QED
  BY <1>1, UnitInvariant, QueueInvariant, PTL

-----------------------------------------------------------------------------
(* Attempts, retries, budgets and runs: the remaining types. *)

\* The next attempt of a session that is to repeat is still one of those allowed.
Paced(s) ==
  /\ attempt[s] \in 0 .. MaxAttempts /\ retry[s] \in 0 .. SdkRetries
  /\ pc[s] = "idle" => attempt[s] = 0
  /\ pc[s] = "again" => attempt[s] < MaxAttempts

PaceInv ==
  /\ attempt = [s \in Sids |-> attempt[s]] /\ retry = [s \in Sids |-> retry[s]]
  /\ \A s \in Sids : Paced(s)
  /\ short \subseteq Metered
  /\ run \in [Runs -> {"new", "running", "ended"}]

LEMMA PacedSession ==
  ASSUME PaceInv, QueueTyped, NEW s \in Sids, UNCHANGED <<world, short, run>>,
         attempt' = [o \in Sids |-> attempt'[o]], retry' = [o \in Sids |-> retry'[o]],
         \A o \in Sids \ {s} : pc'[o] = pc[o] /\ attempt'[o] = attempt[o] /\ retry'[o] = retry[o],
         Paced(s)'
  PROVE  PaceInv'
BY DEF PaceInv, Paced, Sids, MaxAttempts, Metered

LEMMA SessionPace == ASSUME PaceInv, QueueTyped, NEW s, Session(s) PROVE PaceInv'
<1>1. /\ s \in Sids /\ world' = world /\ Paced(s) /\ MaxAttempts' = MaxAttempts
      /\ MaxAttempts \in Nat \ {0} /\ SdkRetries \in Nat
      /\ attempt = [o \in Sids |-> attempt[o]] /\ retry = [o \in Sids |-> retry[o]] /\ pc \in [Sids -> States]
  BY WorldFacts, GatewayAssumption DEF Session, QueueTyped, LoopInv, PaceInv, MaxAttempts
<1>2. UNCHANGED <<short, run>>
  BY DEF Session, CallModel, CallRefused, CallBurned, Resume, GiveUp, CallTool, ToolReturns, WorkerReturns,
         Rejected, CallGate, GateReturns, Verdict, Skip
<1>3. ASSUME NEW to, pc' = [pc EXCEPT ![s] = to] PROVE pc'[s] = to /\ \A o \in Sids \ {s} : pc'[o] = pc[o]
  BY <1>1, <1>3
\* An attempt begins.
<1>4. ASSUME MayCall(s), attempt' = Begun(s), \A o \in Sids \ {s} : pc'[o] = pc[o] /\ retry'[o] = retry[o],
             retry' = [o \in Sids |-> retry'[o]], retry'[s] \in 0 .. SdkRetries,
             pc'[s] # "idle", pc'[s] = "again" => attempt'[s] < MaxAttempts
      PROVE  PaceInv'
  <2>1. /\ attempt' = [o \in Sids |-> attempt'[o]]
        /\ \A o \in Sids \ {s} : attempt'[o] = attempt[o]
        /\ attempt'[s] = attempt[s] + (IF pc[s] = "backoff" THEN 0 ELSE 1)
    BY <1>1, <1>4 DEF Begun
  <2>2. attempt'[s] \in 0 .. MaxAttempts
    BY <1>1, <1>4, <2>1 DEF MayCall, Paced
  <2>3. Paced(s)'
    BY <1>1, <1>4, <2>2 DEF Paced
  <2> QED
    BY <1>1, <1>2, <1>4, <2>1, <2>3, PacedSession
\* The attempt goes on, or ends.
<1>5. ASSUME attempt' = attempt, retry' = retry, NEW to, pc' = [pc EXCEPT ![s] = to],
             to # "idle", to = "again" => attempt[s] < MaxAttempts
      PROVE  PaceInv'
  <2>1. Paced(s)'
    BY <1>1, <1>3, <1>5 DEF Paced
  <2> QED
    BY <1>1, <1>2, <1>3, <1>5, <2>1, PacedSession
<1>6. Again(s) # "idle" /\ (Again(s) = "again" => attempt[s] < MaxAttempts)
  BY DEF Again
<1>7. CASE CallModel(s)
  <2>1. pc' = [pc EXCEPT ![s] = "chatWait"] /\ retry' = [retry EXCEPT ![s] = 0] /\ MayCall(s) /\ attempt' = Begun(s)
    BY <1>7 DEF CallModel, Enqueue
  <2>2. /\ pc'[s] = "chatWait" /\ \A o \in Sids \ {s} : pc'[o] = pc[o] /\ retry'[o] = retry[o]
        /\ retry'[s] = 0 /\ retry' = [o \in Sids |-> retry'[o]]
    BY <1>1, <2>1
  <2> QED
    BY <1>1, <1>4, <2>1, <2>2
<1>8. CASE CallRefused(s)
  <2>1. /\ pc' = [pc EXCEPT ![s] = "backoff"] /\ retry' = [retry EXCEPT ![s] = @ + 1]
        /\ MayCall(s) /\ attempt' = Begun(s) /\ retry[s] + 1 \in 0 .. SdkRetries
    BY <1>1, <1>8 DEF CallRefused, Paced
  <2>2. /\ pc'[s] = "backoff" /\ \A o \in Sids \ {s} : pc'[o] = pc[o] /\ retry'[o] = retry[o]
        /\ retry'[s] = retry[s] + 1 /\ retry' = [o \in Sids |-> retry'[o]]
    BY <1>1, <2>1
  <2> QED
    BY <1>4, <2>1, <2>2
<1>9. CASE CallBurned(s)
  <2>1. /\ pc' = [pc EXCEPT ![s] = IF attempt'[s] < MaxAttempts THEN "again" ELSE "gaveup"]
        /\ retry' = [retry EXCEPT ![s] = 0] /\ MayCall(s) /\ attempt' = Begun(s)
    BY <1>9 DEF CallBurned
  <2>2. /\ pc'[s] = (IF attempt'[s] < MaxAttempts THEN "again" ELSE "gaveup")
        /\ \A o \in Sids \ {s} : pc'[o] = pc[o] /\ retry'[o] = retry[o]
        /\ retry'[s] = 0 /\ retry' = [o \in Sids |-> retry'[o]]
    BY <1>1, <2>1
  <2>3. pc'[s] # "idle" /\ (pc'[s] = "again" => attempt'[s] < MaxAttempts)
    BY <2>2
  <2> QED
    BY <1>1, <1>4, <2>1, <2>2, <2>3
<1>10. CASE \/ Resume(s) \/ GiveUp(s) \/ CallTool(s) \/ ToolReturns(s) \/ WorkerReturns(s) \/ Rejected(s)
            \/ CallGate(s) \/ GateReturns(s) \/ Verdict(s) \/ Skip(s)
  <2>1. attempt' = attempt /\ retry' = retry
    BY <1>10 DEF Resume, GiveUp, CallTool, ToolReturns, WorkerReturns, Rejected, CallGate, GateReturns, Verdict, Skip
  <2>2. PICK to : pc' = [pc EXCEPT ![s] = to] /\ to # "idle" /\ (to = "again" => to = Again(s))
    <3>1. CASE Resume(s)
      <4>1. \E to \in {"calling", "tooling", "gating"} : pc' = [pc EXCEPT ![s] = to]
        BY <3>1 DEF Resume, Waiting
      <4> QED
        BY <4>1
    <3>2. CASE GiveUp(s) \/ Rejected(s) \/ Verdict(s)
      <4>1. \E to \in {"crashed", "over", "gaveup", Again(s)} : pc' = [pc EXCEPT ![s] = to]
        BY <3>2 DEF GiveUp, Rejected, Verdict
      <4> QED
        BY <1>6, <4>1
    <3>3. CASE CallTool(s) \/ ToolReturns(s) \/ WorkerReturns(s) \/ CallGate(s) \/ GateReturns(s) \/ Skip(s)
      <4>1. \E to \in {"toolWait", "called", "judging", "failed", "gaveup", "crashed", "gateWait", "judged", "skipped"} :
              pc' = [pc EXCEPT ![s] = to]
        BY <3>3 DEF CallTool, ToolReturns, WorkerReturns, CallGate, GateReturns, Skip, Enqueue
      <4> QED
        BY <4>1
    <3> QED
      BY <1>10, <3>1, <3>2, <3>3
  <2> QED
    BY <1>5, <1>6, <2>1, <2>2
<1> QED
  BY <1>7, <1>8, <1>9, <1>10 DEF Session

LEMMA PaceStep == PaceInv /\ QueueInv /\ [Next]_vars => PaceInv'
<1> SUFFICES ASSUME PaceInv, QueueInv, [Next]_vars PROVE PaceInv'
  OBVIOUS
<1>1. world' = world /\ QueueTyped
  BY WorldFixed DEF QueueInv
<1>2. ASSUME UNCHANGED <<pc, attempt, retry>>, short' \subseteq Metered, run' \in [Runs -> {"new", "running", "ended"}]
      PROVE  PaceInv'
  BY <1>1, <1>2 DEF PaceInv, Paced, Sids, MaxAttempts, Metered
<1>3. short \subseteq Metered /\ run \in [Runs -> {"new", "running", "ended"}]
  BY DEF PaceInv
<1>4. CASE Dispatch
  <2>1. UNCHANGED <<pc, attempt, retry, run>>
    BY <1>4 DEF Dispatch, BeginPass, Pass, session
  <2>2. short' \subseteq Metered
    BY <1>3, <1>4 DEF Dispatch, BeginPass, Pass, PassDone, PassFull, PassOver, Grant
  <2> QED
    BY <1>2, <1>3, <2>1, <2>2
<1>5. CASE Tick
  BY <1>2, <1>3, <1>5 DEF Tick, session
<1>6. ASSUME NEW r \in Runs, RunStart(r) \/ RunEnd(r) PROVE PaceInv'
  <2>1. UNCHANGED <<pc, attempt, retry, short>>
    BY <1>6 DEF RunStart, RunEnd, session
  <2>2. run' = [run EXCEPT ![r] = "running"] \/ run' = [run EXCEPT ![r] = "ended"]
    BY <1>6 DEF RunStart, RunEnd
  <2>3. run' \in [Runs -> {"new", "running", "ended"}]
    BY <1>3, <2>2
  <2> QED
    BY <1>2, <1>3, <2>1, <2>3
<1>7. ASSUME NEW s, Session(s) PROVE PaceInv'
  BY <1>1, <1>7, SessionPace
<1>8. ASSUME NEW s, TimerFires(s) PROVE PaceInv'
  BY <1>2, <1>3, <1>8 DEF TimerFires, session
<1>9. CASE UNCHANGED vars
  BY <1>2, <1>3, <1>9 DEF vars
<1> QED
  BY <1>4, <1>5, <1>6, <1>7, <1>8, <1>9 DEF Next

LEMMA PaceInvariant == Spec => []PaceInv
<1>1. Init => PaceInv
  <2> SUFFICES ASSUME Init PROVE PaceInv
    OBVIOUS
  <2>1. MaxAttempts \in Nat \ {0} /\ SdkRetries \in Nat
    BY WorldFacts, GatewayAssumption DEF Init
  <2> QED
    BY <2>1 DEF Init, PaceInv, Paced
<1> QED
  BY <1>1, PaceStep, QueueInvariant, PTL DEF Spec

\* Only a session that is calling acquire is noted as the asker.
LEMMA AskerStep == asker \subseteq Sids /\ [Next]_vars => (asker \subseteq Sids)'
<1> SUFFICES ASSUME asker \subseteq Sids, [Next]_vars PROVE (asker \subseteq Sids)'
  OBVIOUS
<1>1. Sids' = Sids
  BY WorldFixed DEF Sids
<1>2. CASE Dispatch \/ UNCHANGED vars
  BY <1>1, <1>2 DEF Dispatch, BeginPass, Pass, vars
<1>3. CASE Tick \/ \E r \in Runs : RunStart(r) \/ RunEnd(r)
  BY <1>3 DEF Tick, RunStart, RunEnd, NoDispatch, DispatchAll
<1>4. ASSUME NEW s, Session(s) PROVE (asker \subseteq Sids)'
  <2>1. s \in Sids
    BY <1>4 DEF Session
  <2>2. asker' = {} \/ asker' = {s}
    BY <1>4 DEF Session, CallModel, CallRefused, CallBurned, Resume, GiveUp, CallTool, ToolReturns, WorkerReturns,
                Rejected, CallGate, GateReturns, Verdict, Skip, Enqueue, NoDispatch, DispatchAll, DispatchOnly
  <2> QED
    BY <1>1, <2>1, <2>2
<1>5. ASSUME NEW s, TimerFires(s) PROVE (asker \subseteq Sids)'
  BY <1>5 DEF TimerFires, NoDispatch
<1> QED
  BY <1>2, <1>3, <1>4, <1>5 DEF Next

LEMMA AskerTyped == Spec => [](asker \subseteq Sids)
<1>1. Init => asker \subseteq Sids
  BY DEF Init
<1> QED
  BY <1>1, AskerStep, PTL DEF Spec

\* Every variable of the gateway always holds a value of its kind: no session
\* is given more attempts or retries than it may have, no queue holds strangers.
THEOREM GatewayTyped == Spec => []TypeOK
<1>1. LeaseInv /\ QueueInv /\ UnitInv /\ PaceInv /\ asker \subseteq Sids => TypeOK
  <2> SUFFICES ASSUME LeaseInv, QueueInv, UnitInv, PaceInv, asker \subseteq Sids PROVE TypeOK
    OBVIOUS
  <2>1. QueueTyped /\ UnitTyped /\ LoopInv /\ leases \in [Res -> [Runs -> Leases]]
    BY DEF QueueInv, UnitInv, LeaseInv, LedgerInv, LedgerTyped
  <2>2. attempt \in [Sids -> 0 .. MaxAttempts] /\ retry \in [Sids -> 0 .. SdkRetries]
    BY DEF PaceInv, Paced
  <2> QED
    BY <2>1, <2>2 DEF TypeOK, QueueTyped, UnitTyped, LoopInv, PaceInv, States, Futures
<1>2. Spec => []LeaseInv
  <2>1. Init => LeaseInv
    BY EmptyKeeps, GatewayAssumption DEF Init, LeaseInv, LoopInv
  <2> QED
    BY <2>1, LeaseStep, PTL DEF Spec
<1> QED
  BY <1>1, <1>2, QueueInvariant, UnitInvariant, PaceInvariant, AskerTyped, PTL

-----------------------------------------------------------------------------
(* Runs that have ended. *)

\* Nothing of the run is left to do, and it has reserved nothing.
Settled(r) ==
  /\ \A s \in Members(r) : pc[s] \in Ended
  /\ \A q \in Res : leases[q][r] = NoLease

EndInv == \A r \in Runs : run[r] = "ended" /\ ~Raised(r) => Settled(r)

\* The leases of all runs but one are the same.
OthersKept(L, M, r) == \A q \in Res, o \in Runs \ {r} : M[q][o] = L[q][o]

LEMMA SetSessionOthers ==
  ASSUME NEW L, L \in [Res -> [Runs -> Leases]], NEW r, NEW keep
  PROVE  OthersKept(L, SetSession(L, r, keep), r)
BY DEF SetSession, OthersKept

LEMMA ReissuedOthers ==
  ASSUME NEW L, L \in [Res -> [Runs -> Leases]], NEW at, NEW r, NEW M \in Reissued(L, at, r)
  PROVE  OthersKept(L, M, r)
<1>1. CASE M = L
  BY <1>1 DEF OthersKept
<1>2. CASE M # L
  <2>1. PICK keep : M = SetSession(L, r, keep)
    BY <1>2 DEF Reissued
  <2> QED
    BY <2>1, SetSessionOthers
<1> QED
  BY <1>1, <1>2

LEMMA GangedOthers ==
  ASSUME NEW L, L \in [Res -> [Runs -> Leases]], NEW r, NEW M \in Ganged(L, r)
  PROVE  OthersKept(L, M, r)
<1>1. CASE M = L
  BY <1>1 DEF OthersKept
<1>2. CASE M # L
  <2>1. PICK keep : M = SetSession(L, r, keep)
    BY <1>2 DEF Ganged
  <2> QED
    BY <2>1, SetSessionOthers
<1> QED
  BY <1>1, <1>2

LEMMA SessionOthers ==
  ASSUME LeaseInv, NEW s, Session(s)
  PROVE  OthersKept(leases, leases', RunOf[s])
<1>1. world \in Worlds /\ LedgerInv(leases) /\ leases \in [Res -> [Runs -> Leases]] /\ s \in Sids
  BY DEF LeaseInv, LoopInv, LedgerInv, LedgerTyped, Session
<1>2. RunOf[s] \in Runs
  BY <1>1, WorldFacts
<1>3. ASSUME NEW at, leases' \in Reissued(leases, at, RunOf[s]) PROVE OthersKept(leases, leases', RunOf[s])
  BY <1>1, <1>3, ReissuedOthers
<1>4. CASE leases' = leases
  BY <1>4 DEF OthersKept
<1>5. ASSUME NEW at, NEW L \in Reissued(leases, at, RunOf[s]), NEW to, leases' \in ReissuedIfRunning(L, to, RunOf[s])
      PROVE  OthersKept(leases, leases', RunOf[s])
  <2>1. OthersKept(leases, L, RunOf[s]) /\ L \in [Res -> [Runs -> Leases]]
    BY <1>1, <1>2, ReissuedKeeps, ReissuedOthers DEF LedgerInv, LedgerTyped
  <2>2. leases' = L \/ leases' \in Reissued(L, to, RunOf[s])
    BY <1>5 DEF ReissuedIfRunning
  <2>3. OthersKept(L, leases', RunOf[s])
    BY <2>1, <2>2, ReissuedOthers DEF OthersKept
  <2> QED
    BY <2>1, <2>3 DEF OthersKept
<1>6. ASSUME NEW at, leases' \in ReissuedIfRunning(leases, at, RunOf[s]) PROVE OthersKept(leases, leases', RunOf[s])
  BY <1>3, <1>4, <1>6 DEF ReissuedIfRunning
<1>7. CASE Verdict(s) \/ Rejected(s)
  BY <1>3, <1>4, <1>7 DEF Verdict, Rejected
<1>8. CASE WorkerReturns(s)
  BY <1>5, <1>6, <1>8 DEF WorkerReturns
<1>9. CASE GiveUp(s)
  BY <1>3, <1>4, <1>5, <1>9 DEF GiveUp
<1>10. CASE \/ CallModel(s) \/ CallRefused(s) \/ CallBurned(s) \/ Resume(s) \/ CallTool(s)
            \/ ToolReturns(s) \/ CallGate(s) \/ GateReturns(s) \/ Skip(s)
  BY <1>4, <1>10 DEF CallModel, CallRefused, CallBurned, Resume, CallTool, ToolReturns, CallGate, GateReturns, Skip
<1> QED
  BY <1>7, <1>8, <1>9, <1>10 DEF Session

\* A session that has ended or raised does nothing more.
LEMMA SessionPlaces ==
  ASSUME QueueInv, NEW s, Session(s)
  PROVE  /\ s \in Sids /\ run' = run /\ pc[s] \notin Ended \cup {"crashed"}
         /\ \A o \in Sids \ {s} : pc'[o] = pc[o]
<1>1. s \in Sids /\ QueueTyped /\ pc \in [Sids -> States]
  BY DEF Session, QueueInv, QueueTyped
<1>2. run' = run
  BY DEF Session, CallModel, CallRefused, CallBurned, Resume, GiveUp, CallTool, ToolReturns, WorkerReturns,
         Rejected, CallGate, GateReturns, Verdict, Skip
<1>3. pc[s] \notin Ended \cup {"crashed"}
  BY DEF Session, CallModel, CallRefused, CallBurned, MayCall, Resume, GiveUp, CallTool, ToolReturns, WorkerReturns,
         Rejected, CallGate, GateReturns, Verdict, Skip, Ended, Waiting
<1>4. \E to : pc' = [pc EXCEPT ![s] = to]
  BY DEF Session, CallModel, CallRefused, CallBurned, Resume, GiveUp, CallTool, ToolReturns, WorkerReturns,
         Rejected, CallGate, GateReturns, Verdict, Skip, Enqueue
<1> QED
  BY <1>1, <1>2, <1>3, <1>4

LEMMA EndStep == EndInv /\ QueueInv /\ LeaseInv /\ PaceInv /\ [Next]_vars => EndInv'
<1> SUFFICES ASSUME EndInv, QueueInv, LeaseInv, PaceInv, [Next]_vars,
                    NEW o \in Runs, run'[o] = "ended", ~Raised(o)'
             PROVE  Settled(o)'
  BY DEF EndInv
<1>1. /\ world' = world /\ RunOf' = RunOf /\ \A r : Members(r)' = Members(r)
      /\ run \in [Runs -> {"new", "running", "ended"}]
      /\ run[o] = "ended" /\ ~Raised(o) => Settled(o)
      /\ leases \in [Res -> [Runs -> Leases]]
  BY WorldFixed DEF EndInv, PaceInv, LeaseInv, LedgerInv, LedgerTyped, Members, RunOf, Sids
\* Sessions rest, and the leases of runs that have ended are not touched.
<1>2. ASSUME pc' = pc, NEW r, o # r, run'[o] = run[o], OthersKept(leases, leases', r)
      PROVE  Settled(o)'
  <2>1. Settled(o)
    BY <1>1, <1>2 DEF Raised
  <2> QED
    BY <1>1, <1>2, <2>1 DEF Settled, OthersKept
<1>3. CASE /\ pc' = pc /\ run' = run
           /\ \A q \in Res, r \in Runs : leases[q][r] = NoLease => leases'[q][r] = NoLease
  <2>1. Settled(o)
    BY <1>1, <1>3 DEF Raised
  <2> QED
    BY <1>1, <1>3, <2>1 DEF Settled
<1>4. CASE Dispatch
  <2>1. leases' = leases \/ leases' = Consumed(leases, scanRes, RunOf[Head(scan)])
    BY <1>4 DEF Dispatch, BeginPass, Pass, PassDone, PassFull, PassOver, Grant
  <2>2. \A q \in Res, r \in Runs : leases[q][r] = NoLease => leases'[q][r] = NoLease
    BY <1>1, <2>1 DEF Consumed
  <2>3. pc' = pc /\ run' = run
    BY <1>4 DEF Dispatch, BeginPass, Pass, session
  <2> QED
    BY <1>3, <2>2, <2>3
<1>5. CASE Tick
  <2>1. \A q \in Res, r \in Runs : leases[q][r] = NoLease => leases'[q][r] = NoLease
    <3> TAKE q \in Res, r \in Runs
    <3> HAVE leases[q][r] = NoLease
    <3>1. leases[q][r].left <= 1
      BY DEF NoLease
    <3> QED
      BY <1>5, <3>1 DEF Tick, Aged
  <2> QED
    BY <1>3, <1>5, <2>1 DEF Tick, session
<1>6. ASSUME NEW r \in Runs, RunStart(r) PROVE Settled(o)'
  <2>1. pc' = pc /\ run' = [run EXCEPT ![r] = "running"] /\ OthersKept(leases, leases', r)
    BY <1>1, <1>6, GangedOthers DEF RunStart, session
  <2>2. o # r /\ run'[o] = run[o]
    BY <1>1, <2>1
  <2> QED
    BY <1>2, <2>1, <2>2
<1>7. ASSUME NEW r \in Runs, RunEnd(r) PROVE Settled(o)'
  <2>1. /\ pc' = pc /\ run' = [run EXCEPT ![r] = "ended"] /\ leases' = SetSession(leases, r, <<>>)
        /\ (\A s \in Members(r) : pc[s] \in Ended) \/ Raised(r)
    BY <1>7 DEF RunEnd, Raised, session
  <2>2. CASE o # r
    <3>1. OthersKept(leases, leases', r) /\ run'[o] = run[o]
      BY <1>1, <2>1, <2>2, SetSessionOthers
    <3> QED
      BY <1>2, <2>1, <2>2, <3>1
  \* The run is over because its tasks are: Raised would still hold.
  <2>3. CASE o = r
    <3>1. \A s \in Members(o) : pc[s] \in Ended
      BY <1>1, <2>1, <2>3 DEF Raised
    <3>2. \A q : q \notin DOMAIN <<>>
      OBVIOUS
    <3>3. \A q \in Res : leases'[q][o] = NoLease
      BY <1>1, <2>1, <2>3, <3>2 DEF SetSession
    <3> QED
      BY <1>1, <2>1, <3>1, <3>3 DEF Settled
  <2> QED
    BY <2>2, <2>3
<1>8. ASSUME NEW s, Session(s) PROVE Settled(o)'
  <2>1. /\ s \in Sids /\ run' = run /\ pc[s] \notin Ended \cup {"crashed"}
        /\ \A p \in Sids \ {s} : pc'[p] = pc[p]
    BY <1>8, SessionPlaces
  <2>2. OthersKept(leases, leases', RunOf[s])
    BY <1>8, SessionOthers
  <2>3. ~Raised(o)
    BY <1>1, <2>1 DEF Raised, Members
  <2>4. Settled(o) /\ s \notin Members(o) /\ o # RunOf[s]
    BY <1>1, <2>1, <2>3 DEF Settled, Members
  <2> QED
    BY <1>1, <2>1, <2>2, <2>4 DEF Settled, OthersKept, Members
<1>9. ASSUME NEW s, TimerFires(s) PROVE Settled(o)'
  BY <1>3, <1>9 DEF TimerFires, session
<1>10. CASE UNCHANGED vars
  BY <1>3, <1>10 DEF vars
<1> QED
  BY <1>4, <1>5, <1>6, <1>7, <1>8, <1>9, <1>10 DEF Next

(***************************************************************************)
(* A run that has ended reserves nothing, with timeouts and without: the   *)
(* tasks it still has can do nothing, run_end drops its leases, and no     *)
(* call of another run, verdict, grant or tick issues it new ones.  The    *)
(* exception the property states is the code's: where a task raised, the   *)
(* run ends under the others, and their verdicts do issue leases for it.   *)
(***************************************************************************)
THEOREM EndedRunsHoldNoLease == Spec => []EndedHoldsNoLease
<1>1. Init => EndInv
  BY DEF Init, EndInv
<1>2. EndInv => EndedHoldsNoLease
  BY DEF EndInv, Settled, EndedHoldsNoLease
<1>3. Spec => []LeaseInv
  <2>1. Init => LeaseInv
    BY EmptyKeeps, GatewayAssumption DEF Init, LeaseInv, LoopInv
  <2> QED
    BY <2>1, LeaseStep, PTL DEF Spec
<1> QED
  BY <1>1, <1>2, <1>3, EndStep, QueueInvariant, PaceInvariant, PTL DEF Spec

-----------------------------------------------------------------------------
(* The contract of a pool of units. *)

\* Both modules count alike.
LEMMA SameCount == \A S : Pool!Cardinality(S) = Cardinality(S)
BY DEF Pool!Cardinality, Cardinality

\* A grant is one unit given to a session that asked for it, when one was free.
LEMMA GrantGives ==
  ASSUME HolderInv, QueueInv, UnitInv, Granting
  PROVE  Pool!Give(scanRes, Head(scan))
<1> DEFINE s == Head(scan)
           g == Latest(s)
<1>1. /\ scan # <<>> /\ scanRes \in Res /\ fut[s] = "pending" /\ fut' = [fut EXCEPT ![s] = "granted"]
      /\ holders' = [holders EXCEPT ![scanRes] = @ \cup {g}] /\ UNCHANGED <<world, pc, calls>>
  BY DEF Granting
<1>2. /\ s \in Sids /\ Want(s) = scanRes /\ QueueTyped /\ UnitTyped /\ UnitSound(s) /\ calls[s] \in Nat
  BY <1>1, HeadFacts DEF QueueInv, QueueTyped, UnitInv
<1>3. s \in Askers[scanRes]
  BY <1>1, <1>2 DEF Askers
<1>4. Pool!Cardinality(holders[scanRes]) < Cap[scanRes]
  <2>1. /\ Used(scanRes) \in Nat /\ Reserved(scanRes, s) \in Nat /\ Cap[scanRes] \in Nat
        /\ Used(scanRes) + 1 + Reserved(scanRes, s) <= Cap[scanRes]
    BY <1>1, GrantRoom, LedgerAssumption
  <2>2. Used(scanRes) < Cap[scanRes]
    BY <2>1
  <2> QED
    BY <2>2, SameCount DEF Used
<1>5. Askers' = [Askers EXCEPT ![scanRes] = @ \ {s}]
  <2>1. Sids' = Sids /\ \A o \in Sids : Want(o)' = Want(o)
    BY <1>1, WantSame DEF Sids
  <2>2. /\ fut'[s] # "pending"
        /\ \A o \in Sids \ {s} : fut'[o] = fut[o]
    BY <1>1, <1>2 DEF QueueTyped
  <2>3. ASSUME NEW q \in Res
        PROVE  {o \in Sids : fut'[o] = "pending" /\ Want(o)' = q}
                 = IF q = scanRes THEN {o \in Sids : fut[o] = "pending" /\ Want(o) = q} \ {s}
                   ELSE {o \in Sids : fut[o] = "pending" /\ Want(o) = q}
    BY <1>2, <2>1, <2>2
  <2>4. Askers' = [q \in Res |-> {o \in Sids : fut'[o] = "pending" /\ Want(o)' = q}]
    BY <2>1 DEF Askers
  <2> QED
    BY <2>3, <2>4 DEF Askers
<1>6. g \notin holders[scanRes]
  BY <1>1, <1>2 DEF UnitSound, Booked, Latest
<1>7. g \in holders'[scanRes] /\ g[1] = s
  BY <1>1, <1>2 DEF UnitTyped, Latest
<1>8. g \in holders'[scanRes] \ holders[scanRes]
  BY <1>6, <1>7
<1> HIDE DEF g
<1> QED
  BY <1>1, <1>3, <1>4, <1>5, <1>7, <1>8 DEF Pool!Give

\* Any other step asks, withdraws or gives back.
LEMMA OthersMove ==
  ASSUME HolderInv, QueueInv, world' = world, Releasing
  PROVE  Pool!Move
<1>1. Sids' = Sids /\ Sids \subseteq AllSids
  BY WorldFacts DEF QueueInv, QueueTyped, LoopInv, Sids
<1>2. Askers' \in [Res -> SUBSET AllSids]
  BY <1>1 DEF Askers
<1>3. DOMAIN holders' = Res /\ \A q \in Res : holders'[q] \subseteq holders[q]
  BY DEF Releasing
<1> QED
  BY <1>2, <1>3 DEF Pool!Move

(***************************************************************************)
(* The gateway is a pool of units: with its queues, its dispatch loop, its *)
(* leases and its timers it only ever does what UnitPool allows.  A unit   *)
(* goes to a session that asked and was not served yet, one per request,   *)
(* and only while one is free.                                             *)
(***************************************************************************)
THEOREM GatewayIsAPool == Spec => UnitContract
<1>1. Init => Pool!Init
  <2> SUFFICES ASSUME Init PROVE Pool!Init
    OBVIOUS
  <2>1. \A s \in Sids : fut[s] # "pending"
    BY DEF Init
  <2>2. Askers = [q \in Res |-> {}] /\ holders = [q \in Res |-> {}]
    BY <2>1 DEF Askers, Init
  <2> QED
    BY <2>2 DEF Pool!Init
<1>2. HolderInv /\ QueueInv /\ UnitInv /\ [Next]_vars => [Pool!Next]_(Pool!pvars)
  <2> SUFFICES ASSUME HolderInv, QueueInv, UnitInv, [Next]_vars PROVE Pool!Next
    OBVIOUS
  <2>1. CASE Granting
    <3>1. scanRes \in Res /\ Head(scan) \in AllSids
      BY <2>1, HeadFacts, WorldFacts DEF Granting, QueueInv, QueueTyped, LoopInv
    <3>2. Pool!Give(scanRes, Head(scan))
      BY <2>1, GrantGives
    <3> QED
      BY <3>1, <3>2 DEF Pool!Next
  <2>2. CASE Releasing
    BY <2>2, OthersMove, WorldFixed DEF Pool!Next
  <2> QED
    BY <2>1, <2>2, HolderShape
<1> QED
  BY <1>1, <1>2, HolderInvariant, QueueInvariant, UnitInvariant, PTL DEF Spec, UnitContract, Pool!Spec

-----------------------------------------------------------------------------
(* No unit is idle while a session waits for it. *)

\* The session's wait is accounted for: there is no unit to have, or the loop is
\* still to look at it.
Minded(s) ==
  \/ Used(Want(s)) = Cap[Want(s)]
  \/ Want(s) \in agenda
  \/ scanRes = Want(s) /\ s \in Queued(scan)

IdleInv ==
  Policy # "needs" => \A s \in Sids : fut[s] = "pending" /\ Want(s) \notin Metered => Minded(s)

LEMMA EmptyQueue == Queued(<<>>) = {}
BY DEF Queued

LEMMA PendingQueued ==
  QueueInv => \A s \in Sids : fut[s] = "pending" => Want(s) \in Res /\ s \in Queued(waiters[Want(s)])
BY WantTyped DEF QueueInv, WaiterSound

\* Whoever waits is dispatched when all resources are.
LEMMA DispatchMinds == QueueInv' /\ DispatchAll => IdleInv'
<1>1. QueueInv' => (\A s \in Sids : fut[s] = "pending" => Want(s) \in Res /\ s \in Queued(waiters[Want(s)]))'
  BY PendingQueued, PTL
<1> SUFFICES ASSUME QueueInv', DispatchAll, NEW s \in Sids', fut'[s] = "pending" PROVE Want(s)' \in agenda'
  BY DEF IdleInv, Minded
<1>2. Want(s)' \in Res /\ waiters'[Want(s)'] # <<>>
  BY <1>1, EmptyQueue
<1> QED
  BY <1>2 DEF DispatchAll

\* A step between two dispatches that neither frees units nor adds waiters.
LEMMA RestMinds ==
  ASSUME IdleInv, AtRest, world' = world, holders' = holders,
         \A s \in Sids : fut'[s] = "pending" => fut[s] = "pending" /\ pc'[s] = pc[s]
  PROVE  IdleInv'
<1>1. /\ Sids' = Sids /\ Metered' = Metered /\ Policy' = Policy /\ agenda = {} /\ Queued(scan) = {}
  BY EmptyQueue DEF AtRest, Sids, Metered, Policy
<1>2. ASSUME Policy # "needs", NEW s \in Sids, fut'[s] = "pending", Want(s)' \notin Metered PROVE Minded(s)'
  <2>1. fut[s] = "pending" /\ Want(s)' = Want(s)
    BY <1>2, WantSame
  <2>2. Used(Want(s)) = Cap[Want(s)]
    BY <1>1, <1>2, <2>1 DEF IdleInv, Minded
  <2> QED
    BY <2>1, <2>2 DEF Minded, Used
<1> QED
  BY <1>1, <1>2 DEF IdleInv

\* In arrival order, a pass ends when the capacity is exhausted, and not before.
LEMMA PassMinds ==
  ASSUME IdleInv, QueueInv, HolderInv, PaceInv, world' = world, Dispatch
  PROVE  IdleInv'
<1>1. /\ Sids' = Sids /\ Metered' = Metered /\ Policy' = Policy /\ pc' = pc
      /\ \A s \in Sids : Want(s)' = Want(s) /\ Want(s) \in Res
  <2>1. pc' = pc
    BY DEF Dispatch, BeginPass, Pass, session
  <2> QED
    BY <2>1, WantSame, WantTyped DEF QueueInv, Sids, Metered, Policy
<1> SUFFICES ASSUME Policy # "needs", NEW s \in Sids, fut'[s] = "pending", Want(s) \notin Metered
             PROVE  Minded(s)'
  BY <1>1 DEF IdleInv
<1>2. fut[s] = "pending" => Minded(s) /\ s \in Queued(waiters[Want(s)])
  BY DEF IdleInv, QueueInv, WaiterSound
<1>3. ASSUME NEW q \in Res PROVE Used(q) \in Nat /\ Used(q) <= Cap[q] /\ Cap[q] \in Nat
  BY FS_CardinalityType, LedgerAssumption DEF HolderInv, Used
<1>4. ASSUME NEW q, NEW o PROVE Reserved(q, o) = 0
  BY DEF Reserved
<1>5. CASE BeginPass
  <2>1. PICK q \in agenda : agenda' = agenda \ {q} /\ scanRes' = q /\ scan' \in Orders(q)
    BY <1>5 DEF BeginPass
  <2>2. /\ scan = <<>> /\ fut' = fut /\ holders' = holders
    BY <1>5 DEF BeginPass, queue
  <2>3. scan' = waiters[q]
    BY <2>1 DEF Orders
  <2>4. fut[s] = "pending" /\ (Used(Want(s)) = Cap[Want(s)] \/ Want(s) \in agenda) /\ s \in Queued(waiters[Want(s)])
    BY <1>2, <2>2, EmptyQueue DEF Minded
  <2> QED
    BY <1>1, <2>1, <2>2, <2>3, <2>4 DEF Minded, Used
<1>6. CASE scan # <<>> /\ Pass(Head(scan))
  <2> DEFINE h == Head(scan)
  <2>1. /\ agenda' = agenda /\ scanRes' = scanRes /\ scanRes \in Res /\ Want(h) = scanRes
        /\ Queued(Tail(scan)) = Queued(scan) \ {h}
    BY <1>6, HeadFacts DEF Pass
  <2>2. CASE PassDone(h)
    <3>1. fut' = fut /\ fut[h] = "cancelled" /\ scan' = Tail(scan) /\ holders' = holders
      BY <2>2 DEF PassDone
    <3> QED
      BY <1>1, <1>2, <2>1, <3>1 DEF Minded, Used
  <2>3. CASE PassFull(h)
    <3>1. fut' = fut /\ holders' = holders /\ ~Room(scanRes, h)
      BY <2>3 DEF PassFull
    <3>2. Used(scanRes) = Cap[scanRes]
      BY <1>3, <1>4, <2>1, <3>1 DEF Room
    <3> QED
      BY <1>1, <1>2, <2>1, <3>1, <3>2 DEF Minded, Used
  <2>4. CASE PassOver(h)
    <3>1. fut' = fut /\ holders' = holders /\ scanRes \in Metered
      BY <2>4 DEF PassOver, Affordable, PaceInv
    <3> QED
      BY <1>1, <1>2, <2>1, <3>1 DEF Minded, Used
  <2>5. CASE Grant(h)
    <3>1. /\ scan' = Tail(scan) /\ Room(scanRes, h)
          /\ fut' = [fut EXCEPT ![h] = "granted"]
          /\ holders' = [holders EXCEPT ![scanRes] = @ \cup {Latest(h)}]
      BY <2>5 DEF Grant
    <3>2. h \in Sids /\ fut \in [Sids -> Futures] /\ holders = [q \in Res |-> holders[q]]
      BY <1>6, HeadFacts DEF QueueInv, QueueTyped, HolderInv
    <3>3. s # h /\ fut[s] = "pending"
      BY <3>1, <3>2
    <3>4. Used(scanRes) # Cap[scanRes]
      BY <1>3, <1>4, <2>1, <3>1 DEF Room
    <3>5. Want(s) # scanRes => holders'[Want(s)] = holders[Want(s)]
      BY <1>1, <3>1, <3>2
    <3> QED
      BY <1>1, <1>2, <2>1, <3>1, <3>3, <3>4, <3>5 DEF Minded, Used
  <2> QED
    BY <1>6, <2>2, <2>3, <2>4, <2>5 DEF Pass
<1> QED
  BY <1>5, <1>6 DEF Dispatch

LEMMA IdleStep == IdleInv /\ QueueInv /\ QueueInv' /\ HolderInv /\ PaceInv /\ [Next]_vars => IdleInv'
<1> SUFFICES ASSUME IdleInv, QueueInv, QueueInv', HolderInv, PaceInv, [Next]_vars PROVE IdleInv'
  OBVIOUS
<1>1. world' = world /\ QueueTyped
  BY WorldFixed DEF QueueInv
<1>2. CASE Dispatch
  BY <1>1, <1>2, PassMinds
<1>3. CASE DispatchAll
  BY <1>3, DispatchMinds
<1>4. ASSUME NEW r \in Runs, RunStart(r) \/ RunEnd(r) PROVE IdleInv'
  <2>1. CASE RunStart(r)
    BY <1>1, <2>1, RestMinds DEF RunStart, Turn, session, queue
  <2> QED
    BY <1>3, <1>4, <2>1 DEF RunEnd
<1>5. ASSUME NEW s, Session(s) PROVE IdleInv'
  <2>1. CASE Asking(s)
    <3>1. PICK q \in Res, to \in Waiting : q = (IF to = "chatWait" THEN Tier[s] ELSE Sandbox) /\ Enqueue(s, q, to)
      BY <2>1 DEF Asking
    <3>2. /\ s \in Sids /\ AtRest /\ holders' = holders /\ agenda' = {q} /\ Sids' = Sids
          /\ Metered' = Metered /\ Policy' = Policy
          /\ pc' = [pc EXCEPT ![s] = to] /\ fut' = [fut EXCEPT ![s] = "pending"]
      BY <1>1, <2>1, <3>1 DEF Asking, Enqueue, DispatchOnly, Sids, Metered, Policy
    <3>3. pc'[s] = to /\ \A o \in Sids \ {s} : pc'[o] = pc[o] /\ fut'[o] = fut[o]
      BY <1>1, <3>2 DEF QueueTyped
    <3>4. Minded(s)'
      BY <1>1, <3>1, <3>2, <3>3 DEF Minded, Want, Tier
    <3>5. ASSUME Policy # "needs", NEW o \in Sids, o # s, fut'[o] = "pending", Want(o)' \notin Metered
          PROVE  Minded(o)'
      <4>1. Want(o)' = Want(o) /\ fut[o] = "pending"
        BY <1>1, <3>3, <3>5, WantSame
      <4>2. Used(Want(o)) = Cap[Want(o)]
        BY <3>2, <3>5, <4>1, EmptyQueue DEF IdleInv, Minded, AtRest
      <4> QED
        BY <3>2, <4>1, <4>2 DEF Minded, Used
    <3> QED
      BY <3>2, <3>4, <3>5 DEF IdleInv
  <2>2. CASE Working(s) /\ ~DispatchAll
    <3>1. CASE UNCHANGED holders
      <4>1. PICK to \in States \ Waiting : pc' = [pc EXCEPT ![s] = to]
        BY <2>2 DEF Working
      <4>2. s \in Sids /\ AtRest /\ pc[s] \notin Waiting /\ fut' = fut
        BY <2>2 DEF Working, queue
      <4>3. \A o \in Sids : fut'[o] = "pending" => fut[o] = "pending" /\ pc'[o] = pc[o]
        BY <1>1, <4>1, <4>2 DEF QueueTyped, QueueInv, WaiterSound
      <4> QED
        BY <1>1, <3>1, <4>2, <4>3, RestMinds
    <3>2. CASE ~UNCHANGED holders
      <4>1. ~(ToolReturns(s) \/ WorkerReturns(s) \/ GateReturns(s))
        BY <2>2 DEF ToolReturns, WorkerReturns, GateReturns
      <4>2. ~GiveUp(s)
        BY <2>2 DEF Working, GiveUp
      <4> QED
        BY <1>5, <3>2, <4>1, <4>2 DEF Session, CallModel, CallRefused, CallBurned, Resume, CallTool, Rejected, CallGate,
                               Verdict, Skip
    <3> QED
      BY <3>1, <3>2
  <2>3. CASE (Resume(s) \/ GiveUp(s)) /\ ~DispatchAll
    <3>1. s \in Sids /\ AtRest /\ holders' = holders /\ fut' = [fut EXCEPT ![s] = "none"]
      BY <1>5, <2>3 DEF Session, Resume, GiveUp, Turn
    <3>2. \E to : pc' = [pc EXCEPT ![s] = to]
      BY <2>3 DEF Resume, GiveUp
    <3>3. \A o \in Sids : fut'[o] = "pending" => fut[o] = "pending" /\ pc'[o] = pc[o]
      BY <1>1, <3>1, <3>2 DEF QueueTyped
    <3> QED
      BY <1>1, <3>1, <3>3, RestMinds
  <2> QED
    BY <1>1, <1>3, <1>5, <2>1, <2>2, <2>3, SessionShape
<1>6. ASSUME NEW s, TimerFires(s) PROVE IdleInv'
  <2>1. /\ AtRest /\ holders' = holders /\ pc' = pc /\ s \in Sids
        /\ fut' = [fut EXCEPT ![s] = IF @ = "pending" THEN "cancelled" ELSE @]
    BY <1>6 DEF TimerFires, Turn, session
  <2>2. \A o \in Sids : fut'[o] = "pending" => fut[o] = "pending"
    BY <1>1, <2>1 DEF QueueTyped
  <2> QED
    BY <1>1, <2>1, <2>2, RestMinds
<1>7. CASE Tick
  BY <1>3, <1>7 DEF Tick
<1>8. CASE UNCHANGED vars
  <2>1. \A s : Want(s)' = Want(s)
    BY <1>8, WantSame DEF vars
  <2> QED
    BY <1>8, <2>1 DEF vars, IdleInv, Minded, Used, Sids, Metered, Policy
<1> QED
  BY <1>2, <1>4, <1>5, <1>6, <1>7, <1>8 DEF Next

(***************************************************************************)
(* Without leases no unit is idle while a session waits for it: between    *)
(* two calls, a session that still waits for a resource without budgets    *)
(* waits because all its units are in use.  Every step that frees a unit   *)
(* dispatches it, and a pass stops only when the capacity is exhausted.    *)
(***************************************************************************)
THEOREM NoUnitIsIdle == Spec => []NoIdleUnit
<1>1. Init => IdleInv
  BY DEF Init, IdleInv
<1>2. IdleInv => NoIdleUnit
  BY EmptyQueue DEF IdleInv, Minded, NoIdleUnit, AtRest
<1> QED
  BY <1>1, <1>2, IdleStep, QueueInvariant, HolderInvariant, PaceInvariant, PTL DEF Spec
=============================================================================
