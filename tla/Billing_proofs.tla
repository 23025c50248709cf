--------------------------- MODULE Billing_proofs ---------------------------
(***************************************************************************)
(* Proofs about Billing, for any runs, predictions, prices, floors and     *)
(* allowance: the balance stays within its bounds and no order of grants,  *)
(* settlements, refunds and refills creates money.                         *)
(***************************************************************************)
EXTENDS Billing, FiniteSums

Places == {"idle", "again", "queued", "open", "judging", "over", "undecided", "gaveup"}

(***************************************************************************)
(* What the induction needs besides the type: an attempt that is about to  *)
(* begin is one that the limit allows, money is set aside for open calls   *)
(* only, and what counts as spent is accounted for.                        *)
(***************************************************************************)
BillingInv ==
  /\ TypeOK
  /\ \A s \in Sids : pc[s] = "idle" => tries[s] = 0
  /\ \A s \in Sids : pc[s] = "again" => tries[s] < MaxAttempts
  /\ \A s \in Sids : pc[s] # "open" => prepaid[s] = 0
  /\ NoMoneyFromNothing /\ SpentAccounted

\* The part of the invariant that is about money.
MoneyInv ==
  /\ level \in 0 .. Allowance /\ spent \in Int
  /\ prepaid \in [Sids -> 0 .. Allowance]
  /\ income \in Nat /\ charged \in Nat /\ forfeited \in Nat
  /\ NoMoneyFromNothing /\ SpentAccounted

\* The part that is about attempts.
AttemptInv ==
  /\ policy \in Policies
  /\ run \in [Runs -> {"new", "running", "ended"}]
  /\ pc \in [Sids -> Places]
  /\ tries \in [Sids -> 0 .. MaxAttempts]
  /\ \A s \in Sids : pc[s] = "idle" => tries[s] = 0
  /\ \A s \in Sids : pc[s] = "again" => tries[s] < MaxAttempts

\* What ties the two together: money is set aside for open calls only.
AsideInv == \A s \in Sids : pc[s] # "open" => prepaid[s] = 0

LEMMA Parts == BillingInv <=> MoneyInv /\ AttemptInv /\ AsideInv
  BY DEF BillingInv, MoneyInv, AttemptInv, AsideInv, TypeOK, Places

\* What is set aside in all changes with what is set aside for one session.
LEMMA HeldChanges ==
  ASSUME prepaid \in [Sids -> 0 .. Allowance], prepaid' \in [Sids -> 0 .. Allowance],
         NEW s \in Sids, SameBut(prepaid, prepaid', Sids, s)
  PROVE  Held \in Nat /\ Held' = Held + (prepaid'[s] - prepaid[s])
<1>1. IsFiniteSet(Sids) /\ Allowance \in Nat
  BY BillingAssumption
<1>2. \A x \in Sids : prepaid[x] \in Nat
  BY <1>1
<1>3. Held \in Nat
  BY <1>1, <1>2, SumNat DEF Held
<1>4. Numbers(prepaid, Sids) /\ Numbers(prepaid', Sids)
  BY <1>1 DEF Numbers
<1>5. SumFunctionOnSet(prepaid', Sids) = SumFunctionOnSet(prepaid, Sids) + (prepaid'[s] - prepaid[s])
  BY <1>1, <1>4, SumChange
<1> QED
  BY <1>3, <1>5 DEF Held

\* What is set aside is there: the balance pays for it and stays non-negative.
LEMMA GrantPays == ASSUME MoneyInv, AsideInv, NEW s \in Sids, Grant(s) PROVE MoneyInv'
<1>1. Allowance \in Nat /\ High[s] \in Nat /\ level \in 0 .. Allowance
  BY BillingAssumption DEF MoneyInv
<1>2. Aside(s) \in Nat /\ Aside(s) <= level
  BY <1>1 DEF Aside, Least
<1>3. Aside(s) \in 0 .. Allowance
  BY <1>1, <1>2
<1>4. level' = level - Aside(s) /\ spent' = spent + Aside(s) /\ UNCHANGED history
  BY DEF Grant, Pay
<1>5. prepaid' = [prepaid EXCEPT ![s] = Aside(s)] /\ prepaid' \in [Sids -> 0 .. Allowance]
  BY <1>3 DEF Grant, MoneyInv
<1>6. prepaid[s] = 0
  BY DEF Grant, AsideInv
<1>7. SameBut(prepaid, prepaid', Sids, s) /\ prepaid'[s] = Aside(s)
  BY <1>5 DEF SameBut, MoneyInv
<1>8. Held \in Nat /\ Held' = Held + (prepaid'[s] - prepaid[s])
  BY <1>5, <1>7, HeldChanges DEF MoneyInv
<1> QED
  BY <1>1, <1>2, <1>4, <1>5, <1>6, <1>7, <1>8 DEF MoneyInv, NoMoneyFromNothing, SpentAccounted, history

\* A settlement moves what was set aside to what is charged or forfeited, and
\* pays or refunds the difference.
LEMMA ReleaseSettles ==
  ASSUME MoneyInv, NEW s \in Sids, NEW usd \in 0 .. MaxUsage, Release(s, usd)
  PROVE  MoneyInv'
<1> DEFINE due == Due(s, usd)
<1>1. /\ Allowance \in Nat /\ usd \in Nat /\ level \in 0 .. Allowance
      /\ spent \in Int /\ prepaid[s] \in 0 .. Allowance
      /\ income \in Nat /\ charged \in Nat /\ forfeited \in Nat
      /\ level + spent <= Allowance + income
      /\ spent = charged + Held + forfeited
  BY BillingAssumption DEF MoneyInv, NoMoneyFromNothing, SpentAccounted
<1>2. due \in Int /\ due = usd - prepaid[s]
  BY <1>1 DEF Due
<1>3. prepaid' \in [Sids -> 0 .. Allowance] /\ income' = income
  BY <1>1 DEF Release, MoneyInv
<1>0. Held \in Nat /\ Held' = Held - prepaid[s]
  <2>1. SameBut(prepaid, prepaid', Sids, s) /\ prepaid'[s] = 0
    BY DEF Release, SameBut, MoneyInv
  <2>2. Held \in Nat /\ Held' = Held + (prepaid'[s] - prepaid[s])
    BY <1>3, <2>1, HeldChanges DEF MoneyInv
  <2> QED
    BY <1>1, <2>1, <2>2
<1> HIDE DEF due
<1> SUFFICES level' \in 0 .. Allowance /\ spent' \in Int /\ charged' \in Nat /\ forfeited' \in Nat
             /\ level' + spent' <= Allowance + income
             /\ spent' = charged' + (Held - prepaid[s]) + forfeited'
  BY <1>0, <1>1, <1>3 DEF MoneyInv, NoMoneyFromNothing, SpentAccounted
<1>4. CASE UNCHANGED <<level, spent, charged>> /\ forfeited' = forfeited + prepaid[s]
  BY <1>0, <1>1, <1>4
<1>5. CASE due <= level /\ due <= 0 /\ Refund(-due) /\ charged' = charged + usd /\ UNCHANGED forfeited
  <2>1. level' = Least(Allowance, level + (-due)) /\ spent' = spent - (-due)
    BY <1>5 DEF Refund
  <2>2. level' \in 0 .. Allowance /\ level' <= level - due /\ spent' = spent + due
    BY <1>1, <1>2, <1>5, <2>1 DEF Least
  <2> QED
    BY <1>0, <1>1, <1>2, <1>5, <2>2
<1>6. CASE due <= level /\ due > 0 /\ Pay(due) /\ charged' = charged + usd /\ UNCHANGED forfeited
  <2>1. level' = level - due /\ spent' = spent + due
    BY <1>6 DEF Pay
  <2> QED
    BY <1>0, <1>1, <1>2, <1>6, <2>1
<1>7. CASE due > level /\ Pay(Collected(due)) /\ charged' = charged + prepaid[s] + Collected(due) /\ UNCHANGED forfeited
  <2>1. Collected(due) = level
    BY <1>1, <1>2, <1>7 DEF Collected, Least
  <2>2. level' = 0 /\ spent' = spent + level /\ charged' = charged + prepaid[s] + level
    BY <1>1, <1>7, <2>1 DEF Pay
  <2> QED
    BY <1>0, <1>1, <1>7, <2>2
<1> QED
  BY <1>1, <1>2, <1>4, <1>5, <1>6, <1>7 DEF Release, due

LEMMA MoneyStep == MoneyInv /\ AsideInv /\ [Next]_vars => MoneyInv'
<1> SUFFICES ASSUME MoneyInv, AsideInv, [Next]_vars PROVE MoneyInv'
  OBVIOUS
<1>1. CASE UNCHANGED <<level, spent, prepaid, history>>
  BY <1>1 DEF MoneyInv, NoMoneyFromNothing, SpentAccounted, Held, history
<1>2. CASE Tick
  <2>1. Allowance \in Nat /\ Refill \in Nat /\ level \in 0 .. Allowance
    BY BillingAssumption DEF MoneyInv
  <2> DEFINE more == level' - level
  <2>2. level' = level + more /\ more \in Nat /\ level + more <= Allowance /\ income' = income + more
    BY <1>2, <2>1 DEF Tick, Least
  <2> HIDE DEF more
  <2>4. level' \in 0 .. Allowance /\ income' \in Nat /\ level' + spent <= Allowance + income'
    BY <2>1, <2>2 DEF MoneyInv, NoMoneyFromNothing, SpentAccounted
  <2>3. /\ spent' = spent /\ prepaid' = prepaid /\ charged' = charged /\ forfeited' = forfeited
        /\ Held' = Held
    BY <1>2 DEF Tick, Held
  <2> QED
    BY <2>3, <2>4 DEF MoneyInv, NoMoneyFromNothing, SpentAccounted
<1>3. ASSUME NEW s \in Sids, Call(s) PROVE MoneyInv'
  <2>1. CASE Ask(s) \/ Verdict(s)
    BY <1>1, <2>1 DEF Ask, Verdict
  <2> QED
    BY <1>3, <2>1, GrantPays, ReleaseSettles DEF Call
<1>4. CASE \E r \in Runs : Admit(r) \/ RunEnd(r)
  BY <1>1, <1>4 DEF Admit, RunEnd
<1> QED
  BY <1>1, <1>2, <1>3, <1>4 DEF Next, vars, history

LEMMA AttemptStep == AttemptInv /\ [Next]_vars => AttemptInv'
<1> SUFFICES ASSUME AttemptInv, [Next]_vars PROVE AttemptInv'
  OBVIOUS
<1>1. MaxAttempts \in Nat \ {0}
  BY BillingAssumption
<1>2. CASE UNCHANGED <<policy, run, pc, tries>>
  BY <1>2 DEF AttemptInv
<1>3. ASSUME NEW s \in Sids, Ask(s) PROVE AttemptInv'
  <2>1. tries[s] \in 0 .. MaxAttempts /\ tries[s] < MaxAttempts
    BY <1>1, <1>3 DEF Ask, MayAsk, AttemptInv
  <2>2. tries' = [tries EXCEPT ![s] = tries[s] + 1] /\ tries[s] + 1 \in 0 .. MaxAttempts
    BY <1>1, <1>3, <2>1 DEF Ask
  <2>3. \E w \in {"queued", "gaveup", "again"} :
          pc' = [pc EXCEPT ![s] = w] /\ (w = "again" => tries'[s] < MaxAttempts)
    BY <1>3 DEF Ask, Again
  <2> QED
    BY <1>1, <1>3, <2>1, <2>2, <2>3 DEF Ask, AttemptInv, Places
<1>4. ASSUME NEW s \in Sids, NEW w \in Places \ {"idle"}, pc' = [pc EXCEPT ![s] = w],
             w = "again" => tries[s] < MaxAttempts, UNCHANGED <<policy, run, tries>>
      PROVE  AttemptInv'
  BY <1>4 DEF AttemptInv
<1>5. ASSUME NEW s \in Sids, Grant(s) PROVE AttemptInv'
  BY <1>4, <1>5 DEF Grant, Places
<1>6. ASSUME NEW s \in Sids, NEW usd, Release(s, usd) PROVE AttemptInv'
  <2>1. \E w \in {"again", "gaveup", "judging"} :
          pc' = [pc EXCEPT ![s] = w] /\ (w = "again" => tries[s] < MaxAttempts)
    BY <1>6 DEF Release, Again
  <2> QED
    BY <1>4, <1>6, <2>1 DEF Release, Places
<1>7. ASSUME NEW s \in Sids, Verdict(s) PROVE AttemptInv'
  <2>1. \E w \in {"again", "gaveup", "over", "undecided"} :
          pc' = [pc EXCEPT ![s] = w] /\ (w = "again" => tries[s] < MaxAttempts)
    BY <1>7 DEF Verdict, Again
  <2> QED
    BY <1>4, <1>7, <2>1 DEF Verdict, Places
<1>8. CASE Tick
  BY <1>2, <1>8 DEF Tick
<1>9. CASE \E r \in Runs : Admit(r) \/ RunEnd(r)
  BY <1>9 DEF Admit, RunEnd, AttemptInv
<1> QED
  BY <1>2, <1>3, <1>5, <1>6, <1>7, <1>8, <1>9 DEF Next, Call, vars

\* A grant is the only step that sets money aside, and it opens the call.
LEMMA AsideStep == MoneyInv /\ AttemptInv /\ AsideInv /\ [Next]_vars => AsideInv'
<1> SUFFICES ASSUME MoneyInv, AttemptInv, AsideInv, [Next]_vars PROVE AsideInv'
  OBVIOUS
<1>1. CASE UNCHANGED <<pc, prepaid>>
  BY <1>1 DEF AsideInv
<1>2. ASSUME NEW s \in Sids, NEW w, pc[s] # "open", pc' = [pc EXCEPT ![s] = w], UNCHANGED prepaid
      PROVE  AsideInv'
  BY <1>2 DEF AsideInv, AttemptInv
<1>3. ASSUME NEW s \in Sids, Ask(s) PROVE AsideInv'
  BY <1>2, <1>3 DEF Ask, MayAsk
<1>4. ASSUME NEW s \in Sids, Verdict(s) PROVE AsideInv'
  BY <1>2, <1>4 DEF Verdict
<1>5. ASSUME NEW s \in Sids, Grant(s) PROVE AsideInv'
  BY <1>5 DEF Grant, AsideInv, AttemptInv, MoneyInv
<1>6. ASSUME NEW s \in Sids, NEW usd, Release(s, usd) PROVE AsideInv'
  <2>1. prepaid' = [prepaid EXCEPT ![s] = 0] /\ \E w : pc' = [pc EXCEPT ![s] = w]
    BY <1>6 DEF Release
  <2> QED
    BY <2>1 DEF AsideInv, AttemptInv, MoneyInv
<1>7. CASE Tick
  BY <1>1, <1>7 DEF Tick
<1>8. CASE \E r \in Runs : Admit(r) \/ RunEnd(r)
  BY <1>1, <1>8 DEF Admit, RunEnd
<1> QED
  BY <1>1, <1>3, <1>4, <1>5, <1>6, <1>7, <1>8 DEF Next, Call, vars

LEMMA BillingInit == Init => MoneyInv /\ AttemptInv /\ AsideInv
<1> SUFFICES ASSUME Init PROVE MoneyInv /\ AttemptInv /\ AsideInv
  OBVIOUS
<1>1. Allowance \in Nat /\ MaxAttempts \in Nat /\ IsFiniteSet(Sids)
  BY BillingAssumption
<1>2. Held = 0
  BY <1>1, SumZero DEF Init, Held
<1> QED
  BY <1>1, <1>2 DEF Init, MoneyInv, AttemptInv, AsideInv, NoMoneyFromNothing, SpentAccounted, Places

LEMMA BillingInvariant == Spec => []BillingInv
  BY BillingInit, MoneyStep, AttemptStep, AsideStep, Parts, PTL DEF Spec

(***************************************************************************)
(* The tenant's balance is never negative and never above the allowance,   *)
(* under every policy, with any number of open calls: no grant sets aside  *)
(* and no settlement collects what is not there.                           *)
(***************************************************************************)
THEOREM BalanceBounded == Spec => []TypeOK
<1>1. BillingInv => TypeOK
  BY DEF BillingInv
<1> QED
  BY <1>1, BillingInvariant, PTL

\* What is there and what counts as spent never exceeds the allowance and the
\* refills: a refund gives back no more than was taken.
THEOREM NoMoneyCreated == Spec => []NoMoneyFromNothing
<1>1. BillingInv => NoMoneyFromNothing
  BY DEF BillingInv
<1> QED
  BY <1>1, BillingInvariant, PTL

(***************************************************************************)
(* What the bucket counts as spent is what the ended calls paid, what the  *)
(* open ones have set aside, and what was set aside for calls that were    *)
(* never billed: whatever order calls are granted, settled and refunded    *)
(* in, and whichever cannot pay, none is charged twice.                    *)
(***************************************************************************)
THEOREM SpendingAccounted == Spec => []SpentAccounted
<1>1. BillingInv => SpentAccounted
  BY DEF BillingInv
<1> QED
  BY <1>1, BillingInvariant, PTL
=============================================================================
