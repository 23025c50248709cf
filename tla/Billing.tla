------------------------------ MODULE Billing ------------------------------
(***************************************************************************)
(* One tenant's money in the harness: its BudgetBucket                     *)
(* (agentsim/resources.py), the pacing of runs by admit_run, and what the  *)
(* gateway pays, sets aside and refunds for the calls of a paid model tier *)
(* (society/harness/gateway.py: acquire, _grant, release, note_verdict).   *)
(*                                                                         *)
(* Amounts are whole units of money.  Units of capacity are left to        *)
(* Gateway: here a queued call may be granted at any time its budget check *)
(* allows.  The nodes of a run are parallel branches.  The counter of      *)
(* refused payments only feeds the control loop that moves the admission   *)
(* floor; admission takes any floor of Floors instead.                     *)
(***************************************************************************)
EXTENDS Integers, FiniteSets, FiniteSetsExt, Functions

CONSTANTS
  Runs,         \* the tenant's runs
  Sids,         \* sessions, one per node of a run
  RunOf,        \* RunOf[s]: the run of session s
  Policies,     \* those of "off", "gate", "needs" (which stands for oracle too) to look at
  Allowance,    \* capacity of the bucket
  Refill,       \* what one tick refills
  Median, High, \* Median[s], High[s]: predicted cost of an attempt (q50, q_tau)
  CallRefill,   \* predicted refill over one call
  RunRefill,    \* predicted refill over the makespan of a run
  Floors,       \* the admission floors the control loop may set
  GateFloor,    \* GATE_BUDGET_FLOOR of the allowance
  MinCharge,    \* MIN_CHARGE_USD
  MaxUsage,     \* the most a call really costs
  MaxAttempts   \* RetryPolicy.max_attempts

ASSUME BillingAssumption ==
  /\ IsFiniteSet(Sids) /\ RunOf \in [Sids -> Runs]
  /\ Policies \subseteq {"off", "gate", "needs"}
  /\ Allowance \in Nat \ {0} /\ Refill \in Nat
  /\ Median \in [Sids -> Nat] /\ High \in [Sids -> Nat]
  /\ CallRefill \in Nat /\ RunRefill \in Nat
  /\ Floors \subseteq Nat /\ GateFloor \in Nat /\ MinCharge \in Nat
  /\ MaxUsage \in Nat /\ MaxAttempts \in Nat \ {0}

VARIABLES
  policy,      \* the policy the harness was started with
  level,       \* of the bucket
  spent,       \* of the bucket: what it counts as spent
  run,         \* run -> "new", "running", "ended"
  pc,          \* session -> where it is
  tries,       \* session -> attempts begun
  prepaid,     \* session -> what its open Grant has set aside
  income,      \* history: what was refilled
  charged,     \* history: what the calls that were billed really paid
  forfeited    \* history: what was set aside for calls that were not billed

history == <<income, charged, forfeited>>
vars == <<policy, level, spent, run, pc, tries, prepaid, income, charged, forfeited>>

Members(r) == {s \in Sids : RunOf[s] = r}
Least(i, j) == IF i < j THEN i ELSE j

-----------------------------------------------------------------------------
(* The bucket. *)

\* _refill: the level is clipped at the allowance.
Tick ==
  /\ level < Allowance
  /\ level' = Least(Allowance, level + Refill)
  /\ income' = income + (level' - level)
  /\ UNCHANGED <<policy, spent, run, pc, tries, prepaid, charged, forfeited>>

\* pay.
Pay(amount) == level' = level - amount /\ spent' = spent + amount

-----------------------------------------------------------------------------
(* Runs. *)

\* _remaining_spend: every node that is neither done nor being judged.
RemainingSpend(r) ==
  SumFunctionOnSet(Median, {s \in Members(r) : pc[s] \notin {"over", "judging", "undecided"}})

\* A plausible bug: runs that ended stay committed.
CommittedForEver ==
  MapThenSumSet(RemainingSpend, {o \in Runs : \E s \in Members(o) : tries[s] > 0})

\* What admit_run takes to be committed: runs that have asked for something.
Committed ==
  MapThenSumSet(RemainingSpend, {o \in Runs : run[o] = "running" /\ \E s \in Members(o) : tries[s] > 0})

\* The test of admit_run.
Fits(r, floor) == level - Committed + RunRefill >= RemainingSpend(r) + floor

\* No session is on its way into its next attempt: a rejection and the acquire
\* that follows it are one uninterrupted stretch.
Turn(S) == \A o \in Sids \ S : pc[o] # "again"

\* admit_run returns and run_start follows at once; a run that does not fit is
\* deferred and looks again later.
Admit(r) ==
  /\ Turn({}) /\ run[r] = "new"
  /\ policy = "needs" => \E floor \in Floors : Fits(r, floor)
  /\ run' = [run EXCEPT ![r] = "running"]
  /\ UNCHANGED <<policy, level, spent, pc, tries, prepaid, history>>

Failed(r) == \E s \in Members(r) : pc[s] \in {"gaveup", "undecided"}

\* run_end, in a `finally` around the DAG runner.
RunEnd(r) ==
  /\ Turn({}) /\ run[r] = "running"
  /\ \A s \in Members(r) : pc[s] \in {"over", "gaveup", "undecided"} \/ (pc[s] = "idle" /\ Failed(r))
  /\ run' = [run EXCEPT ![r] = "ended"]
  /\ UNCHANGED <<policy, level, spent, pc, tries, prepaid, history>>

-----------------------------------------------------------------------------
(* Calls. *)

MayAsk(s) ==
  \/ pc[s] = "idle" /\ run[RunOf[s]] = "running" /\ ~Failed(RunOf[s])
  \/ pc[s] = "again"

\* A rejected attempt is repeated, or was the last.
Again(s, begun) == IF begun < MaxAttempts THEN "again" ELSE "gaveup"

\* acquire: the call is queued; without a harness a tenant that cannot pay the
\* minimum is refused at once and the attempt is burned.
Ask(s) ==
  /\ Turn({s}) /\ MayAsk(s)
  /\ tries' = [tries EXCEPT ![s] = @ + 1]
  /\ pc' = [pc EXCEPT ![s] = IF policy = "off" /\ level < MinCharge THEN Again(s, tries'[s]) ELSE "queued"]
  /\ UNCHANGED <<policy, level, spent, run, prepaid, history>>

\* _budget_ok.
BudgetOk(s) ==
  CASE policy = "off"   -> TRUE
    [] policy = "gate"  -> level >= GateFloor
    [] policy = "needs" -> level + CallRefill >= High[s]

\* A plausible bug: the whole estimate is set aside, there or not.
AsideAll(s) == IF policy = "needs" THEN High[s] ELSE 0

\* What a grant sets aside for the attempt.
Aside(s) == IF policy = "needs" THEN Least(High[s], level) ELSE 0

\* _grant.
Grant(s) ==
  /\ Turn({}) /\ pc[s] = "queued" /\ BudgetOk(s)
  /\ prepaid' = [prepaid EXCEPT ![s] = Aside(s)]
  /\ Pay(Aside(s))
  /\ pc' = [pc EXCEPT ![s] = "open"]
  /\ UNCHANGED <<policy, run, tries, history>>

Refund(amount) == level' = Least(Allowance, level + amount) /\ spent' = spent - amount

\* A plausible bug: what was set aside is charged once more.
DueInFull(s, usd) == usd

\* What a call still owes when it ends.
Due(s, usd) == usd - prepaid[s]

\* What can be collected.
Collected(due) == Least(due, level)

(***************************************************************************)
(* release: the call is billed for what it used (usd).  A surplus of what  *)
(* was set aside goes back; a shortfall is paid if the money is there, and *)
(* otherwise all that is there is taken and the attempt is lost.  A call   *)
(* that used nothing (its worker failed or raised, as a rule) is not       *)
(* billed at all.                                                          *)
(***************************************************************************)
Release(s, usd) ==
  LET due == Due(s, usd) IN
  /\ Turn({}) /\ pc[s] = "open"
  /\ prepaid' = [prepaid EXCEPT ![s] = 0]
  /\ \/ /\ usd = 0
        /\ UNCHANGED <<level, spent, charged>>
        /\ forfeited' = forfeited + prepaid[s]
        /\ pc' \in {[pc EXCEPT ![s] = w] : w \in {Again(s, tries[s]), "gaveup", "judging"}}
     \/ /\ usd > 0 /\ due <= level
        /\ IF due <= 0 THEN Refund(-due) ELSE Pay(due)
        /\ charged' = charged + usd
        /\ UNCHANGED forfeited
        /\ pc' \in {[pc EXCEPT ![s] = w] : w \in {Again(s, tries[s]), "judging"}}
     \/ /\ usd > 0 /\ due > level
        /\ Pay(Collected(due))
        /\ charged' = charged + prepaid[s] + Collected(due)
        /\ UNCHANGED forfeited
        /\ pc' = [pc EXCEPT ![s] = Again(s, tries[s])]
  /\ UNCHANGED <<policy, run, tries, income>>

\* The gates' verdict: approved, rejected, or none (the node is escalated and
\* stays among those being judged).
Verdict(s) ==
  /\ Turn({}) /\ pc[s] = "judging"
  /\ pc' \in {[pc EXCEPT ![s] = w] : w \in {"over", "undecided", Again(s, tries[s])}}
  /\ UNCHANGED <<policy, level, spent, run, tries, prepaid, history>>

-----------------------------------------------------------------------------
Init ==
  /\ policy \in Policies
  /\ level = Allowance /\ spent = 0
  /\ run = [r \in Runs |-> "new"]
  /\ pc = [s \in Sids |-> "idle"]
  /\ tries = [s \in Sids |-> 0]
  /\ prepaid = [s \in Sids |-> 0]
  /\ income = 0 /\ charged = 0 /\ forfeited = 0

Call(s) == Ask(s) \/ Grant(s) \/ Verdict(s) \/ \E usd \in 0 .. MaxUsage : Release(s, usd)

Next == Tick \/ (\E r \in Runs : Admit(r) \/ RunEnd(r)) \/ (\E s \in Sids : Call(s))

Spec == Init /\ [][Next]_vars

(***************************************************************************)
(* Time passes; a deferred run polls every five seconds and the gateway    *)
(* re-dispatches on every tick, so what fits for good is not passed over   *)
(* for ever; models and gates answer.                                      *)
(***************************************************************************)
FairSpec ==
  /\ Spec
  /\ WF_vars(Tick)
  /\ \A r \in Runs : WF_vars(Admit(r)) /\ WF_vars(RunEnd(r))
  /\ \A s \in Sids : WF_vars(Call(s))

-----------------------------------------------------------------------------
(* Properties. *)

\* Every variable holds a value of its kind; in particular the tenant's balance
\* is never negative and never above its allowance.
TypeOK ==
  /\ policy \in Policies
  /\ level \in 0 .. Allowance
  /\ spent \in Int
  /\ run \in [Runs -> {"new", "running", "ended"}]
  /\ pc \in [Sids -> {"idle", "again", "queued", "open", "judging", "over", "undecided", "gaveup"}]
  /\ tries \in [Sids -> 0 .. MaxAttempts]
  /\ prepaid \in [Sids -> 0 .. Allowance]
  /\ income \in Nat /\ charged \in Nat /\ forfeited \in Nat

Held == SumFunctionOnSet(prepaid, Sids)

(***************************************************************************)
(* What the bucket counts as spent is what the ended calls paid, what the  *)
(* open ones have set aside, and what was set aside for a call that was    *)
(* never billed: no call is charged twice, whatever order calls are        *)
(* granted and released in and whichever of them cannot pay.               *)
(***************************************************************************)
SpentAccounted == spent = charged + Held + forfeited

\* Money is not created: what is there and what is spent came from the first
\* allowance and the refills (a refund into a full bucket is lost).
NoMoneyFromNothing == level + spent <= Allowance + income

\* What is set aside for an attempt is settled when it ends (gateway.py:693).
PrepaidSettled == forfeited = 0

(***************************************************************************)
(* A run is admitted only when the balance and the refill over its         *)
(* makespan cover what it and every run already admitted are predicted to  *)
(* spend still (gateway.py:346-348).                                       *)
(***************************************************************************)
AdmittedCovered ==
  [][\A r \in Runs : run[r] = "new" /\ run'[r] = "running" =>
       level + RunRefill >= RemainingSpend(r)
                            + MapThenSumSet(RemainingSpend, {o \in Runs : run[o] = "running"})]_vars

(***************************************************************************)
(* Every run is admitted and ends: pacing defers, it does not starve, as   *)
(* long as no single run or attempt is predicted to cost more than a full  *)
(* bucket and its refill (AllWithinMeans).                                 *)
(***************************************************************************)
AllWithinMeans ==
  /\ Refill > 0 /\ GateFloor <= Allowance
  /\ \A s \in Sids : High[s] <= Allowance + CallRefill
  /\ \A r \in Runs : SumFunctionOnSet(Median, Members(r)) + Min(Floors) <= Allowance + RunRefill

RunsFinish == AllWithinMeans => <>(\A r \in Runs : run[r] = "ended")
=============================================================================
