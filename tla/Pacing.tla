------------------------------- MODULE Pacing -------------------------------
(***************************************************************************)
(* How the simulator's policies (policies.py, reserver.py) pace what is    *)
(* metered by the minute or the hour: the calls of a rate-limited provider *)
(* (CallBucket), the model's fresh tokens (TokenBucket) and the tenant's   *)
(* money (BudgetBucket), with leases on call units (Ledger, "@rpm") and    *)
(* the control loop's pacing floor (control.py).                           *)
(*                                                                         *)
(* A session runs a program of chats and tool steps; a tool step makes n   *)
(* calls of the provider at once.  An action is one event of the engine: a *)
(* step asks to run and is paused, refused or issued (Ask), it ends (End), *)
(* time passes (Tick), the control loop closes a tick (Control).           *)
(*                                                                         *)
(* Abstracted: time is counted in the refill of one call unit; what is     *)
(* predicted (the spend others still need, a judge's opinion) is any       *)
(* value.  Units and queues, KV admission and what a session does after    *)
(* its last SDK retry are Engine's; the timeout of a paused step is left   *)
(* out, so nothing here comes to its end by giving up waiting.             *)
(***************************************************************************)
EXTENDS Integers, Sequences, FiniteSets, FiniteSetsExt

CONSTANTS
  Worlds,                          \* [policy, prog, background, judge]
  Sessions,
  Rpm, PauseAt, Horizon,           \* calls: bucket, the gate's pause level, reach of a lease
  Warm, Tau,                       \* calls seen before the rate is believed; quantile, in tenths
  TokCap, TokRefill, Headroom,     \* tokens: bucket, refill, what the gates keep back
  UsdCap, UsdRefill, UsdPause,     \* money: bucket, refill, the gate's pause level
  SdkRetries, RetryCap             \* retries of a refused step, longest backoff or paced wait

VARIABLES
  world,     \* the scenario, fixed: the policy, each session's program
  level, tok, usd,   \* the three buckets
  ledger,    \* leases on call units
  seen, hit, \* calls made, and those that cost a second unit
  floor,     \* the pacing floor, in hundredths of UsdCap
  refused,   \* the provider refused a payment since the last control tick
  at, pc,    \* session -> its step, and "asking", "running" or "gone"
  wait,      \* session -> ticks until it asks (again)
  tries,     \* session -> SDK retries of its step
  polls,     \* session -> times told to wait with only time in between
  denied     \* history: kinds of refusal so far

\* A program's steps; a scenario is a policy and a program for each session.
Chats == [kind : {"chat"}, fresh : Nat, usd : Nat, over : SUBSET Int]   \* over: what it may settle
Tools == [kind : {"tool"}, n : Nat \ {0}, usd : Nat]                    \* n: calls made at once
Policies == {"uncoordinated", "gate", "oracle", "lease", "needs", "unpaced"}
IsWorld(w) ==
  /\ w.policy \in Policies
  /\ w.prog \in [Sessions -> Seq(Chats \cup Tools)]
  /\ w.background \in BOOLEAN /\ w.judge \in BOOLEAN

ASSUME PacingAssumption ==
  /\ \A w \in Worlds : IsWorld(w)
  /\ IsFiniteSet(Sessions)
  /\ Rpm \in Nat /\ PauseAt \in Nat /\ PauseAt < Rpm /\ Horizon \in Nat \ {0}
  /\ Warm \in Nat \ {0} /\ Tau \in 1 .. 10
  /\ TokCap \in Nat /\ TokRefill \in Nat \ {0} /\ Headroom \in Nat
  /\ UsdCap \in Nat /\ UsdRefill \in Nat \ {0} /\ UsdPause \in Nat
  /\ SdkRetries \in Nat /\ RetryCap \in Nat \ {0}

buckets == <<level, tok, usd>>
vars == <<world, buckets, ledger, seen, hit, floor, refused, at, pc, wait, tries, polls, denied>>

L == INSTANCE Ledger WITH Runs <- Sessions, Res <- {"calls"}, Cap <- [q \in {"calls"} |-> Rpm], H <- Horizon

Policy == world.policy
Gated == Policy \in {"gate", "lease", "needs", "unpaced"}      \* ReactiveGate and what inherits it
Reserving == Policy \in {"lease", "needs", "unpaced"}          \* LeaseController and NeedsController
Predictive == Policy \in {"needs", "unpaced"}                  \* NeedsController, with and without pacing
PausesSpend == Policy \in {"gate", "lease", "unpaced"}         \* ReactiveGate.budget_admit, not pacing
Step(s) == world.prog[s][at[s]]
Known(s, k) == k <= Len(world.prog[s])
Due(s) == pc[s] = "asking" /\ wait[s] = 0
AtLeast(n, m) == IF n < m THEN m ELSE n
AtMost(n, m) == IF n > m THEN m ELSE n
Ceil(a, b) == -((-a) \div b)

-----------------------------------------------------------------------------
(* Calls of the provider. *)

\* remaining_frac, which does not show an overdraft.
Header == AtLeast(level, 0)

Reserved(s) == L!ReservedForOthers(ledger, "calls", s, [r \in Sessions |-> 0])

\* A plausible bug: the units other tenants' calls may cost are not counted.
MarginPlain(n) == n

\* _margin: n units and the Tau-quantile of the extra units n calls may cost,
\* each of which collides hit times out of seen (comb * p^k * (1-p)^(n-k) is the
\* share of such outcomes); the rate is taken to be 1 until Warm calls were seen.
Outcomes(n) == [1 .. n -> 1 .. (IF seen < Warm THEN 1 ELSE seen)]
Extra(f) == Cardinality({i \in DOMAIN f : f[i] <= (IF seen < Warm THEN 1 ELSE hit)})
Enough(n, k) == 10 * Cardinality({f \in Outcomes(n) : Extra(f) <= k}) >= Tau * Cardinality(Outcomes(n))
Margin(n) == n + Min({k \in 0 .. n : Enough(n, k)} \cup {n})

\* call_cost, for the dearest of n calls of which c meet another tenant's.
Dearest(c) == IF c > 0 THEN 2 ELSE 1

\* CallBucket.can_call, CallBucket.take
CanCall(units) == level >= units
Take(units) == level' = level - units

\* can_issue_external, policy by policy.
GateIssues == Header > PauseAt
LeaseIssues(s, n) == Header - Reserved(s) >= Margin(n)

CanIssue(s, n, c) ==
  CASE Reserving         -> LeaseIssues(s, n)
    [] Policy = "gate"   -> GateIssues
    [] Policy = "oracle" -> CanCall(Dearest(c))
    [] OTHER             -> TRUE

\* CallBucket.wait_for one unit.
UnitWait == AtLeast(1, 1 - level)

\* A plausible bug: the wait is for one unit, whatever is missing.
CallRetryOne(s, n) == UnitWait

\* external_retry_after; a wait shorter than a tick is a tick.
GateRetry == AtLeast(1, PauseAt - Header)
LeaseRetry(s, n) == AtLeast(1, Margin(n) + Reserved(s) - Header)

CallRetry(s, n) ==
  CASE Reserving -> LeaseRetry(s, n) [] Policy = "gate" -> GateRetry [] OTHER -> UnitWait

\* Time alone can make the answer a yes, as far as the header tells.
Reachable(s, n) ==
  level >= 0 /\ CASE Reserving -> Margin(n) + Reserved(s) <= Rpm [] OTHER -> Policy = "gate"

\* on_call_cost: the collisions the provider's header shows.
Collisions(n, c) == seen' = seen + n /\ hit' = hit + c

\* take_call: n calls, c of which cost a second unit.
TakeCalls(n, c) == Take(n + c) /\ Collisions(n, c)

-----------------------------------------------------------------------------
(* The model's tokens. *)

Kept == IF Gated THEN Headroom ELSE 0
TokensFit(fresh) == tok - fresh >= Kept

TokRetry(fresh) == AtLeast(1, Ceil(fresh - (tok - Kept), TokRefill))

-----------------------------------------------------------------------------
(* Money. *)

Purse == AtLeast(usd, 0)
FloorOf(part) == Ceil(floor * UsdCap, 100 * part)

\* What the requests already begun are predicted to spend still, net of refill.
OthersSpend(s) ==
  IF \E o \in Sessions \ {s} : pc[o] # "gone" /\ at[o] > 1 THEN 0 .. UsdCap ELSE {0}

\* NeedsController.budget_admit: a new request leaves the floor and what others
\* still need, unless a judge says it cannot finish; one begun, half the floor.
Paced(s, usd_) ==
  IF at[s] = 1 /\ Step(s).kind = "chat"
  THEN {Purse - usd_ - r >= FloorOf(1) : r \in OthersSpend(s)} \cup (IF world.judge /\ 2 * Purse < UsdCap THEN {FALSE} ELSE {})
  ELSE {Purse - usd_ >= FloorOf(2)}

\* The header pause applied to spend (the gate), the level itself (the oracle).
GateAdmits == Purse > UsdPause
OracleAdmits(usd_) == usd >= usd_

\* budget_admit: the verdicts the policy may give.
Admits(s, usd_) ==
  IF usd_ = 0 THEN {TRUE}
  ELSE CASE Policy = "needs"  -> Paced(s, usd_)
         [] PausesSpend       -> {GateAdmits}
         [] Policy = "oracle" -> {OracleAdmits(usd_)}
         [] OTHER             -> {TRUE}

\* BudgetBucket.can_pay
CanPay(usd_) == usd_ = 0 \/ usd >= usd_

\* BudgetBucket.wait_for
UsdWait(amount) == Ceil(amount - usd, UsdRefill)

\* budget_retry_after: the gate and the pacing controller take the level off
\* twice, here and in wait_for; the controller waits up to twice as long.
GateUsdRetry(usd_) == AtLeast(1, UsdWait(UsdPause - usd + usd_))
PacedRetry(usd_) ==
  LET base == AtMost(RetryCap, AtLeast(1, UsdWait(AtLeast(usd_, FloorOf(1) + usd_ - Purse))))
  IN base .. 2 * base

UsdRetry(usd_) ==
  CASE Policy = "needs" -> PacedRetry(usd_)
    [] PausesSpend      -> {GateUsdRetry(usd_)}
    [] OTHER            -> {AtLeast(1, UsdWait(usd_))}

\* _pay: a charge, or a refund, which a full bucket does not keep.
Pay(amount) == usd' = AtMost(UsdCap, usd - amount)

-----------------------------------------------------------------------------
(* Leases. *)

\* The calls a response revealed are still to come; NeedsController holds on to
\* what is revealed from step to step.
Wanted(s) ==
  /\ Known(s, at[s] + 1) /\ world.prog[s][at[s] + 1].kind = "tool"
  /\ Step(s).kind = "chat" \/ Predictive

\* leases: one unit for those calls, as long as I1 allows; a judge may find that
\* the session loops, which gets no reservation.
Leased(s) ==
  LET room == L!SumAt(ledger, "calls", 0) + 1 <= Rpm
      none == L!SetSession(ledger, s, << >>)
      one == L!SetSession(ledger, s, [q \in {"calls"} |-> L!Lease(1, 0, Horizon)])
  IN IF ~Reserving THEN {ledger}
     ELSE IF ~Wanted(s) \/ ~room THEN {none}
     ELSE {one} \cup (IF Predictive /\ world.judge THEN {none} ELSE {})

\* consume: the first of the step's calls takes the lease with it.
Spent(s) == IF L!Own(ledger, "calls", s) > 0 THEN L!Consumed(ledger, "calls", s) ELSE ledger

\* A plausible bug: a lease lasts until it is used.
LeasesLasting(l) == l

\* expire, one tick on.
LeasesAged(l) == L!Aged(l)

-----------------------------------------------------------------------------
(* Actions. *)

\* A step that waits; `counts` if time alone should let it through.
Pause(s, delays, counts) ==
  /\ \E d \in delays : wait' = [wait EXCEPT ![s] = d]
  /\ polls' = [polls EXCEPT ![s] = IF counts THEN @ + 1 ELSE 0]
  /\ UNCHANGED <<buckets, ledger, seen, hit, refused, pc, tries, denied>>

\* retry_delay, with full jitter.
Backoff == 1 .. RetryCap

\* _fail, _react: the SDK retries, then the step is given up.
Refuse(s, kind) ==
  /\ denied' = denied \cup {kind}
  /\ refused' = (refused \/ kind = "usd")
  /\ \/ /\ tries[s] < SdkRetries
        /\ tries' = [tries EXCEPT ![s] = @ + 1]
        /\ \E d \in Backoff : wait' = [wait EXCEPT ![s] = d]
        /\ UNCHANGED <<pc, ledger>>
     \/ /\ tries[s] = SdkRetries
        /\ pc' = [pc EXCEPT ![s] = "gone"]
        /\ ledger' = L!SetSession(ledger, s, << >>)
        /\ UNCHANGED <<tries, wait>>
  /\ polls' = [o \in Sessions |-> 0]
  /\ UNCHANGED <<buckets, seen, hit>>

Issue(s) ==
  /\ pc' = [pc EXCEPT ![s] = "running"]
  /\ polls' = [o \in Sessions |-> 0]
  /\ UNCHANGED <<refused, wait, tries, denied>>

\* _budget_ok, then `Then`.
Budgeted(s, usd_, Then) ==
  \E ok \in Admits(s, usd_) :
    \/ ~ok /\ Pause(s, UsdRetry(usd_), FALSE)
    \/ ok /\ ~CanPay(usd_) /\ Refuse(s, "usd")
    \/ ok /\ CanPay(usd_) /\ Then

AskChat(s) ==
  /\ Due(s) /\ Step(s).kind = "chat"
  /\ LET st == Step(s) IN
     Budgeted(s, st.usd,
       \/ /\ TokensFit(st.fresh)
          /\ tok' = tok - st.fresh
          /\ Pay(st.usd)
          /\ Issue(s)
          /\ UNCHANGED <<level, ledger, seen, hit>>
       \/ /\ ~TokensFit(st.fresh)
          /\ IF Policy = "uncoordinated" THEN Refuse(s, "tokens")
             ELSE Pause(s, {TokRetry(st.fresh)}, st.fresh + Kept <= TokCap))
  /\ UNCHANGED <<world, floor, at>>

\* c of the calls cost a second unit, which is drawn anew at every try; the
\* provider looks at each call by itself.
AskTool(s) ==
  /\ Due(s) /\ Step(s).kind = "tool"
  /\ LET st == Step(s) IN
     \E c \in 0 .. (IF world.background THEN st.n ELSE 0) :
       \/ ~CanIssue(s, st.n, c) /\ Pause(s, {CallRetry(s, st.n)}, Reachable(s, st.n))
       \/ /\ CanIssue(s, st.n, c)
          /\ Budgeted(s, st.usd,
               \/ ~CanCall(Dearest(c)) /\ Refuse(s, "calls")
               \/ /\ CanCall(Dearest(c))
                  /\ TakeCalls(st.n, c)
                  /\ Pay(st.usd)
                  /\ ledger' = Spent(s)
                  /\ Issue(s)
                  /\ UNCHANGED tok)
  /\ UNCHANGED <<world, floor, at>>

\* A chat settles its output against what was set aside for it.
End(s) ==
  /\ pc[s] = "running"
  /\ \E over \in IF Step(s).kind = "chat" THEN Step(s).over ELSE {0} :
       /\ tok' = tok - AtLeast(over, 0)
       /\ Pay(over)
  /\ at' = [at EXCEPT ![s] = @ + 1]
  /\ IF Known(s, at[s] + 1)
     THEN pc' = [pc EXCEPT ![s] = "asking"] /\ ledger' \in Leased(s)
     ELSE pc' = [pc EXCEPT ![s] = "gone"] /\ ledger' = L!SetSession(ledger, s, << >>)
  /\ tries' = [tries EXCEPT ![s] = 0]
  /\ polls' = [o \in Sessions |-> 0]
  /\ UNCHANGED <<world, level, seen, hit, floor, refused, wait, denied>>

\* on_timer: the loop's clock, which a predictive policy keeps running.
LoopTicks == Predictive /\ \E s \in Sessions : pc[s] # "gone"

\* AllocationLoop.tick_now: the floor of the budget, raised by half and 0.02
\* after a refused payment, lowered by 0.01 after a quiet tick.
Control ==
  /\ LoopTicks
  /\ floor' = IF refused THEN AtMost(50, (3 * floor) \div 2 + 2) ELSE AtLeast(2, floor - 1)
  /\ refused' = FALSE
  /\ UNCHANGED <<world, buckets, ledger, seen, hit, at, pc, wait, tries, polls, denied>>

\* No event is left at this instant: _refill, and what was waited for.
Tick ==
  /\ \E s \in Sessions : pc[s] # "gone"
  /\ \A s \in Sessions : ~Due(s)
  /\ level' = AtMost(Rpm, level + 1)
  /\ tok' = AtMost(TokCap, tok + TokRefill)
  /\ usd' = AtMost(UsdCap, usd + UsdRefill)
  /\ ledger' = LeasesAged(ledger)
  /\ wait' = [s \in Sessions |-> AtLeast(0, wait[s] - 1)]
  /\ UNCHANGED <<world, seen, hit, floor, refused, at, pc, tries, polls, denied>>

Init ==
  /\ world \in Worlds
  /\ level = Rpm /\ tok = TokCap /\ usd = UsdCap
  /\ ledger = L!EmptyLedger
  /\ seen = 0 /\ hit = 0
  /\ floor = 10 /\ refused = FALSE
  /\ at = [s \in Sessions |-> 1]
  /\ pc = [s \in Sessions |-> IF world.prog[s] = << >> THEN "gone" ELSE "asking"]
  /\ wait = [s \in Sessions |-> 0]
  /\ tries = [s \in Sessions |-> 0]
  /\ polls = [s \in Sessions |-> 0]
  /\ denied = {}

Next == Tick \/ Control \/ \E s \in Sessions : AskChat(s) \/ AskTool(s) \/ End(s)

\* The event heap is drained in order of time: a step that is due is tried, a
\* step that runs ends, and time passes.
Spec ==
  /\ Init /\ [][Next]_vars
  /\ WF_vars(Tick)
  /\ \A s \in Sessions : WF_vars(AskChat(s) \/ AskTool(s)) /\ WF_vars(End(s))

-----------------------------------------------------------------------------
(* Properties. *)

(***************************************************************************)
(* A step that asks again after the wait it was told gets through, if only *)
(* time has passed: "a one-unit wait spun every 1 ms" (policies.py:264).   *)
(* The gate's pause is strict, so it may find itself at the threshold and  *)
(* look once more.  Not when the bucket is overdrawn, which the header     *)
(* does not show; not for money, whose retries are short on purpose; not   *)
(* for the oracle, which draws again at every try.                         *)
(***************************************************************************)
RetryTimely == \A s \in Sessions : polls[s] <= 2

(***************************************************************************)
(* What the predictive policies let through is never refused: a payment by *)
(* pacing (control.py:12-15), a call by the margin (policies.py:478) while *)
(* that covers every collision.  Calls of one group are looked at one by   *)
(* one, so the margin is also what keeps the bucket from being overdrawn,  *)
(* whatever others have reserved.                                          *)
(***************************************************************************)
NeverRefused ==
  /\ Policy = "needs" => "usd" \notin denied
  /\ Reserving /\ seen < Warm => "calls" \notin denied /\ level >= 0

(***************************************************************************)
(* Nobody is paused for ever: not by leases that keep each other's holders *)
(* from what they need in addition (policies.py:500), by a floor, by what  *)
(* others are predicted to spend, nor by a judge.  Every step has to fit   *)
(* full buckets.                                                           *)
(***************************************************************************)
PausedServed == <>(\A s \in Sessions : pc[s] = "gone")
=============================================================================
