# Society Harness: verification models

TLA+ models of the Society Harness repository: the DAG runner that passes work
between agents through gates (`society/runner`, `society/gates`,
`society/memory`), the roles and scripts that do the work (`society/agents`,
`society/providers`), the harness gateway that rations model tiers, sandboxes
and money among concurrent runs (`society/harness`), and the simulator in which
its policies are studied (`agentsim`: engine, resources, policies, predictor).
TLC checks every module on small instances; TLAPS proves nearly all of their
safety properties for every value of the constants.

## 1. Inventory

| Component | State it keeps | Operations | What makes it correct |
|---|---|---|---|
| DAG runner, `runner/dag.py` | result status, one completion event per node, the event `failed`, one asyncio task per node | `run`, `_validate`, `_build_input`, `run_node` | no node before its upstream is approved; "completed" only if all are approved; every task ends |
| Executor and gates, `gates/` | attempt loop of a node, gate history | `execute_node`: ceiling, attempt, gates, promote, escalate; `check` of each gate | retries bounded; ceiling overshoot bounded; what a gate looks at is this attempt's |
| KV store and lineage, `memory/` | versioned attempts, `:current` pointers, a list of verdicts with costs | `next_attempt`, `put_attempt`, `promote`, `get_current`, `record` | attempts are immutable and never clash; readers get approved attempts only |
| Agents, providers, `agents/`, `providers/` | workspaces, scripts with recorded faults, a fallback chain | `run`, seed, `mechanical_merge` | a fault is caught by the gate that is meant to; what is shipped works |
| Gateway, `harness/gateway.py`, `governed.py` | waiter queues, run states, holders, leases, fair-queue tags | `acquire`, `release`, `note_verdict`, `tool`, `run_start`, `run_end`, tick | capacity, no leak, no lost waiter, reservations respected |
| Lease ledger, `agentsim/resources.py` | leases per resource and run | `set_session`, `consume`, `expire` | I1: leases never exceed capacity, at any instant |
| Tenant budgets, `gateway.py`, `resources.py` | balance, spent, prepayments | `admit_run`, `_budget_ok`, settlement | money conserved; nobody starves |
| Token, call and money buckets, `resources.py` | levels | `pay`, `take`, `wait_for`, refill | a wait that is told is long enough |
| Simulator engine, `agentsim/engine.py` | sessions, holds, partial holds, wait queues, event heap | `_try_run`, `_wait`, `_wake`, `_release`, timeouts, spawn and join, parking | no leak, no lost wake-up, deadlocks found and broken |
| Model KV cache, `resources.py` | resident prefixes, active and decoding requests | `admit`, `begin_decode`, `end_decode`, eviction | never over its size; an admitted chat finds room |
| Policies and reserver, `policies.py`, `reserver.py` | learned caps, leases to issue, open questions | `admit`, `order`, hooks, `ask`, `flush`, `deliver` | a prediction affects waste, never safety |
| Features, judge channel, `features.py`, `jev.py` | a view per session with open outcomes; pending asks | `on_event`, `drain`; `ask`, batches | the predictor is taught what happened, once |
| Control loop, `control.py` | pacing floor, PI state, fairness weights | `tick_now`, `fairness_update` | bounded outputs |
| Workload, `workload.py` | a program per session | `next_chat`, tool lists | (shapes the engine's scenarios) |
| Planner, web, entry points, predictors, bench, metrics, offline scripts | prompts, tables, streams, statistics | | (section 8) |

**How they interact.** `GovernedRunner.run` asks `admit_run`, calls `run_start`,
runs the DAG and always calls `run_end`. Each node's task runs `execute_node`;
its worker and its command gates are wrapped so that they `acquire` a unit from
the gateway before they work and `release` it after. A worker's shell tool
acquires a sandbox unit *while it holds its model unit*. The executor's
observer tells the gateway each verdict (`note_verdict`). The runner's tasks
share the KV store, the lineage log, the workspaces and the event `failed`; the
sessions share the gateway's queues, holders, ledger and one budget bucket per
tenant. All of this runs on one event loop, so code between two `await`s is
uninterrupted and everything else interleaves. A background task ticks: leases
expire, buckets refill, waiters are looked at again. The simulator is a
discrete-event loop over the same resource classes: a handler is uninterrupted
but re-enters itself, because a release wakes waiters whose attempt to run may
release again. Each event is reported to the policy, whose observer labels
decision points and whose reserver asks a System One model about them.

**What is hard.** Tasks of one run end in any order and one failure must stop
the rest without leaving anybody waiting. Two nodes of one agent number their
attempts from one counter. A rejected attempt leaves files that the next one
finds. A call times out in the very turn in which it is granted. A dispatch
pass changes the state it is deciding about. Leases are issued for future
windows by runs that know nothing of each other. Money is set aside before a
call, settled after it, and refilled in between. Waits nest, time out, form
cycles through children and are woken from inside one another. Outcomes arrive
long after the decision they are about, and answers after the session is gone.
The list of hazards, each with its line and the properties aimed at it, is in
`PROJECT.json`.

## 2. Modules

| Module | Models | Rests on |
|---|---|---|
| `DagShape` | a DAG specification, `validate_dag`, `DagRunner._validate` | |
| `DagRun` | one run: `run`, `run_node`, `execute_node`, KV store, lineage | `DagShape`, `Handoff` |
| `Handoff` | what the KV store promises about hand-offs (abstract) | |
| `Society` | the four roles: workspaces, scripts, faults, gates, fallback, meter | `DagRun` (composed) |
| `Ledger` | the lease ledger as operators on a ledger value | |
| `Gateway` | queues, dispatch, leases, timeouts, retries of governed sessions | `Ledger`, `UnitPool` |
| `UnitPool` | what the gateway promises its callers (abstract) | |
| `Billing` | one tenant's bucket, admission of runs, prepayment and settlement | |
| `Engine` | the simulator's sessions, multi-resource waits, wakes, spawn and join | `ModelKV` |
| `ModelKV` | the model's KV cache as operators on a cache value | |
| `Pacing` | how policies pace calls, tokens and money | `Ledger` (instantiated) |
| `Predictor` | what the needs predictor is taught, and the judge channel | |
| `MCDagRun`, `MCSociety`, `MCGateway`, `MCBilling`, `MCEngine`, `MCPacing`, `MCPredictor` | instances for TLC | |
| `Society_proofs` | theorems about `DagRun`, `Handoff` and `Society` | |
| `Gateway_proofs`, `Predictor_proofs` | theorems about these | |
| `Billing_proofs`, `Pacing_proofs` | theorems about these | `FiniteSums` |
| `Engine_proofs` | the engine's inductive invariant, types, joins | `FiniteSums` |
| `Engine_room_proofs` | capacities, room in the cache, exact accounts of holds, waiters, deadlocks | `Engine_proofs` |
| `FiniteSums` | lemmas on sums over finite sets: money, units, tokens | |

### DagRun

One action per stretch of code between two awaits: `StartNode` (waits over,
inputs read, first attempt begun), `SkipNode`, `WorkerReturns` (extractors
write; an error is rejected by `NoErrorGate` in the same stretch),
`GatesDecide`, `RuntimeFault` and `Crash` (what `run_node` catches and what it
does not), `RunStart`, `RunEnd`. A verdict that repeats the node runs on into
the next attempt's ceiling check and `next_attempt`, as the code does without
an await: `EndAttempt` therefore contains `BeginAttempt`. `status`, `failed`,
`done` are the variables of `run()`; `pc[n]` is where the task of node `n`
awaits; `runs`, `written`, `current` are the KV store's `_run` attempts,
outputs and pointers; `lineage` and `spent` the log. An attempt's value is its
number; which extractor finds something is any subset of the outputs.

### Society

Every action is one of `DagRun`'s, conjoined with what it does to the files:
`Start` furnishes the workspace (seed, merge), `Work` runs the role's script
under a drawn fault, `Judge` is `GatesDecide` with the verdict these gates reach
on these files. `tree` keeps of a workspace what scripts and gates tell apart:
the app, its tests, the page and integration's failing probe. A `world` says
which faults were recorded for each role (`providers/replay.py` draws from
them), whether test runs may be cut off, whether the judge is its rule or a
model, whether money may run out (`meter`), whether there is a second provider
and whether exceptions may happen (`perish`). `out[n]` remembers the latest
attempt of `n`: the fault it drew, what its report claimed, the gate that
rejected it.

### Gateway

`world` says which sessions, tiers and policy there are. A session (`run/node`)
goes `idle`, `chatWait`, `calling`, perhaps `toolWait`, `tooling`, `called`,
then `judging`, perhaps `gateWait`, `gating`, `judged`, and ends `over`,
`gaveup`, `skipped` or `crashed`. `failed` and `again` are points inside an
uninterrupted stretch (`Turn` keeps the others still). `acquire` appends a
waiter; every call ends with `_dispatch`, whose loop is modelled step by step
(`BeginPass`, `PassDone`, `PassFull`, `PassOver`, `Grant`) because each grant
changes what the next test sees; nothing else runs until it is through
(`AtRest`). A waiter's future (`fut`), the timer of `wait_for` (`expired`) and
the resumption of the session (`Resume`, `GiveUp`) are separate steps: in
between, other sessions run, but not after a grant that `acquire` made by its own
dispatch. Awaiting a future that is already set does not suspend (Python 3.12,
which the project requires), so that session goes straight on (`asker`,
`Prompt`), and a timer can meet a grant only where a session has parked and
somebody else's step granted it. A timer of the model may come a few steps after
such a grant, one of the code in the same turn of the event loop: the model
allows more. An attempt may raise wherever the code lets it (`WorkerReturns`,
`GateReturns`, `Verdict`): a `RuntimeError` fails the run (`gaveup`), any other
exception ends the task (`crashed`, `Raised`), and then `gather` and `run_end`
with it, while the other tasks of the run go on. Between a tool that raised and the
worker it passes through others may run in the model, not in the code.
`holders[q]` has one pair
`<<session, number of the acquire>>` per unit, which identifies the code's
`Grant` objects. Predictions are abstracted to a choice: `Reissued` yields every
set of downstream leases the check of `_issue` lets through (for nodes that a
failed run will not begin too: `_schedule` has them still), `Ganged` every gang
the check of `_gang` lets through, `Orders` every order of the fair queue. So
what holds here holds whatever the predictors say. Time is counted in units;
leases carry relative start and expiry (`Ledger`).

### Billing

`Ask`, `Grant`, `Release`, `Verdict` for calls; `Admit`, `RunEnd` for runs;
`Tick` for the refill. Capacity is left to `Gateway`: a queued call may be
granted whenever its budget check allows. `income`, `charged`, `forfeited` are
history variables that let `SpentAccounted` compare the bucket's `spent` with
what really happened. Predicted costs are constants per session, real usage is
any value up to `MaxUsage`.

### Engine

The state of the code is `prog` (`Program`), `pend` (`Pending`), `held`
(`Resource.holders`), `lease`, the cache `kv`, and what a gate has learned
(`aimd`). An event handler is uninterrupted but re-entrant: `_release` calls
`_wake`, whose loop calls `_try_run`, which may fail and release again. `stack`
is the call stack: a frame is a call, or the rest of one, still to be made; the
top frame is made next (`Within`); an event is handled only when the stack is
empty (`AtRest`). Frames are what make a lost wake-up or a half-done release
visible. A waiting step collects its resources one by one (`part`), as
`_try_run` does, and hands them back when it is refused. Time is abstracted: a
scheduled event may come at any moment, except that an idle sandbox parks before
the request it waits for. Forecasts, the order of waiters and, in a metered
world, the buckets' refusals are choices.

### Predictor

An action is one handler of the engine with every event it reports, in order.
`view[s]` is the observer's `SessionView`, `past[s]` the history of what really
happened, `learned` the labels drained so far. A record of a decision point is
named by its place in the history, so a label can be held against the events
that followed. `batch`, `flush`, `answers`, `recs` are the judge channel and the
reserver's book-keeping; an ask may be dropped, batched, answered late or after
its session is gone. Whether a horizon has passed is a choice that keeps the
order in which records were made. A gang is opened at the end of a chat or when
its tools are ready; that the reserver may open one again at the submission of a
chat, from a list of revealed tools that is stale (`reserver.py:637-659`), is left
out.

### Pacing

Three buckets (`level`, `tok`, `usd`), leases on call units (`Ledger`, which
ages by `Tick`), the collision rate a policy learns (`seen`, `hit`), the control
loop's `floor`. A session runs a program of chats and tool groups: it asks
(`AskChat`, `AskTool`), is issued, paused with a wait, or refused by the
provider and retried after a backoff, and ends. Six policies share these
actions: `gate`, `oracle`, `uncoordinated`, `lease`, `needs`, and `unpaced`
(`needs` with pacing ablated). Queues and units are `Engine`'s.

## 3. Runs

| Run | Question | Distinct states |
|---|---|---|
| `DagRun` | every property of the runner over ten shapes, valid and invalid, with crashes | 241 k |
| `Society` | four societies: are faults caught, is what is delivered sound, is the contract first | 313 k |
| `Gateway_safety` | six societies: units, queues, leases and reservations, the pool's contract | 834 k |
| `Gateway_served` | four crowded societies: no idle unit, every call answered, late leases gone for good | 309 k |
| `Billing` | under each policy: balance in bounds, money accounted for, no run starved | 999 k |
| `Engine` | eight worlds: accounting, wake-ups, deadlocks, joins, room in the cache, termination | 113 k |
| `Predictor` | nine kinds of stream: labels true, each outcome once, no ask stranded | 67 k |
| `Pacing` | thirteen worlds: waits long enough, nothing let through is refused, nobody paused for ever | 339 k |
| `Gateway_race`, `Billing_forfeit`, `Billing_admission`, `Engine_leak` | section 7 | violated |

The shape of a run (`dag`), the scenario (`world`) and the policy of `Billing`
are variables that the initial state chooses and no step changes, so one run
covers all of them.

*Worlds of the gateway:* `Chains` (two runs of two nodes in sequence, leases on
the next tier), `Repeats` (a chain and a single node, two attempts), `Gangs`
(two parallel nodes and a chain on two units), `Bare` (no harness: 429s, SDK
retries, burned attempts), `Queue` (three sessions on one unit), `Pinched` (a gang
and a single node on two units whose budgets run short), `Late` (calls time
out), `Orphan` (two parallel nodes, one with a successor: one may raise while the
other is at work), `Race` (section 7). In every world a worker or a gate may raise.
*Worlds of the engine:* `Pinned` (one slot, one sandbox, the framework keeps the
slot during a tool), `Bounced` (429s and limits), `Idle` (parking), `Fan` and
`Fans` (sub-agents that need what their orchestrator keeps), `Paced`, `Crowded`
(chats that fit while prefilled but not while they answer), `Reserving` (leases
for groups and sub-agents), and `Mixed`, which leaks (section 7).
*Worlds of the predictor:* undisturbed, with retrieval, two requests, one
failure, two failures, sub-agents, asks alone, asks in batches, two sessions
sharing a batch. *Worlds of the society:* every fault with the rule as judge;
slow test runs with a model as judge; slow test runs with a fallback and money
running out; a frontend beside its backend with exceptions and no money.
*Worlds of pacing:* each policy on calls, with other tenants' calls in between;
each but `lease` on money; the reactive ones on tokens.

**Bounds, and why they are enough.** The DAG shapes have up to three nodes
(four in the diamond): enough for every way two nodes can stand to each other
(upstream, downstream, side by side, joined, same agent) and for a reference
that skips a level. Two attempts reach "rejected, repeated" and "rejected for
the last time"; a ceiling of two calls' cost bites after two attempts of three
or four. `Society` has the three attempts of the code, so that a file left by the first
is met by the second and the third, and all four roles. At the gateway, two
runs are one owner of a lease and one stranger to it; three sessions on
one unit give a queue of two, where order and head-of-line
blocking matter; one unit of each resource makes hold-and-wait as tight as it
gets, two units are the least a gang needs. `H`, the lease horizon, is 3 where
leases are the question and 2 in `Gateway_served`, so that future, running and
expired leases coexist and windows overlap in part; it is 1 in `Gateway_race`,
whose policy issues no leases. A session uses its tool and its command gate at
most once per attempt. In `Billing` an allowance of 2 lies below the predicted
cost of both runs together, so that every branch of settlement (refund, clipped
refund, payment, shortfall, no usage) is reached. In `Engine` two sessions are a
holder and a waiter, a child makes the third party of a cycle, and three chats
are the least that can overfill a cache one by one; `SdkRetries = 1` and
`MaxEpisodes = 1` reach each reaction (retry, replan, abort) once. In `Pacing` a
bucket of four units with a margin of up to one per call is exhausted by two
sessions of three steps; `Warm = 3` lets the learned rate take over halfway. A
`Predictor` session has up to three chats a request, enough for a record two
turns old to be settled by a third. `calls` and the history variables need no
bound of their own: attempts bound them.

`CHECK_DEADLOCK FALSE` throughout: a society whose runs have all ended stops.

**Fairness.** Weak fairness of the event loop's steps: asyncio runs every ready
task in turn, the dispatch loop is a plain `for`, and the tick is a task that
sleeps and loops. That a worker, tool or gate which was called answers is
assumed (each carries a time limit of its own). A timer that is set and not
cancelled fires (`TimerFires` is weakly fair, and enabled only in worlds whose
calls may time out), so `EveryCallServed` is earned by grants alone in `Queue`,
`Pinched` and `Orphan`. `LateLeasesGo` rests on the tick and on the tasks of a run coming
to an end. `Admit` is weakly fair: a deferred run looks again every five
seconds, and in a bucket that refills what fits stays so. The engine's handlers
return (weak fairness of `Within`); its scheduled events get strong fairness,
because the heap hands out each of them in time although handlers in between
disable it; nothing is assumed of wait timeouts and forecasts, so
`EverySessionEnds` does not rest on them. In `Pacing` time passes, and a step
that is due asks. No fairness is asked of `RuntimeFault` or `Crash`.

## 4. Properties

`DagRun`: `StartedAfterUpstream`, `AttemptsUnique`, `HandoffFromUpstream`,
`CompletedMeansApproved`, `CostCeiling`, `CurrentAdvances` (a pointer moves
back only when one agent serves two unordered nodes), `HandoffContract`
(refinement of `Handoff`), `TasksTerminate`. The last one ends with a disjunct,
"or some node crashed", because the code does: an exception other than
`EscalationRequired` and `RuntimeError` leaves the completion event of its node
unset, `gather` raises (`dag.py:144-153`), and tasks waiting for that node stay
behind for ever. Without such an exception every task ends and the run returns.

`Society`: `FaultCaught` holds each drawn fault against the gate that rejected
the attempt. It has three excuses, each a real one: a test run that was cut off
(`slow`), a model's opinion where the judge is a model, and `TooEarly`, a
frontend that does not wait for its backend and finds no contract published.
`Delivered` says that what integration and ship let through works in the merged
tree, not only in somebody's report. `ContractFirst` says that no frontend is
approved before a backend is, also where the DAG runs them side by side.

`Gateway`: `UnitsKept` (a unit a session counts on is booked, and where nothing
times out every booked unit has somebody who will release it), `QueueSound`,
`NoIdleUnit`, `LeasesBounded` (invariant I1 of the ledger at every future
instant, not only now), `EndedHoldsNoLease`, `GrantsKeepReservations`,
`UnitContract` (refinement of `UnitPool`), `EveryCallServed`, `LateLeasesGo`. The
second half of `UnitsKept` is given up under timeouts because it is false there
(section 7). `EndedHoldsNoLease` has one exception, with timeouts and without: a
run one of whose tasks raised (`Raised`). `GovernedWorker` releases and re-raises
(`governed.py:59-61`), as a tool call that timed out does; `gather` raises,
`run_end` drops the run's leases while its other tasks are at work, and their
verdicts issue new ones (`gateway.py:793`), since `note_verdict`, unlike `release`,
does not look at the status. `LateLeasesGo` says what is left then: whatever an
ended run still reserves goes in the end, and for good.

`Billing`: `SpentAccounted`, the balance's bounds (in `TypeOK`), `RunsFinish` under `AllWithinMeans`: a run or attempt predicted to
cost more than a full bucket and its refill waits for ever, and nothing in the
code says it should not.

`Engine`: `CapacityKept` at every point of every handler; between events
`HoldsAccounted` (what a resource says a session holds is what it will give
back), `NoLeakedHolds`, `JoinCounts`, `DeadlockFlagged` (of any set of sessions
that only each other could help, one is scheduled to be interrupted), and
`NoFittingWaiter` (nobody waits for what is free). The last has exceptions the
code earns: under `needs` only the first of the leases that end together
re-tries its waiters, a gate raises its cap after it woke them, and a chat may
overlook cache that an eviction freed while another runs, whose end wakes it.
`RoomExists`: an admitted chat can always begin to answer, if no answer outgrows
its reserve. `EverySessionEnds`, where no reservation and no meter is involved:
with reservations a wake-up may be lost, and only a timeout helps; a limit that
is never lifted ends nothing.

`Predictor`: `LabelsTrue` compares every label with the history after its
decision point, `EachOutcomeOnce` counts them for requests that ended well,
`AsksKept` says that no ask is stranded and nothing is kept for a session that
is over.

`Pacing`: `RetryTimely` bounds how often a step is told to wait with nothing but
time in between: it gets through at the second look at the latest. Not when the
bucket is overdrawn (the header clamps it to zero), not for money (short on
purpose), not for the oracle (it draws again each time). `NeverRefused`: what
the predictive policies let through the provider accepts. `PausedServed`:
nobody is paused for ever.

Every property of a passing run has a mutant of the code that it detects
(`PROJECT.json`, "mutants"): a dropped second look at `failed`, a node-local
attempt counter, a forgotten release, a probe left behind, a lease compared
with the capacity instead of what is left, a wake that wakes nobody, a joined
child left out of the wait graph, and so on.

## 5. Proofs

The proofs leave all constants free. What they assume is named in the modules
and evaluated by every run: `DagRunAssumption` (references belong to agents,
DAGs are finite, at least one attempt, a positive ceiling),
`SocietyAssumption` (the backend's `endpoint` and `schema` are references),
`ReplayAssumption` (a society's DAG is one of the registered roles: one node
each, an integration below a backend and a frontend, a ship below an
integration, `registry.py`; and a script acts out only the faults recorded for
its role),
`LedgerAssumption` (finitely many runs, positive capacities and horizon),
`GatewayAssumption` (worlds are well formed, the sandbox is a resource),
`BillingAssumption` (prices, refills and limits are numbers),
`EngineAssumption` (worlds are well formed, `IsWorld`: finitely many sessions, a
child has one parent, which is no child; capacities are numbers; an SDK retries a
finite number of times), `PacingAssumption` (worlds are well formed, `IsWorld`:
programs of chats and tool groups whose costs are numbers; the gate pauses below
a full bucket) and `PredictorAssumption` (a tool group has a call). Two theorems
have a hypothesis of their own: `MildTools` says that in a metered world no tool
step takes more than one sandbox and makes external calls besides. All worlds of
the run `Engine` are mild; `Mixed`, of `Engine_leak`, is not, and leaks.

| Theorem | States |
|---|---|
| `TypeCorrect` | `DagRun`: `Spec => []TypeOK` |
| `UpstreamFirst` | `Spec => []StartedAfterUpstream` |
| `CompletedIsApproved` | `Spec => []CompletedMeansApproved` |
| `AttemptsAreUnique` | `Spec => []AttemptsUnique` |
| `CeilingHolds` | `Spec => []CostCeiling` |
| `RunImplementsHandoff` | `Spec => HandoffContract` |
| `ReadFromUpstream` | `Spec => []HandoffFromUpstream` |
| `PointersAdvance` | `Spec => CurrentAdvances` |
| `OnlyApprovedSeen` | `HandoffContract => []H!OnlyApprovedIsSeen` (of `Handoff`) |
| `RunShowsApproved` | `Spec => []H!OnlyApprovedIsSeen` |
| `SocietyIsRun` | `SocietySpec => Spec` (of `DagRun`) |
| `ContractBeforeForm` | `SocietySpec => []ContractFirst` |
| `FaultsAreCaught` | `SocietySpec => []FaultCaught` |
| `DeliveredWorks` | `SocietySpec => []Delivered` |
| `LeasesAreBounded` | `Gateway`: `Spec => []LeasesBounded` |
| `CapacityIsKept` | `Spec => []CapacityKept`: never more units in use than there are |
| `GrantsSpareReservations` | `Spec => GrantsKeepReservations` |
| `GatewayTyped` | `Spec => []TypeOK` |
| `QueuesAreSound` | `Spec => []QueueSound` |
| `UnitsAreKept` | `Spec => []UnitsKept` |
| `EndedRunsHoldNoLease` | `Spec => []EndedHoldsNoLease`, with timeouts or without |
| `NoUnitIsIdle` | `Spec => []NoIdleUnit` |
| `GatewayIsAPool` | `Spec => UnitContract` (of `UnitPool`) |
| `BalanceBounded` | `Billing`: `Spec => []TypeOK` |
| `NoMoneyCreated` | `Spec => []NoMoneyFromNothing`: balance and money spent never exceed allowance and refills |
| `SpendingAccounted` | `Spec => []SpentAccounted` |
| `EngineTyped` | `Engine`: `Spec => []TypeOK` |
| `JoinsCounted` | `Spec => []JoinCounts` |
| `CapacityIsKept` (`Engine_room_proofs`) | `Spec => []CapacityKept` |
| `RoomAlwaysExists` | `Spec => []RoomExists` |
| `HoldsAreAccounted` | `Spec /\ MildTools => []HoldsAccounted` |
| `NoHoldIsLeaked` | `Spec /\ MildTools => []NoLeakedHolds` |
| `NobodyWaitsForWhatIsFree` | `Spec => []NoFittingWaiter` |
| `NoDeadlockIsMissed` | `Spec /\ MildTools /\ DemandsFit => []DeadlockFlagged` |
| `PacingNeverRefused` | `Pacing`: `Spec => []NeverRefused` |
| `WaitsAreTimely` | `Spec => []RetryTimely` |
| `AsksAreKept` | `Predictor`: `Spec => []AsksKept` |

**The runner.** `StepShape` says once and for all what a step of a node can
look like: it begins an attempt, escalates, approves or only moves its program
counter. Each invariant is then proved against those four shapes instead of six
actions with their cases.

- *Upstream* is not inductive. A node waits on completion events, and an
  escalation sets all of them, so "event set" does not mean "approved".
  `UpstreamInv` adds: a task that is past its waits has all its direct
  dependencies approved, and while `failed` is unset an event is set only for
  an approved node. `UpstreamApproved` lifts direct dependencies to ancestors:
  the approved nodes together with the dependencies of a started node form a
  dependency-closed set, and `Ancestors` is the least one.
- *Completed means approved* needs `StatusInv`: the status leaves "completed"
  exactly when `failed` is set, and only a failed run has an escalated or
  skipped node.
- *Attempts are unique* needs `AttemptInv`: an agent's counter bounds the
  number of each of its nodes, and whatever is in the store has a number that
  was handed out, to the node that wrote it.
- *The ceiling* needs `CostInv`: what is spent, plus one call per attempt still
  under way, is less than the ceiling plus one call per node. It counts busy
  nodes, so it uses the library's facts on cardinality.
- *The refinement* maps the store to `versions`, approvals on record to
  `approved`, contexts to `seen`. `HandoffInv` adds that the attempt a node is
  about to have approved is not on record yet, which is why a promotion is a
  promotion of something new.
- *What readers see*: `PointersApproved` and `ShownApproved` are an invariant of
  the abstract contract alone; through the refinement it holds of every run.
- *Reading from upstream* needs `PointerInv`: a pointer that is set names an
  attempt that is on record as approved, of an approved node of the right agent.
  When a node reads, everything upstream of it is approved and nothing
  downstream of it has begun (`UpstreamInv`), so the pointer's source lies where
  it should (`SourceUpstream`); an agent with one node leaves no choice.

- *Pointers advance* needs `OrderInv`: a pointer that is set names the latest
  attempt of an approved node, and of two nodes of one agent the one upstream has
  the lower number, since it makes no further attempt once the other has begun. A
  step that moves a pointer back approves a node whose number is the lower one;
  neither node can be upstream of the other.

**The society.** `JudgeDecides` shows that the verdict of the gates is one
`DagRun` allows, so each action of `Society` is a step of the run or a stutter,
and every invariant above holds of it. `ContractFirst` needs `PointerInv` again:
an approved frontend passed the gate that reads `:current` (`ApprovalReadsContract`),
what is read was written by an approved node of agent `backend`.
`FaultCaught` and `Delivered` share one invariant, `WorkInv`: what a node that
is about to be judged has is the output of one of its script's runs in its
workspace (`JudgingInv`); what an approved backend or frontend left in its
workspace is sound and nobody touches it any more, since each role has one node
(`BackendInv`, `FrontendInv`); and the merged tree is made of those two, with
the probe of integration as its latest attempt left it (`RootInv`). Each gate is
then one case: what it lets through of what that role can have written.

**The gateway.** I1 alone is not inductive: it sums units over runs, and the sum
is of a finite set only while no single lease exceeds the capacity. `LedgerInv`
adds that; `SetSessionKeeps`, `ConsumedKeeps`, `AgedKeeps` prove it of each
operation of the ledger, at every instant up to the horizon, and `ReissuedKeeps`
and `GangedKeeps` of any set of leases the gateway's checks let through.
`HolderInv` adds to it that holders are finite, that a policy without leases has
none, and the bound itself; `HolderShape` says that a step takes one unit within
the room `_fits` computed, or takes none. `GrantsKeepReservations` then compares
what is pending before and after a grant (`GrantLeavesPending`): the taker's own
lease is consumed, the others hold what they held. Timeouts, races and retries
are part of the specification the theorems are about: the unit that
`Gateway_race` loses still counts as used.

The rest of the gateway rests on what happens to a queue. Four lemmas say what
appending, removing, taking the head and re-ordering do to the set of those
queued and to "each once" (`AppendShape`, `WithoutShape`, `TailShape`,
`OrderShape`); from then on queues are sets.

- *Queues* (`QueueInv`): a session waits exactly while it has a future; while
  that is pending it is queued where it waits; a queued one is pending or was
  cancelled by a timer that has just fired; and what a dispatch pass still has
  to look at (`scan`) is queued. The last part is what makes a grant in the
  middle of a pass a grant to somebody who waits.
- *Units* (`UnitInv`): from where a session is follows which units it answers
  for (`Owns`); those are booked; where nothing times out nothing else is; and
  the number of the acquire it is waiting in has not been booked yet, so that a
  unit is never booked twice under one name. With timers the last but one is
  false, which `Gateway_race` shows.
- *Types* (`PaceInv`): a session that is to repeat has an attempt left.
- *Ended runs* (`EndInv`): unless one of its tasks raised, nothing of an ended run
  is left to do and it has reserved nothing; a verdict, a grant or a gang only ever
  re-issues leases of a run that has a session under way, and a session that has
  raised stays so, so the exception cannot come and go. Timeouts are included: one
  of a model call is an ordinary rejection, one of a tool or a gate raises.
- *No idle unit* (`IdleInv`): a session with an open request is accounted for:
  there is no unit to have, its resource is on the agenda of the dispatch loop,
  or the pass under way has not come to it yet. Every step that frees a unit
  puts the resource on the agenda, and a pass is given up only when nothing is
  left.
- *The refinement* maps pending futures to `asking` and holders to `taken`. A
  grant is `Give`, everything else is `Move` or a stutter; that the request is
  closed by the very step that gives the unit comes from `QueueInv`, that there
  is one to give from `HolderInv`.

**The budget.** `BillingInv` splits into `MoneyInv` (bounds, and balance plus
spent at most allowance plus income) and `AttemptInv` (an attempt about to begin
is one the limit allows). `GrantPays` and `ReleaseSettles` do the arithmetic:
what is set aside is there, and a refund gives back at most what was taken.
`SpentAccounted` sums what is set aside over sessions. `FiniteSums` proves, by
induction over finite sets, that a sum changes by the change of its only
changed term; `AsideInv` adds that a session without an open call has set
nothing aside.

**The engine.** A handler of the engine is spread over the frames on `stack`, and
almost nothing one wants to say holds in the middle of one. The invariant `Good`
therefore speaks of what is still to be made: of every session, which of its
calls lie on the stack (`OpsIn`), how much of what it holds will be released
(`GivesIn`, `DueIn`) and what will be cleared (`ClearsIn`).

- `Flow` fits a session's pending step, its program and its cache entry to these
  calls: a session of which a call is still to be made neither waits nor runs, a
  waiting one wants something, a request in the cache as active is one in
  prefill. `Orderly` says in what order frames of one session lie on the stack:
  no call of it above another one or above a release, no clearing above a release.
- `Backed`: the resources say that a session holds at least what its step has
  taken so far and what its program has committed, and at least what was taken
  and what frames are still to release. What a parallel group owns is part of
  what was committed. This keeps a release from giving back more than was taken.
- `Families`: a parent's `joins` counts the children that run or have a call to
  be made that starts or buries them; before the fan-out no child has begun.

A step takes the top frame off and pushes a volley of frames of one session
(`Volley`). `StepKeeps` is the one lemma that looks at the whole stack; it asks
of the step what the frames pushed owe (`Pays`), that other sessions are kept or
evicted (`Kept`), and that the family is as it was (`SameFamily`). Each handler
is then a lemma of its own (`TimeoutKeeps`, `ReleaseKeeps`, `SpawnKeeps`,
`BuryKeeps`, ...), and the induction is their disjunction (`NextKeeps`).
`TypeOK` needs `Good`, since it says that holds are never negative; `JoinCounts`
is `Families` with an empty stack.

- *Capacity* (`Capacious`) sums holds over sessions. Whoever takes has looked
  (`_fits`), releases only ever lower the sum (`ReleaseFits`, with `Backed`), and
  a gate that learns never believes in more than there is. Tokens in the cache
  are a second sum, which an admission, an answer and an eviction change.
- *Room* (`Roomy`): the requests in prefill leave the reserve free as long as
  there are any. Everything else in the cache may be evicted, so when a prefill
  ends with an answer within the reserve there is a set of entries whose going
  makes room (`RoomIsMade`; by `SomeGo` a least one exists, or all of them go).
  An admission keeps it because the physics admits a request only if the prefills
  and the reserve fit with it.
- *Exact accounts* (`Exact`): `Backed` bounds what is held from below; equality
  is more. `CountOf`: what a resource holds for a session is what its program
  committed, plus what its waiting step has collected, plus what frames are still
  to release, unless the program still counts that. `SandboxOf` and `EndedOf`: a
  sandbox's memory and CPU are counted together, and what an ended session counts
  is about to be cleared. `Grouped`: the extra units of a parallel group are taken
  right before it starts, so that nobody refuses or pauses it with them in hand.
  That is where `MildTools` is needed: such a step would hand them back through
  `_release`, which drops the whole hold.
- *Waiters* (`Answered`): "nobody waits for what is free" is false in the middle
  of a handler, and true again when it returns because of a debt on the stack: of
  each resource, a frame that offers it is still to be made (`Woken`), or
  everybody who waits for it wants more than is free (`Short`). A release makes
  such a frame unless there is one (`ReleaseAnswered`); the frame goes only when
  it found nobody that fits (`WakeBestAnswered`); every other step takes no frame
  of it away (`WokenKept`), gives nothing back (`HeldRises`) and lets nobody wait
  (`Calm`), but a wait of `_try_run`, which has just seen that there is too little
  (`WaitAnswered`). For the cache it is the same, or a chat is running (`Busy`),
  whose end makes the frame; when none runs, everything in the cache may go, so a
  waiter wants more than its size (`Large`). `Unleased` and `Unlearned` are the
  two exceptions: without the needs policy nobody reserves units, and without
  meters the gate believes in all of an external resource.
- *Deadlocks* (`Detected`, the property at any point of any handler). A step that
  is `Calm` makes nobody stuck (`CalmStuck`), and an orchestrator that has just
  fanned out has no child running (`SpawnDetected`). What is left is a wait. If
  `InWaitCycle` is true the waiter is flagged; if not, whom it waits for, and whom
  they wait for, is a set without it. Cut down to that set, the stuck sessions are
  stuck among themselves (`CutStuck`), and were so before the wait (`WaitStuck`).
  The cut is not empty because somebody else holds units of what it waits for:
  it holds none itself (`MissingUnheld`, from `Exact`), and it asks for no more
  than there is (`MissingFits`). The latter is the hypothesis `DemandsFit`: no
  sandbox larger than the memory, no tool with more calls at once than the
  resource has units. Without it one session is stuck by itself and closes no
  cycle. The worlds of `MCEngine` fulfil it.

**Pacing.** A step that was told to wait must get through at the second look at
the latest, if there was nothing but time in between. `Promises` says why, of
every step that was (`polls`): under the policies that reserve, what is in the
bucket plus what the wait still brings covers its margin and what is reserved for
others (`LeaseWaits`); at the gate it reaches the pause level, then passes it
(`GateWaits`); a chat's tokens come alike (`TokenWaits`). While time passes the
sum of level and wait stays, and what is reserved only falls, because leases age
and run out (`ReservedFalls`); whatever else happens resets `polls`.
`NeverRefused` rests on the margin: `MarginHolds` shows that it covers the calls
of a group, at two units a call as long as the rate of collisions is unknown.

**The predictor.** The events of a handler are a chain of operators on the turn
of its session. `IsTurn` says of a turn that it is its session's, going on, and
that what it asks is about decision points of the session; every operator keeps
it (`AdvanceKeeps`, `EndKeeps`, `ChatEndKeeps`, ...) but `SessionEnd`, which
comes last and makes it `IsLast`. `GotoKeeps` then proves once what any handler
does to the reserver's books, `FlushKeeps` and `AnswerKeeps` what the timers do.
That an ask names its session needs that a tool group has a call, which is
carried through the programs (`IsProg`).

## 6. Only model-checked

Liveness (`TasksTerminate`, `EveryCallServed`, `RunsFinish`, `EverySessionEnds`,
`PausedServed`, `LateLeasesGo`) is out of the prover's reach.

Of `Engine`, no safety property. But `HoldsAccounted` and `NoLeakedHolds` are
proved of mild worlds only, since they are false of others (`Engine_leak`), and
`DeadlockFlagged` of mild worlds where each demand fits by itself.

Of `Predictor`, `LabelsTrue` and `EachOutcomeOnce`: they compare labels with what
folds over a session's history give, and what a fold computes for every input is
an induction over data.

## 7. Where code and text disagree

Findings, each with a run that shows it:

1. `Gateway_race`: a call has parked in the queue; another session's release (or
   the tick) grants it, and later in the same turn of the event loop its timer
   fires: it raises `timeout` while its `Grant` is booked
   (`gateway.py:538-548`). `_remove` finds no waiter, and no one ever releases
   the unit. `governed.py:59`: "the unit must go back whatever the worker did".
2. `Billing_forfeit`: settlement is skipped when a call used nothing
   (`gateway.py:731`), so what was set aside stays spent. `gateway.py:693`:
   "reserved for this attempt; settled at release".
3. `Billing_admission`: a run that has been admitted but has not asked for a
   unit yet is not netted (`gateway.py:357-358`), so two runs are admitted on
   one balance. Docstring at `gateway.py:346-348`: "net of what the runs
   already in flight are predicted to still spend".
4. `Engine_leak`: a parallel group that is paused gives its spare CPU units back
   through `_release` (`engine.py:579-586`), which drops the program's whole
   hold: the unit the sandbox itself was committed with is never given back.
   `run.py:537` checks for "no leaked holds", in `Program.holds` only.

Seen while modelling. Each of these is in the model as the code has it, or is
left out where noted; none has a property of its own.

*Gateway.* The first branch of a gang consumes the lease of its siblings too
(`gateway.py:699`), and gangs on two tiers replace each other (`gateway.py:501`),
although `gateway.py:486` promises "k slots". `note_verdict` re-issues leases
for a run that has ended because a task raised (`gateway.py:793`); they keep units
from others until they expire (`EndedHoldsNoLease`, `LateLeasesGo`).

*Runner.* `keys()` matches with `LIKE`, where `_` in an agent's name is a
wildcard (`kv.py:44`): attempt numbers may be skipped, never reused.

*Society.* A form that drifted from the contract stays, although the retry that
follows is approved (`replay.py:237`). An `output_schema` fault shows only in the
backend's and integration's reports. Integration is merged once per run
(`_prepared`), so a second integration node judges the first one's tree. An
integration node outside workspace "." finds no tree (not modelled).

*Engine.* Of leases that end together only the first re-tries its waiters
(`engine.py:166-168`). The learned cap of an external resource rises after the
waiters were woken (`engine.py:819-824`). A replan after the last chat, or after
one that spawned, drops the tools it was to redo (`engine.py:663-666`). An
eviction at the start of an answer frees cache and wakes nobody.

*Predictor.* The two nodes after revealed tools (S2, S3) are miscounted when a
failure re-runs or skips tools; `LabelsTrue` asks them only of undisturbed
requests. An abort settles them with "final". A veto outlives the gang it was
about. A refused budget takes open risks out of the book, so an abort that
follows teaches none. `_judge` scores the latest answer of its kind, not the one
that was asked first (`reserver.py:394`). A model turn comes as `model.slots`
while `jev.py:276` compares with `model`, so it is taught as "sandbox" (the
wording of an answer is not modelled).

*Pacing.* The gate's retry time subtracts the level twice, so it comes early
and looks once more; its pause is strict, so waiting exactly the deficit finds
it at the threshold; the header clamps an overdrawn bucket to zero; the oracle
waits one unit when a call costs two and spins. The provider's verdict is per
call, so without a margin a group overdraws the bucket (`engine.py:479-486`).
Under paced needs no payment is ever refused, so the floor's raise
(`control.py:89-90`) never happens. Leases of two sessions can block each
other's margin until they expire.

## 8. Not modelled

- *Planner and web* (`planner.py`, `server.py`): the planner asks a model for a
  DAG until `validate_dag` accepts it, and `DagRun` takes any DAG; the server
  streams events to a browser.
- *Entry points, bench, metrics, traces, offline scripts* (`run.py`,
  `world.py`, `bench.py`, `metrics.py`, `schema.py`, `rung0/`): they start
  runs, draw tables and read files; no protocol state.
- *Predictors* (`needs.py`, `predict.py`, `marginals.py`, `train.py`,
  `fit.py`): numerics. Every module takes any prediction instead.

Inside modelled components: prompt texts, SQL and JSON, the numbers in features,
request- and token-per-minute arithmetic at the gateway (a flag per metered
tier; the buckets themselves are in `Pacing`), fairness tags and the PI scale
(any order, any prediction), token rates of the model, the provider's HTTP
client, spans, statistics and report counters.

## 9. Plan

Done: the runner, the society on top of it, the gateway's units and one tenant's
money, pacing, all their safety properties proved; the simulator's engine and
cache, with all safety properties proved; the predictor, with the book-keeping of
its asks proved and what it learns model-checked.

What could be added, in this order:

1. Several tenants in `Billing`, and `Billing` composed with `Gateway`: which of
   two checks, money or unit, holds a call back.
2. `ValidateDag`: Kahn's algorithm and the ancestor worklist as written, against
   `DagShape`.
3. The gateway's own use of the judge channel, on the model of `Predictor`.
4. A second run under the id of an earlier one (`dag.py:113` lets a caller pass
   it): it starts from the first node, over attempts, pointers and a `_prepared`
   key that are already there.
