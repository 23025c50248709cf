------------------------------ MODULE Gateway ------------------------------
(***************************************************************************)
(* The harness gateway (society/harness/gateway.py) and the sessions that  *)
(* call it (harness/governed.py): every attempt of a DAG node takes a unit *)
(* of its model tier, perhaps a sandbox unit while it holds that one       *)
(* (a shell tool), perhaps a sandbox unit afterwards (a command gate).     *)
(*                                                                         *)
(* Everything runs on one event loop.  A call of acquire, release or       *)
(* note_verdict is uninterrupted, and what it ends with is _dispatch, a    *)
(* loop over the ordered queue.  The model keeps that loop's program       *)
(* counter: `agenda` holds the resources still to dispatch and `scan` the  *)
(* waiters of `scanRes` still to look at.  While either is non-empty only  *)
(* the loop's own steps (Dispatch) are enabled, so the call and its        *)
(* dispatch are one uninterrupted stretch, as in the code.  `asker` is the *)
(* session in whose acquire the loop runs: a future that is set before it  *)
(* is awaited does not suspend, so a session granted there goes straight   *)
(* on, and only one that has parked at its await can meet its timer with a *)
(* grant in hand.                                                          *)
(*                                                                         *)
(* Abstracted: predictions (which lease is worth issuing, the order of     *)
(* the fair queue) are any choice the code could make; request, token and  *)
(* budget buckets are one flag per metered tier (Billing models the        *)
(* money); society time is relative (Ledger).                              *)
(***************************************************************************)
EXTENDS Naturals, FiniteSets, Sequences, Ledger

CONSTANTS
  Worlds,       \* the societies to consider
  Sandbox,      \* the resource "sandbox.cpu"
  SdkRetries    \* SDK_RETRIES

(***************************************************************************)
(* A world says which sessions there are (one per node of a run), their    *)
(* run, dependencies and model tier, which tiers have request, token or    *)
(* money budgets (metered) or answer 429 (apiLike), the policy ("needs"    *)
(* stands for oracle too), RetryPolicy.max_attempts, and whether acquire's *)
(* wait may time out.                                                      *)
(***************************************************************************)
IsWorld(w) ==
  LET S == DOMAIN w.runOf IN
  /\ IsFiniteSet(S)
  /\ w.runOf \in [S -> Runs]
  /\ w.deps \in [S -> SUBSET S]
  /\ w.tier \in [S -> Res \ {Sandbox}]
  /\ w.metered \subseteq Res /\ w.apiLike \subseteq w.metered
  /\ w.policy \in {"off", "gate", "needs"}
  /\ w.attempts \in Nat \ {0}
  /\ w.timeouts \in BOOLEAN

ASSUME GatewayAssumption ==
  /\ \A w \in Worlds : IsWorld(w)
  /\ Sandbox \in Res
  /\ SdkRetries \in Nat

VARIABLES
  world,     \* the society, fixed
  pc,        \* session -> where it is
  attempt,   \* session -> attempts begun
  retry,     \* session -> 429s answered to this attempt
  calls,     \* session -> acquires so far, the number of its latest Grant
  unit,      \* session -> Grants it is answerable for: [chat, sand], 0 for none
  fut,       \* session -> state of its waiter's future
  expired,   \* sessions whose wait_for timer has fired
  waiters,   \* resource -> waiting sessions, in order of arrival
  holders,   \* resource -> the Grants <<session, number>> that hold a unit
  short,     \* metered tiers whose buckets are spent
  leases,    \* the ledger
  run,       \* run -> "new", "running" (run_start was called) or "ended"
  agenda, scanRes, scan,
  asker      \* {s} from acquire's own dispatch for s to the next step after it, else {}

session == <<pc, attempt, retry, calls, unit>>
queue   == <<fut, expired, waiters>>
loop    == <<agenda, scanRes, scan, asker>>
vars    == <<world, pc, attempt, retry, calls, unit, fut, expired, waiters, holders,
             short, leases, run, agenda, scanRes, scan, asker>>

Sids == DOMAIN world.runOf
RunOf == world.runOf
Deps == world.deps
Tier == world.tier
Metered == world.metered
ApiLike == world.apiLike
Policy == world.policy
MaxAttempts == world.attempts
Timeouts == world.timeouts

\* Every session and run there may be, and the runs of this world.
AllSids == UNION {DOMAIN w.runOf : w \in Worlds}
Live == {RunOf[s] : s \in Sids}

Waiting == {"chatWait", "toolWait", "gateWait"}
AtRest == agenda = {} /\ scan = <<>>

Used(q) == Cardinality(holders[q])
Want(s) == IF pc[s] = "chatWait" THEN Tier[s] ELSE Sandbox
Latest(s) == <<s, calls[s]>>

\* A plausible bug: a waiter that is granted or has left stays in the queue.
WithoutNobody(queued, s) == queued

\* The sequence without the waiter of s, if it is there (_remove).
Without(queued, s) ==
  IF \A k \in DOMAIN queued : queued[k] # s THEN queued
  ELSE LET at == CHOOSE k \in DOMAIN queued : queued[k] = s
       IN [i \in 1 .. Len(queued) - 1 |-> queued[IF i < at THEN i ELSE i + 1]]

\* The sessions in a sequence.
Queued(seq) == {seq[i] : i \in DOMAIN seq}

-----------------------------------------------------------------------------
(* Dispatch: _order, _fits, _dispatch, _grant. *)

\* A plausible bug: what was released waits for the next request.
DispatchNone == UNCHANGED loop

\* _dispatch(q) resp. _dispatch_all: resources with no waiter are left at once.
DispatchAll ==
  agenda' = {q \in Res : waiters'[q] # <<>>} /\ asker' = {} /\ UNCHANGED <<scanRes, scan>>

\* acquire's dispatch, in the call of s.
DispatchOnly(q, s) == agenda' = {q} /\ asker' = {s} /\ UNCHANGED <<scanRes, scan>>
NoDispatch == asker' = {} /\ UNCHANGED <<agenda, scanRes, scan>>

Arrangements(S) ==
  {p \in [1 .. Cardinality(S) -> S] : \A i, j \in DOMAIN p : p[i] = p[j] => i = j}

(***************************************************************************)
(* _order: arrival order without prediction; else sessions of runs with a  *)
(* live reservation first, then the others as predicted (any order).       *)
(***************************************************************************)
Orders(q) ==
  LET owns(s) == Own(leases, q, RunOf[s]) > 0
      before(s, t) == \E i, j \in DOMAIN waiters[q] : i < j /\ waiters[q][i] = s /\ waiters[q][j] = t
  IN  IF Policy # "needs" THEN {waiters[q]}
      ELSE {p \in Arrangements(Queued(waiters[q])) :
              \A i, j \in DOMAIN p : i < j /\ owns(p[j]) => owns(p[i]) /\ before(p[i], p[j])}

\* Units of q held by the sessions of a run (family_holds).
HeldBy(q) == [r \in Runs |-> Cardinality({g \in holders[q] : RunOf[g[1]] = r})]

Reserved(q, s) ==
  IF Policy = "needs" THEN ReservedForOthers(leases, q, RunOf[s], HeldBy(q)) ELSE 0

\* A plausible bug: the room is what the capacity leaves, leases or not.
RoomPlain(q, s) == Used(q) + 1 <= Cap[q]

\* A plausible bug: leases stand in for the units in use.
RoomReserved(q, s) == Reserved(q, s) + 1 <= Cap[q]

\* A plausible bug: the last unit is never given.
RoomStrict(q, s) == Used(q) + 1 + Reserved(q, s) < Cap[q]

\* _fits, as to capacity.
Room(q, s) == Used(q) + 1 + Reserved(q, s) <= Cap[q]

\* _fits, as to request, token and money budgets: chats on a metered tier only.
Affordable(q) == q \notin short

BeginPass ==
  /\ scan = <<>> /\ agenda # {}
  /\ \E q \in agenda :
       /\ agenda' = agenda \ {q}
       /\ scanRes' = q
       /\ scan' \in Orders(q)
  /\ UNCHANGED <<session, queue, holders, short, leases, run, asker>>

\* A waiter whose future was cancelled is dropped.
PassDone(s) ==
  /\ fut[s] = "cancelled"
  /\ waiters' = [waiters EXCEPT ![scanRes] = Without(@, s)]
  /\ scan' = Tail(scan)
  /\ UNCHANGED <<fut, holders, short, leases>>

\* No capacity for this one: the pass ends.
PassFull(s) ==
  /\ fut[s] = "pending" /\ ~Room(scanRes, s)
  /\ scan' = <<>>
  /\ UNCHANGED <<fut, waiters, holders, short, leases>>

\* A budget is short: the next one is looked at.
PassOver(s) ==
  /\ fut[s] = "pending" /\ Room(scanRes, s) /\ ~Affordable(scanRes)
  /\ scan' = Tail(scan)
  /\ UNCHANGED <<fut, waiters, holders, short, leases>>

\* _grant: the unit is taken, the buckets are charged, the run's own lease is
\* consumed, and the future is set; the session resumes later.
Grant(s) ==
  /\ fut[s] = "pending" /\ Room(scanRes, s) /\ Affordable(scanRes)
  /\ waiters' = [waiters EXCEPT ![scanRes] = Without(@, s)]
  /\ holders' = [holders EXCEPT ![scanRes] = @ \cup {Latest(s)}]
  /\ fut' = [fut EXCEPT ![s] = "granted"]
  /\ short' \in {short} \cup (IF scanRes \in Metered THEN {short \cup {scanRes}} ELSE {})
  /\ leases' = IF Policy = "needs" /\ Own(leases, scanRes, RunOf[s]) > 0
               THEN Consumed(leases, scanRes, RunOf[s]) ELSE leases
  /\ scan' = Tail(scan)

Pass(s) ==
  /\ PassDone(s) \/ PassFull(s) \/ PassOver(s) \/ Grant(s)
  /\ UNCHANGED <<session, expired, run, agenda, scanRes, asker>>

Dispatch ==
  /\ UNCHANGED world
  /\ BeginPass \/ (scan # <<>> /\ Pass(Head(scan)))

-----------------------------------------------------------------------------
(* Leases: _downstream_leases with _issue, and _gang. *)

\* Approved, or judged by the gates and scheduled as done until they decide.
AsDone(at, s) == at[s] \in {"over", "judging", "judged", "gateWait", "gating"}

\* Tiers of the nodes predicted to start later than now, those of a run that has
\* failed, which will not start, included.
Upcoming(at, r) ==
  {Tier[s] : s \in {o \in Sids : RunOf[o] = r /\ at[o] \in {"idle", "skipped"} /\ \E d \in Deps[o] : ~AsDone(at, d)}}

(***************************************************************************)
(* The ledgers _downstream_leases may leave: every lease of the run is     *)
(* replaced by one-unit leases on the tiers it will need.  The check of    *)
(* _issue still sees the leases being replaced.                            *)
(***************************************************************************)
Reissued(L, at, r) ==
  IF Policy # "needs" THEN {L}
  ELSE {SetSession(L, r, keep) :
          keep \in {f \in UNION {[T -> {Lease(1, w, l) : w \in 1 .. H, l \in 1 .. H}] : T \in SUBSET Upcoming(at, r)} :
                      \A q \in DOMAIN f : /\ f[q].wait < f[q].left
                                          /\ FitsWindow(L, q, 1, f[q].wait, f[q].left)}}

\* release leaves the leases of a run that has ended alone; note_verdict does not.
ReissuedIfRunning(L, at, r) == IF run[r] = "running" THEN Reissued(L, at, r) ELSE {L}

(***************************************************************************)
(* The ledgers _gang may leave: for each tier with several root nodes the  *)
(* run's leases are replaced by one for all of them, so at most the last   *)
(* tier's survives.                                                        *)
(***************************************************************************)
Roots(r, q) == {s \in Sids : RunOf[s] = r /\ Tier[s] = q /\ Deps[s] = {}}

Ganged(L, r) ==
  IF Policy # "needs" THEN {L}
  ELSE {L} \cup {SetSession(L, r, [p \in {x[1]} |-> Lease(Cardinality(Roots(r, x[1])), 0, x[2])]) :
                   x \in {y \in Res \X (1 .. H) :
                            LET k == Cardinality(Roots(r, y[1])) IN k >= 2 /\ FitsWindow(L, y[1], k, 0, y[2])}}

-----------------------------------------------------------------------------
(* Runs. *)

\* Granted in its own acquire: the await returns at once.
Prompt(s) == s \in asker /\ fut[s] = "granted"

\* The loop is at rest, and no other session is on its way into its next attempt
\* (a failed call, its rejection and the acquire that follows are one stretch) or
\* out of an acquire that did not suspend.
Turn(S) == AtRest /\ \A o \in Sids \ S : pc[o] \notin {"failed", "again"} /\ ~Prompt(o)

\* run_start.
RunStart(r) ==
  /\ UNCHANGED world
  /\ Turn({}) /\ r \in Live /\ run[r] = "new"
  /\ run' = [run EXCEPT ![r] = "running"]
  /\ leases' \in Ganged(leases, r)
  /\ NoDispatch
  /\ UNCHANGED <<session, queue, holders, short>>

Members(r) == {s \in Sids : RunOf[s] = r}
Ended == {"over", "gaveup", "skipped"}
Raised(r) == \E s \in Members(r) : pc[s] = "crashed"

\* run_end, when the DAG runner has returned or raised.
RunEnd(r) ==
  /\ UNCHANGED world
  /\ Turn({}) /\ run[r] = "running"
  /\ \/ \A s \in Members(r) : pc[s] \in Ended
     \/ Raised(r)
  /\ run' = [run EXCEPT ![r] = "ended"]
  /\ leases' = SetSession(leases, r, <<>>)
  /\ UNCHANGED <<session, queue, holders, short>>
  /\ DispatchAll

-----------------------------------------------------------------------------
(* Sessions. *)

\* acquire, up to its await.
Enqueue(s, q, to) ==
  /\ pc' = [pc EXCEPT ![s] = to]
  /\ calls' = [calls EXCEPT ![s] = @ + 1]
  /\ fut' = [fut EXCEPT ![s] = "pending"]
  /\ waiters' = [waiters EXCEPT ![q] = Append(@, s)]
  /\ DispatchOnly(q, s)

\* _provider_refusal.
Refused(s) == Policy = "off" /\ Tier[s] \in ApiLike /\ (Used(Tier[s]) >= Cap[Tier[s]] \/ Tier[s] \in short)

\* A plausible bug: a rejected node always repeats.
AgainAlways(s) == "again"

\* node_rejected: the node repeats, or escalates after its last attempt.
Again(s) == IF attempt[s] < MaxAttempts THEN "again" ELSE "gaveup"

\* An attempt begins when the dependencies are approved and no node has failed,
\* a further one when the last was rejected, a retry when its backoff is over.
MayCall(s) ==
  \/ /\ pc[s] = "idle" /\ run[RunOf[s]] # "new"
     /\ \A d \in Deps[s] : pc[d] = "over"
     /\ \A o \in Members(RunOf[s]) : pc[o] # "gaveup"
  \/ pc[s] \in {"again", "backoff"}

Begun(s) == [attempt EXCEPT ![s] = @ + (IF pc[s] = "backoff" THEN 0 ELSE 1)]

\* GovernedWorker.run: the model unit is asked for.
CallModel(s) ==
  /\ Turn({s}) /\ MayCall(s) /\ ~Refused(s)
  /\ attempt' = Begun(s)
  /\ retry' = [retry EXCEPT ![s] = 0]
  /\ Enqueue(s, Tier[s], "chatWait")
  /\ UNCHANGED <<unit, expired, holders, short, leases, run>>

\* A 429: the SDK waits and retries.
CallRefused(s) ==
  /\ Turn({s}) /\ MayCall(s) /\ Refused(s)
  /\ retry[s] < SdkRetries
  /\ attempt' = Begun(s)
  /\ retry' = [retry EXCEPT ![s] = @ + 1]
  /\ pc' = [pc EXCEPT ![s] = "backoff"]
  /\ NoDispatch
  /\ UNCHANGED <<calls, unit, queue, holders, short, leases, run>>

\* The last retry is refused, or the tenant has no credit: the attempt is burned.
CallBurned(s) ==
  /\ Turn({s}) /\ MayCall(s) /\ Refused(s)
  /\ retry[s] = SdkRetries \/ Tier[s] \in short
  /\ attempt' = Begun(s)
  /\ retry' = [retry EXCEPT ![s] = 0]
  /\ pc' = [pc EXCEPT ![s] = IF attempt'[s] < MaxAttempts THEN "again" ELSE "gaveup"]
  /\ NoDispatch
  /\ UNCHANGED <<calls, unit, queue, holders, short, leases, run>>

\* wait_for returns the grant: the session goes on with its unit.
Resume(s) ==
  /\ Turn({s}) /\ pc[s] \in Waiting /\ fut[s] = "granted" /\ s \notin expired
  /\ pc' = [pc EXCEPT ![s] = CASE pc[s] = "chatWait" -> "calling"
                               [] pc[s] = "toolWait" -> "tooling"
                               [] pc[s] = "gateWait" -> "gating"]
  /\ unit' = [unit EXCEPT ![s] = IF pc[s] = "chatWait" THEN [@ EXCEPT !.chat = calls[s]]
                                                     ELSE [@ EXCEPT !.sand = calls[s]]]
  /\ fut' = [fut EXCEPT ![s] = "none"]
  /\ NoDispatch
  /\ UNCHANGED <<attempt, retry, calls, expired, waiters, holders, short, leases, run>>

\* The timer of wait_for, for a session that has parked: a pending future is
\* cancelled; one that somebody else's step has set already stays set, and the
\* session, scheduled but not yet run, will be told that it timed out.
TimerFires(s) ==
  /\ UNCHANGED world
  /\ Timeouts /\ s \in Sids /\ Turn({s}) /\ pc[s] \in Waiting /\ s \notin expired /\ ~Prompt(s)
  /\ expired' = expired \cup {s}
  /\ fut' = [fut EXCEPT ![s] = IF @ = "pending" THEN "cancelled" ELSE @]
  /\ NoDispatch
  /\ UNCHANGED <<session, waiters, holders, short, leases, run>>

\* A plausible bug: the release is forgotten.
GiveNothing(s) == holders

\* release gives one unit back; what it was is the caller's Grant.
GiveChat(s) == [holders EXCEPT ![Tier[s]] = @ \ {<<s, unit[s].chat>>}]

GiveSand(s) == [holders EXCEPT ![Sandbox] = @ \ {<<s, unit[s].sand>>}]

(***************************************************************************)
(* acquire raises ProviderError("timeout").  Waiting for the model, the    *)
(* worker reports an error and the attempt is rejected; in a tool call the *)
(* error passes through the worker, whose model unit goes back, and on     *)
(* through execute_node, as it does from a gate: the task is gone.         *)
(***************************************************************************)
GiveUp(s) ==
  /\ Turn({s}) /\ pc[s] \in Waiting /\ s \in expired
  /\ expired' = expired \ {s}
  /\ fut' = [fut EXCEPT ![s] = "none"]
  /\ waiters' = [waiters EXCEPT ![Want(s)] = Without(@, s)]
  /\ \/ /\ pc[s] = "chatWait"
        /\ pc' = [pc EXCEPT ![s] = Again(s)]
        /\ leases' \in Reissued(leases, pc', RunOf[s])
        /\ NoDispatch
        /\ UNCHANGED <<unit, holders>>
     \/ /\ pc[s] = "toolWait"
        /\ pc' = [pc EXCEPT ![s] = "crashed"]
        /\ \E L \in Reissued(leases, pc', RunOf[s]) : leases' \in ReissuedIfRunning(L, pc', RunOf[s])
        /\ holders' = GiveChat(s)
        /\ unit' = [unit EXCEPT ![s].chat = 0]
        /\ DispatchAll
     \/ /\ pc[s] = "gateWait"
        /\ pc' = [pc EXCEPT ![s] = "crashed"]
        /\ NoDispatch
        /\ UNCHANGED <<unit, holders, leases>>
  /\ UNCHANGED <<attempt, retry, calls, short, run>>

\* The tool hook: a sandbox unit on top of the model unit (bound: one per attempt).
CallTool(s) ==
  /\ Turn({s}) /\ pc[s] = "calling"
  /\ Enqueue(s, Sandbox, "toolWait")
  /\ UNCHANGED <<attempt, retry, unit, expired, holders, short, leases, run>>

ToolReturns(s) ==
  /\ Turn({s}) /\ pc[s] = "tooling"
  /\ pc' = [pc EXCEPT ![s] = "called"]
  /\ holders' = GiveSand(s)
  /\ unit' = [unit EXCEPT ![s].sand = 0]
  /\ UNCHANGED <<attempt, retry, calls, queue, short, leases, run>>
  /\ DispatchAll

(***************************************************************************)
(* The worker ends; release hands the unit back and re-issues the run's    *)
(* leases.  An error (or unpaid bill) is a verdict already: note_verdict   *)
(* re-issues them first.  So is an exception, which passes through         *)
(* execute_node: a RuntimeError fails the run, any other ends the task and *)
(* with it, in gather, the run, whose other tasks go on.                   *)
(***************************************************************************)
WorkerReturns(s) ==
  /\ Turn({s}) /\ pc[s] \in {"calling", "called"}
  /\ holders' = GiveChat(s)
  /\ unit' = [unit EXCEPT ![s].chat = 0]
  /\ \/ /\ pc' = [pc EXCEPT ![s] = "judging"]
        /\ leases' \in ReissuedIfRunning(leases, pc', RunOf[s])
     \/ /\ \E end \in {"failed", "gaveup", "crashed"} : pc' = [pc EXCEPT ![s] = end]
        /\ \E L \in Reissued(leases, pc', RunOf[s]) : leases' \in ReissuedIfRunning(L, pc', RunOf[s])
  /\ UNCHANGED <<attempt, retry, calls, queue, short, run>>
  /\ DispatchAll

\* The executor rejects the failed attempt, and note_verdict hears of it again.
Rejected(s) ==
  /\ Turn({s}) /\ pc[s] = "failed"
  /\ pc' = [pc EXCEPT ![s] = Again(s)]
  /\ leases' \in Reissued(leases, pc', RunOf[s])
  /\ NoDispatch
  /\ UNCHANGED <<attempt, retry, calls, unit, queue, holders, short, run>>

\* A command gate: a sandbox unit for its run (bound: one per attempt).
CallGate(s) ==
  /\ Turn({s}) /\ pc[s] = "judging"
  /\ Enqueue(s, Sandbox, "gateWait")
  /\ UNCHANGED <<attempt, retry, unit, expired, holders, short, leases, run>>

\* The command has run, or raised: the unit goes back either way.
GateReturns(s) ==
  /\ Turn({s}) /\ pc[s] = "gating"
  /\ \E end \in {"judged", "gaveup", "crashed"} : pc' = [pc EXCEPT ![s] = end]
  /\ holders' = GiveSand(s)
  /\ unit' = [unit EXCEPT ![s].sand = 0]
  /\ UNCHANGED <<attempt, retry, calls, queue, short, leases, run>>
  /\ DispatchAll

\* node_approved or node_rejected reach note_verdict; an abstention does not, nor
\* an exception in a gate or the store.
Verdict(s) ==
  /\ Turn({s}) /\ pc[s] \in {"judging", "judged"}
  /\ \/ /\ pc' \in {[pc EXCEPT ![s] = "over"], [pc EXCEPT ![s] = Again(s)]}
        /\ leases' \in Reissued(leases, pc', RunOf[s])
     \/ /\ \E end \in {"gaveup", "crashed"} : pc' = [pc EXCEPT ![s] = end]
        /\ UNCHANGED leases
  /\ NoDispatch
  /\ UNCHANGED <<attempt, retry, calls, unit, queue, holders, short, run>>

\* The run has failed: a node that was not begun never will be.
Skip(s) ==
  /\ Turn({s}) /\ pc[s] = "idle" /\ run[RunOf[s]] # "new"
  /\ \E o \in Members(RunOf[s]) : pc[o] = "gaveup"
  /\ pc' = [pc EXCEPT ![s] = "skipped"]
  /\ NoDispatch
  /\ UNCHANGED <<attempt, retry, calls, unit, queue, holders, short, leases, run>>

-----------------------------------------------------------------------------
(* Time. *)

\* A tick that does nothing: no time to account for, and no waiter that fits.
TickIdle ==
  /\ leases = EmptyLedger /\ short = {}
  /\ \A s \in Sids : fut[s] = "pending" => ~Room(Want(s), s)

(***************************************************************************)
(* _tick_forever: one unit of society time has passed, so leases start and *)
(* expire and the buckets refill; what that frees is dispatched.           *)
(***************************************************************************)
Tick ==
  /\ UNCHANGED world
  /\ Turn({}) /\ ~TickIdle
  /\ leases' = Aged(leases)
  /\ short' = {}
  /\ UNCHANGED <<session, queue, holders, run>>
  /\ DispatchAll

-----------------------------------------------------------------------------
Init ==
  /\ world \in Worlds
  /\ pc = [s \in Sids |-> "idle"]
  /\ attempt = [s \in Sids |-> 0]
  /\ retry = [s \in Sids |-> 0]
  /\ calls = [s \in Sids |-> 0]
  /\ unit = [s \in Sids |-> [chat |-> 0, sand |-> 0]]
  /\ fut = [s \in Sids |-> "none"]
  /\ expired = {}
  /\ waiters = [q \in Res |-> <<>>]
  /\ holders = [q \in Res |-> {}]
  /\ short = {}
  /\ leases = EmptyLedger
  /\ run = [r \in Runs |-> "new"]
  /\ agenda = {} /\ scanRes = Sandbox /\ scan = <<>> /\ asker = {}

Session(s) ==
  /\ UNCHANGED world
  /\ s \in Sids
  /\ \/ CallModel(s) \/ CallRefused(s) \/ CallBurned(s) \/ Resume(s) \/ GiveUp(s)
     \/ CallTool(s) \/ ToolReturns(s) \/ WorkerReturns(s) \/ Rejected(s)
     \/ CallGate(s) \/ GateReturns(s) \/ Verdict(s) \/ Skip(s)

Next ==
  \/ Dispatch
  \/ \E r \in Runs : RunStart(r) \/ RunEnd(r)
  \/ \E s \in AllSids : Session(s) \/ TimerFires(s)
  \/ Tick

Spec == Init /\ [][Next]_vars

(***************************************************************************)
(* The event loop runs what is ready, tools, workers and gates return      *)
(* (each has a time limit of its own), and time passes.  Where calls may   *)
(* time out, the timer of one that still waits fires in the end.           *)
(***************************************************************************)
FairSpec ==
  /\ Spec
  /\ WF_vars(Dispatch) /\ WF_vars(Tick)
  /\ \A r \in Runs : WF_vars(RunStart(r)) /\ WF_vars(RunEnd(r))
  /\ \A s \in AllSids : WF_vars(Session(s)) /\ WF_vars(TimerFires(s))

-----------------------------------------------------------------------------
(* Properties. *)

\* Every variable holds a value of its kind.
TypeOK ==
  /\ world \in Worlds
  /\ pc \in [Sids -> {"idle", "again", "backoff", "chatWait", "calling", "toolWait", "tooling", "called", "failed",
                     "judging", "gateWait", "gating", "judged", "over", "gaveup", "skipped", "crashed"}]
  /\ attempt \in [Sids -> 0 .. MaxAttempts]
  /\ retry \in [Sids -> 0 .. SdkRetries]
  /\ calls \in [Sids -> Nat]
  /\ unit \in [Sids -> [chat : Nat, sand : Nat]]
  /\ fut \in [Sids -> {"none", "pending", "granted", "cancelled"}]
  /\ expired \subseteq Sids
  /\ waiters \in [Res -> Seq(Sids)]
  /\ holders \in [Res -> SUBSET (Sids \X Nat)]
  /\ short \subseteq Metered
  /\ leases \in [Res -> [Runs -> Leases]]
  /\ run \in [Runs -> {"new", "running", "ended"}]
  /\ agenda \subseteq Res /\ scanRes \in Res /\ scan \in Seq(Sids) /\ asker \subseteq Sids

(***************************************************************************)
(* The Grants a session is answerable for: those it will release, and the  *)
(* one it is about to be handed.                                           *)
(***************************************************************************)
Owned(q) ==
  UNION {  (IF Tier[s] = q /\ unit[s].chat # 0 THEN {<<s, unit[s].chat>>} ELSE {})
      \cup (IF Sandbox = q /\ unit[s].sand # 0 THEN {<<s, unit[s].sand>>} ELSE {})
      \cup (IF pc[s] \in Waiting /\ fut[s] = "granted" /\ Want(s) = q THEN {Latest(s)} ELSE {}) : s \in Sids}

(***************************************************************************)
(* Every unit in use is one that a session will give back, and no session  *)
(* counts on a unit that is not booked: nothing leaks, nothing is released *)
(* twice (Resource.give raises on that).                                   *)
(***************************************************************************)
UnitsOwned == \A q \in Res : holders[q] = Owned(q)

(***************************************************************************)
(* The same of a society in which no call times out (the run Gateway_race  *)
(* shows what a timer does to it).  A timer only ever leaves units booked  *)
(* that nobody owns: what a session counts on is always booked.            *)
(***************************************************************************)
UnitsKept == \A q \in Res : Owned(q) \subseteq holders[q] /\ (~Timeouts => holders[q] \subseteq Owned(q))

(***************************************************************************)
(* No waiter is lost and none is stale: a session with a pending future is *)
(* queued once, where it waits; nobody else is queued.                     *)
(***************************************************************************)
QueueSound ==
  \A q \in Res :
    /\ \A i, j \in DOMAIN waiters[q] : waiters[q][i] = waiters[q][j] => i = j
    /\ \A i \in DOMAIN waiters[q] : LET s == waiters[q][i] IN
         pc[s] \in Waiting /\ Want(s) = q /\ fut[s] \in {"pending", "cancelled"}
    /\ \A s \in Sids : fut[s] = "pending" /\ Want(s) = q => \E i \in DOMAIN waiters[q] : waiters[q][i] = s

\* Without leases no unit is idle while a session waits for it (on a tier
\* without budgets): every step that frees a unit also dispatches it.
NoIdleUnit ==
  AtRest /\ Policy # "needs" =>
    \A s \in Sids : fut[s] = "pending" /\ Want(s) \notin Metered => Used(Want(s)) = Cap[Want(s)]

\* I1 of the ledger, now and for every window already issued.
LeasesBounded == I1(leases)

(***************************************************************************)
(* A run that has ended reserves nothing, if all its tasks returned.  One  *)
(* that raised (a worker, a gate, a tool call that timed out) ends the run *)
(* while the others are at work, and their verdicts issue leases for it    *)
(* again: note_verdict does not look at the status.                        *)
(***************************************************************************)
EndedHoldsNoLease ==
  \A r \in Runs, q \in Res : run[r] = "ended" /\ ~Raised(r) => leases[q][r] = NoLease

\* Whatever its tasks did, from some time on a run that has ended reserves nothing:
\* leases expire unconditionally, and its tasks come to an end.
LateLeasesGo == <>[](\A r \in Runs, q \in Res : run[r] = "ended" => leases[q][r] = NoLease)

(***************************************************************************)
(* What is reserved stays available: while the free units of a resource    *)
(* cover every active reservation, they still do after any grant.          *)
(***************************************************************************)
Covered(q) == Used(q) + Unconsumed(leases, q, Runs, HeldBy(q)) <= Cap[q]

GrantsKeepReservations ==
  [][\A q \in Res : Covered(q) /\ holders[q] \subseteq holders'[q] /\ holders[q] # holders'[q] => Covered(q)']_vars

\* The sessions with an open request for each resource.
Askers == [q \in Res |-> {s \in Sids : fut[s] = "pending" /\ Want(s) = q}]

\* The gateway keeps the contract of a pool of units, also when calls time out.
Pool == INSTANCE UnitPool WITH Sids <- AllSids, asking <- Askers, taken <- holders

UnitContract == Pool!Spec

\* Every call is answered, by a grant or by its timer where calls time out: no
\* session waits for ever for its unit.
Awaits(s) == s \in Sids /\ pc[s] \in Waiting

EveryCallServed == \A s \in AllSids : Awaits(s) ~> ~Awaits(s)
=============================================================================
