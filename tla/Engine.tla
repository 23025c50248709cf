------------------------------- MODULE Engine -------------------------------
(***************************************************************************)
(* The discrete-event engine (agentsim/engine.py) and what it asks of      *)
(* workload.py, policies.py and resources.py: sessions that chat, call     *)
(* tools, fan out into sub-agents and think, and the resources they hold   *)
(* and wait for while they do.                                             *)
(*                                                                         *)
(* An event handler is uninterrupted but re-enters itself: _release calls  *)
(* _wake, whose loop calls _try_run of a waiter, which may fail and        *)
(* release in turn.  The model keeps the call stack: a frame is a call     *)
(* (or the rest of one) still to be made, the top frame is made next, and  *)
(* events are handled only when the stack is empty.                        *)
(*                                                                         *)
(* Abstracted: time (an event that is scheduled may come at any moment,    *)
(* but an idle sandbox parks before the request it waits for); the         *)
(* policy's order of waiters and its forecasts (any choice); token and     *)
(* call buckets and budgets (in a metered world, a chat or an external     *)
(* call may be paused or refused at any time); spans and statistics.       *)
(***************************************************************************)
EXTENDS Integers, Sequences, FiniteSets, FiniteSetsExt, SequencesExt, ModelKV

CONSTANTS
  Worlds,        \* the scenarios to consider
  SdkRetries,    \* policy.sdk_retries
  MaxEpisodes    \* reaction.max_episodes

(***************************************************************************)
(* A world: top-level sessions and the sub-agents each may launch, once    *)
(* (kids); capacities (cap), sandbox sizes (gb), API-like resources (api); *)
(* policy "uncoordinated", "gate" or "needs"; whether the framework holds  *)
(* the model slot during a tool (pinned); the tool lists a chat may issue  *)
(* (tools), whether it may retrieve first; chats per request at most and   *)
(* requests per session; metered, whether a tool may hit its limit, and    *)
(* whether a client may time out; the KV scenario (size, context, limit,   *)
(* reset, outs, reserve).                                                  *)
(***************************************************************************)
VARIABLES
  world,    \* the scenario, fixed
  prog,     \* session -> its Program
  pend,     \* session -> its Pending step, or what it does without one
  held,     \* session -> resource -> units (Resource.holders)
  lease,    \* session -> resource -> units reserved (the ledger)
  kv,       \* the model's KV cache
  stack,    \* calls still to be made by the event being handled
  aimd      \* what a gate allows itself of ext, and its calls in a row that went well

vars == <<world, prog, pend, held, lease, kv, stack, aimd>>

Order == <<"slots", "mem", "cpu", "ext", "ret">>
Units == Range(Order)
Tops == DOMAIN world.kids
Kids(s) == IF s \in Tops THEN world.kids[s] ELSE {}
Parent(c) == CHOOSE t \in Tops : c \in Kids(t)
IsKid(s) == s \notin Tops
Everybody(w) == DOMAIN w.kids \cup UNION Range(w.kids)
Sessions == Everybody(world)

\* What every world has: children of one orchestrator each (child ids are
\* "<parent>/<k>.<j>"), units to share, sandboxes that take some of them.
ToolSteps == [kind : {"tool"}, loc : Nat, ext : Nat, redo : {<<>>}, out : {0}]
IsWorld(w) ==
  /\ DOMAIN w.kids # {} /\ IsFiniteSet(DOMAIN w.kids)
  /\ \A s \in DOMAIN w.kids :
       /\ IsFiniteSet(w.kids[s]) /\ w.kids[s] \cap DOMAIN w.kids = {}
       /\ \A t \in DOMAIN w.kids : t # s => w.kids[s] \cap w.kids[t] = {}
  /\ w.cap \in [Units -> Nat \ {0}]
  /\ \A s \in Everybody(w) : w.gb[s] \in Nat \ {0}
  /\ w.tools \subseteq Seq(ToolSteps)
  /\ w.policy \in {"uncoordinated", "gate", "needs"}
  /\ {w.pinned, w.fetch, w.metered, w.toolTimeouts, w.timers} \subseteq BOOLEAN
  /\ {w.chats, w.requests, w.streak, w.size, w.ctx, w.limit, w.reset, w.reserve} \cup w.outs \subseteq Nat

ASSUME EngineAssumption ==
  /\ \A w \in Worlds : IsWorld(w)
  /\ SdkRetries \in Nat /\ MaxEpisodes \in Nat

Nothing == [r \in Units |-> 0]
Tool(loc, ext) == [kind |-> "tool", loc |-> loc, ext |-> ext, redo |-> <<>>, out |-> 0]
Fetch == [kind |-> "fetch", loc |-> 0, ext |-> 0, redo |-> <<>>, out |-> 0]
Chat(redo, out) == [kind |-> "chat", loc |-> 0, ext |-> 0, redo |-> redo, out |-> out]

NoPending(mode) ==
  [mode |-> mode, step |-> Fetch, rest |-> <<>>, tries |-> 0, part |-> <<>>, own |-> Nothing,
   par |-> FALSE, gang |-> FALSE, want |-> <<"none", 0>>, due |-> FALSE, flag |-> FALSE]
NewProgram(ctx) ==
  [life |-> "off", req |-> 0, chats |-> 0, fin |-> FALSE, eps |-> 0, joins |-> 0, fanned |-> FALSE,
   holds |-> Nothing, nap |-> "no", park |-> 0, ctx |-> ctx]

Pausing == {"off", "think", "join"}
HasStep(s) == pend[s].mode \notin Pausing
Active(s) == prog[s].life = "active"
Waiting(s) == pend[s].mode = "waiting"
Waiters(r) == {s \in Sessions : Waiting(s) /\ pend[s].want[1] = r}
Running(s) == pend[s].mode \in {"prefill", "decode", "tool", "fetch"}
AtRest == stack = <<>>

Extra(step) == IF step.loc > 1 THEN step.loc - 1 ELSE 0

-----------------------------------------------------------------------------
(* The stack. *)

Call(op, s) == [op |-> op, s |-> s, r |-> "none", amt |-> 0]
Give(s, r, amt) == [op |-> "give", s |-> s, r |-> r, amt |-> amt]
Wake(r) == [op |-> "lapse", s |-> CHOOSE t \in Tops : TRUE, r |-> r, amt |-> 0]
All == 0        \* _release without an amount

Top(op) == stack # <<>> /\ Head(stack).op = op
Run(frames) == stack' = frames \o Tail(stack)      \* within a call
Handle(frames) == AtRest /\ stack' = frames        \* an event

GiveEach(s, amounts) == [i \in DOMAIN amounts |-> Give(s, amounts[i][1], amounts[i][2])]
GiveHeld(s, r) == IF prog[s].holds[r] > 0 THEN <<Give(s, r, All)>> ELSE <<>>
GiveSlot(s) == GiveHeld(s, "slots")
GiveHolds(s) ==
  GiveSlot(s) \o GiveHeld(s, "mem") \o GiveHeld(s, "cpu") \o GiveHeld(s, "ext") \o GiveHeld(s, "ret")
GiveUnit(s, r) == IF pend[s].own[r] > 0 THEN <<Give(s, r, pend[s].own[r])>> ELSE <<>>
GiveOwn(s) == GiveUnit(s, "ext") \o GiveUnit(s, "ret") \o GiveUnit(s, "cpu")

-----------------------------------------------------------------------------
(* Resources and leases. *)

HeldBy(S, r) == SumFunctionOnSet([s \in Sessions |-> held[s][r]], S)
Used(r) == HeldBy(Sessions, r)
Family(o) == {o} \cup Kids(o)

\* Ledger.reserved_for_others.
Reserved(r, s) ==
  SumFunctionOnSet([o \in Sessions |-> Max({0, lease[o][r] - HeldBy(Family(o), r)})],
                   {o \in Sessions : s \notin Family(o)})

\* Policy.cap: a gate learns how much of an external resource it may use.
Gated == world.policy # "uncoordinated"
CapOf(r) == IF r = "ext" /\ Gated THEN aimd.cap ELSE world.cap[r]
Free(r, s) == CapOf(r) - Used(r) - Reserved(r, s)
Fits(s, r, amt) ==
  IF r = "kv" THEN RoomFor(kv, world.size, amt) ELSE Free(r, s) >= amt

\* What the needs controller may reserve for s: the units of the parallel
\* group ahead, or slots and sandboxes for the sub-agents, as far as I1 allows.
Leased(r) == SumFunctionOnSet([o \in Sessions |-> lease[o][r]], Sessions)
Fitting(offer) == [r \in Units |-> Min({offer[r], Max({0, world.cap[r] - Leased(r)})})]
Offers(s, group, joining) ==
  {Nothing} \cup
  (IF world.policy = "needs" /\ group > 1
     THEN {l \in {Fitting([Nothing EXCEPT !["cpu"] = group])} : l["cpu"] >= 2} ELSE {}) \cup
  (IF world.policy = "needs" /\ joining
     THEN {Fitting([Nothing EXCEPT !["slots"] = Cardinality(Kids(s)), !["cpu"] = Cardinality(Kids(s)),
                                   !["mem"] = SumFunctionOnSet(world.gb, Kids(s))])} ELSE {})

\* _replace_leases.
Replace(s, group, joining) ==
  \E l \in Offers(s, group, joining) : lease' = [lease EXCEPT ![s] = l]

-----------------------------------------------------------------------------
(* Waiting: _wait, _in_wait_cycle. *)

\* A plausible bug: an orchestrator that waits for its children waits for nobody.
BlocksNoJoin(x) ==
  IF Waiting(x) /\ pend[x].want[1] \in Units
    THEN {h \in Sessions \ {x} : held[h][pend[x].want[1]] > 0} ELSE {}

\* Whom x waits for.
Blocks(x) ==
  IF Waiting(x) /\ pend[x].want[1] \in Units
    THEN {h \in Sessions \ {x} : held[h][pend[x].want[1]] > 0}
  ELSE IF pend[x].mode = "join" THEN {c \in Kids(x) : Active(c)} ELSE {}

\* Does s, once it waits for r, wait for itself?
InWaitCycle(s, r) ==
  LET next(x) == IF x = s THEN {h \in Sessions \ {s} : r \in Units /\ held[h][r] > 0} ELSE Blocks(x)
  IN  \A C \in SUBSET Sessions :
        (next(s) \subseteq C /\ \A x \in C : next(x) \subseteq C) => s \in C

Wait(s, r, amt, gang) ==
  /\ pend' = [pend EXCEPT ![s].mode = "waiting", ![s].want = <<r, amt>>, ![s].gang = gang,
                          ![s].flag = ~gang /\ InWaitCycle(s, r)]
  /\ Run(<<>>)
  /\ UNCHANGED <<world, prog, held, lease, kv, aimd>>

\* _close_wait and the call of _try_run that follows it.
Unwait(s, then) ==
  /\ pend' = [pend EXCEPT ![s].mode = "ready", ![s].want = <<"none", 0>>, ![s].gang = FALSE, ![s].flag = FALSE]
  /\ stack' = <<Call("try", s)>> \o then
  /\ UNCHANGED <<world, prog, held, lease, kv, aimd>>

-----------------------------------------------------------------------------
(* _release and _wake_loop. *)

\* A plausible bug: what a release frees waits for the next one.
WakingNobody(r, rest) == <<>>

Waking(r, rest) ==
  IF \E i \in DOMAIN rest : rest[i].op \in {"lapse", "wake"} /\ rest[i].r = r THEN <<>> ELSE <<Wake(r)>>

\* A plausible bug: whatever the amount, the session forgets its whole hold.
ReleaseForgets ==
  /\ Top("give")
  /\ LET f == Head(stack)
         amt == IF f.amt = All THEN held[f.s][f.r] ELSE f.amt
     IN  /\ held' = [held EXCEPT ![f.s][f.r] = @ - amt]
         /\ prog' = [prog EXCEPT ![f.s].holds[f.r] = 0]
         /\ Run(Waking(f.r, Tail(stack)))
  /\ UNCHANGED <<world, pend, lease, kv, aimd>>

Release ==
  /\ Top("give")
  /\ LET f == Head(stack)
         amt == IF f.amt = All THEN held[f.s][f.r] ELSE f.amt
     IN  /\ held' = [held EXCEPT ![f.s][f.r] = @ - amt]
         /\ prog' = [prog EXCEPT ![f.s].holds[f.r] = IF f.amt = All \/ @ <= amt THEN 0 ELSE @ - amt]
         /\ Run(Waking(f.r, Tail(stack)))
  /\ UNCHANGED <<world, pend, lease, kv, aimd>>

\* Gang waiters whose lease is gone run sequentially now.
LapsedGangs(r) == {s \in Waiters(r) : r = "cpu" /\ pend[s].gang /\ lease[s][r] = 0}
WakeGang ==
  /\ Top("lapse")
  /\ LET r == Head(stack).r IN
     IF LapsedGangs(r) # {}
       THEN \E s \in LapsedGangs(r) : Unwait(s, stack)
       ELSE /\ Run(<<[Head(stack) EXCEPT !.op = "wake"]>>)
            /\ UNCHANGED <<world, prog, pend, held, lease, kv, aimd>>

FittingWaiters(r) == {s \in Waiters(r) : Fits(s, r, pend[s].want[2])}
WakeBest ==
  /\ Top("wake")
  /\ LET r == Head(stack).r IN
     IF FittingWaiters(r) # {}
       THEN \E s \in FittingWaiters(r) : Unwait(s, stack)
       ELSE Run(<<>>) /\ UNCHANGED <<world, prog, pend, held, lease, kv, aimd>>

-----------------------------------------------------------------------------
(* _try_run. *)

Needs(s, r) ==
  LET st == pend[s].step
      sandbox == st.loc > 0 /\ prog[s].holds["mem"] = 0
  IN  CASE r = "slots" -> IF st.kind = "chat" /\ prog[s].holds[r] = 0 THEN 1 ELSE 0
        [] r = "mem"   -> IF sandbox THEN world.gb[s] ELSE 0
        [] r = "cpu"   -> IF sandbox THEN 1 ELSE 0
        [] r = "ext"   -> st.ext
        [] r = "ret"   -> IF st.kind = "fetch" THEN 1 ELSE 0

Taken(s) == {pend[s].part[i][1] : i \in DOMAIN pend[s].part}
Missing(s) == {r \in Units : Needs(s, r) > 0 /\ r \notin Taken(s)}
First(S) == Order[Min({i \in DOMAIN Order : Order[i] \in S})]

Take(s, r, amt) ==
  /\ held' = [held EXCEPT ![s][r] = @ + amt]
  /\ UNCHANGED <<world, prog, kv, stack, aimd>>

TakeNext(s) ==
  /\ Missing(s) # {}
  /\ LET r == First(Missing(s)) IN
     /\ Fits(s, r, Needs(s, r))
     /\ Take(s, r, Needs(s, r))
     /\ pend' = [pend EXCEPT ![s].part = Append(@, <<r, Needs(s, r)>>)]
     /\ UNCHANGED lease

\* A plausible bug: what _return_partial gives back stays on the list.
FailKeeping(s) ==
  /\ Run(GiveEach(s, pend[s].part) \o <<Call("react", s)>>)
  /\ UNCHANGED <<world, prog, pend, held, lease, kv, aimd>>

\* _fail, from _return_partial on.
Fail(s) ==
  /\ Run(GiveEach(s, pend[s].part) \o <<Call("react", s)>>)
  /\ pend' = [pend EXCEPT ![s].part = <<>>, ![s].par = FALSE]
  /\ UNCHANGED <<world, prog, held, lease, kv, aimd>>

WaitOrFail(s, r, amt) ==
  IF world.policy = "uncoordinated" /\ r \in world.api THEN Fail(s) ELSE Wait(s, r, amt, FALSE)

TakeNothing(s) ==
  /\ Missing(s) # {}
  /\ LET r == First(Missing(s)) IN
     /\ ~Fits(s, r, Needs(s, r))
     /\ WaitOrFail(s, r, Needs(s, r))

Complete(s) == Missing(s) = {}
Spare(s) == Complete(s) /\ Extra(pend[s].step) > 0 /\ ~pend[s].par
SpareFits(s) == Spare(s) /\ Fits(s, "cpu", Extra(pend[s].step))
SpareReserved(s) == Spare(s) /\ lease[s]["cpu"] >= Extra(pend[s].step)

\* The extra units of a parallel group: taken if they are there (which uses
\* up the reservation), waited for only if they are reserved.
TakeSpare(s) ==
  /\ SpareFits(s)
  /\ LET k == Extra(pend[s].step) IN
     /\ Take(s, "cpu", k)
     /\ pend' = [pend EXCEPT ![s].part = Append(@, <<"cpu", k>>), ![s].par = TRUE]
     /\ lease' = [lease EXCEPT ![s]["cpu"] = 0]

AwaitSpare(s) ==
  /\ SpareReserved(s) /\ ~SpareFits(s)
  /\ Wait(s, "cpu", Extra(pend[s].step), TRUE)

Collected(s) == Complete(s) /\ ~SpareFits(s) /\ ~SpareReserved(s)
ContextOf(s) == prog[s].ctx

\* A plausible bug: a chat is admitted without a reserve for its answer.
NeedContext(s) == ContextOf(s)

NeedKV(s) == ContextOf(s) + world.reserve
IsChat(s) == pend[s].step.kind = "chat"
CacheReady(s) == IsChat(s) => Fits(s, "kv", NeedKV(s))

AwaitCache(s) ==
  /\ Collected(s) /\ ~CacheReady(s)
  /\ WaitOrFail(s, "kv", NeedKV(s))

\* Rate limits and budgets: the gate pauses, the provider refuses.
Metered(s) == world.metered /\ Collected(s) /\ CacheReady(s) /\ (IsChat(s) \/ pend[s].step.ext > 0)
Pause(s) ==
  /\ Metered(s) /\ Gated
  /\ Run(GiveEach(s, pend[s].part))
  /\ pend' = [pend EXCEPT ![s].part = <<>>, ![s].par = FALSE, ![s].due = TRUE]
  /\ UNCHANGED <<world, prog, held, lease, kv, aimd>>
Refuse(s) == Metered(s) /\ Fail(s)

\* on_external_429 and _fail.
Fewer == [cap |-> Max({1, aimd.cap \div 2}), streak |-> 0]
Throttle(s) ==
  /\ Metered(s) /\ ~IsChat(s) /\ Gated /\ aimd # Fewer
  /\ Run(<<Call("throttled", s)>>)
  /\ aimd' = Fewer
  /\ UNCHANGED <<world, prog, pend, held, lease, kv>>
Throttled == Top("throttled") /\ Fail(Head(stack).s)

\* A plausible bug: an evicted request is not scheduled again.
EvictedForgotten(p, victims) == [v \in DOMAIN p |-> IF v \in victims THEN [p[v] EXCEPT !.mode = "ready"] ELSE p[v]]

\* _evict: the victims restart from prefill.
Evicted(p, victims) ==
  [v \in DOMAIN p |-> IF v \in victims THEN [p[v] EXCEPT !.mode = "ready", !.due = TRUE] ELSE p[v]]

Amount(part, r) ==
  SumFunctionOnSet([i \in DOMAIN part |-> IF part[i][1] = r THEN part[i][2] ELSE 0], DOMAIN part)

\* _commit and _start.
Start(s) ==
  /\ Collected(s) /\ CacheReady(s)
  /\ LET pd == pend[s]
         own == [r \in Units |-> IF r \in {"ext", "ret"} THEN Amount(pd.part, r)
                                 ELSE IF r = "cpu" /\ pd.par THEN Extra(pd.step) ELSE 0]
         running == [pd EXCEPT !.part = <<>>, !.own = own,
                               !.mode = IF IsChat(s) THEN "prefill" ELSE pd.step.kind]
     IN  /\ prog' = [prog EXCEPT ![s].holds = [r \in Units |-> @[r] + Amount(pd.part, r)]]
         /\ \E o \in IF IsChat(s) THEN BeginPrefill(kv, world.size, s, ContextOf(s))
                     ELSE {[cache |-> kv, victims |-> {}]} :
              /\ kv' = o.cache
              /\ pend' = Evicted([pend EXCEPT ![s] = running], o.victims)
  /\ Run(<<>>)
  /\ UNCHANGED <<world, held, lease, aimd>>

TryRun ==
  /\ Top("try")
  /\ LET s == Head(stack).s IN
     \/ TakeNext(s) \/ TakeNothing(s) \/ TakeSpare(s) \/ AwaitSpare(s) \/ AwaitCache(s)
     \/ Pause(s) \/ Refuse(s) \/ Throttle(s) \/ Start(s)

-----------------------------------------------------------------------------
(* Steps and sessions begin and end. *)

\* _ready.
Ready(s, step, rest) ==
  /\ pend' = [pend EXCEPT ![s] = [NoPending("ready") EXCEPT !.step = step, !.rest = rest]]
  /\ Replace(s, step.loc, FALSE)
  /\ Run(<<Call("try", s)>>)
  /\ UNCHANGED <<world, held, kv, aimd>>

\* _ready_chat, as a call.
ReadyChat ==
  /\ Top("chat")
  /\ LET s == Head(stack).s IN
     \/ world.fetch /\ Ready(s, Fetch, <<>>)
     \/ \E out \in world.outs : Ready(s, Chat(<<>>, out), <<>>)
  /\ UNCHANGED prog

\* A plausible bug: one retry too many.
RetryOnceMore(s) ==
  /\ pend[s].tries <= SdkRetries
  /\ pend' = [pend EXCEPT ![s].tries = @ + 1, ![s].due = TRUE]
  /\ Run(<<>>)
  /\ UNCHANGED <<world, prog, held, lease, kv, aimd>>

\* _react.
Retry(s) ==
  /\ pend[s].tries < SdkRetries
  /\ pend' = [pend EXCEPT ![s].tries = @ + 1, ![s].due = TRUE]
  /\ Run(<<>>)
  /\ UNCHANGED <<world, prog, held, lease, kv, aimd>>

EndSession(s, life, program) ==
  /\ prog' = [prog EXCEPT ![s] = [program EXCEPT !.life = life]]
  /\ Run(GiveHolds(s) \o <<Call("gone", s)>>)
  /\ UNCHANGED <<world, pend, held, kv, aimd>>

Failed(s) == [prog[s] EXCEPT !.eps = @ + 1]
Abort(s) ==
  /\ pend[s].tries >= SdkRetries
  /\ EndSession(s, "aborted", Failed(s))
  /\ UNCHANGED lease

\* Think again, then redo the failed step.
Replan(s) ==
  /\ pend[s].tries >= SdkRetries /\ prog[s].eps < MaxEpisodes
  /\ \E out \in world.outs :
       LET redo == IF IsChat(s) THEN <<>> ELSE <<pend[s].step>> \o pend[s].rest IN
       /\ Ready(s, Chat(redo, out), <<>>)
       /\ prog' = [prog EXCEPT ![s] = Failed(s)]

React ==
  /\ Top("react")
  /\ LET s == Head(stack).s IN Retry(s) \/ Abort(s) \/ Replan(s)

\* The rest of _end_session, before and after its _wake_kv.
Gone ==
  /\ Top("gone")
  /\ LET s == Head(stack).s IN
     /\ lease' = [lease EXCEPT ![s] = Nothing]
     /\ kv' = Drop(kv, s)
     /\ Run(Waking("kv", Tail(stack)) \o <<Call("bury", s)>>)
  /\ UNCHANGED <<world, prog, pend, held, aimd>>

\* A plausible bug: a sub-agent that was aborted is never joined.
BuryUnjoined ==
  /\ Top("bury")
  /\ LET s == Head(stack).s IN
     /\ pend' = [pend EXCEPT ![s] = NoPending("off")]
     /\ IF IsKid(s) /\ prog[s].life = "done"
          THEN LET p == Parent(s) IN
               /\ prog' = [prog EXCEPT ![p].joins = @ - 1]
               /\ Run(IF prog[p].joins = 1 /\ Active(p) THEN <<Call("chat", p)>> ELSE <<>>)
          ELSE UNCHANGED prog /\ Run(<<>>)
  /\ UNCHANGED <<world, held, lease, kv, aimd>>

\* _child_ended: the last child's end is the parent's next turn.
Bury ==
  /\ Top("bury")
  /\ LET s == Head(stack).s IN
     /\ pend' = [pend EXCEPT ![s] = NoPending("off")]
     /\ IF IsKid(s)
          THEN LET p == Parent(s) IN
               /\ prog' = [prog EXCEPT ![p].joins = @ - 1]
               /\ Run(IF prog[p].joins = 1 /\ Active(p) THEN <<Call("chat", p)>> ELSE <<>>)
          ELSE UNCHANGED prog /\ Run(<<>>)
  /\ UNCHANGED <<world, held, lease, kv, aimd>>

-----------------------------------------------------------------------------
(* The end of a chat, after its wake of the KV queue: after_chat, leases,  *)
(* the model slot; then the end of the request, the fan-out, the tools or  *)
(* the next chat.                                                          *)

Compacted(ctx) == IF ctx > world.limit THEN world.reset ELSE ctx
ChatDone(s, fin) ==
  [prog EXCEPT ![s].ctx = Compacted(@ + pend[s].step.out), ![s].chats = @ + 1, ![s].fin = fin]

CanSpawn(s) == Kids(s) # {} /\ ~prog[s].fanned
Held(s, todo) == ~prog[s].fin /\ todo # <<>> /\ world.policy = "uncoordinated" /\ world.pinned

ChatOver(s, then, todo) ==
  /\ \E fin \in BOOLEAN :
       /\ prog[s].fin => fin
       /\ prog[s].chats + 2 >= world.chats => fin
       /\ prog' = ChatDone(s, fin)
  /\ pend' = [pend EXCEPT ![s].rest = todo]
  /\ Replace(s, IF todo = <<>> THEN 0 ELSE Head(todo).loc, FALSE)
  /\ Run((IF Held(s, todo) THEN <<>> ELSE GiveSlot(s)) \o <<Call(then, s)>>)
  /\ UNCHANGED <<world, held, kv, aimd>>

ChatReturns ==
  /\ Top("answered")
  /\ LET s == Head(stack).s
         redo == pend[s].step.redo
         todo == IF redo # <<>> THEN {redo} ELSE world.tools
     IN  \/ prog[s].fin /\ ChatOver(s, "finish", redo)
         \/ ~prog[s].fin /\ CanSpawn(s) /\ ChatOver(s, "spawn", redo)
         \/ ~prog[s].fin /\ \E l \in todo : ChatOver(s, "next", l)

\* The next tool of the list, or the next chat.
Proceed ==
  /\ Top("next")
  /\ LET s == Head(stack).s
         rest == pend[s].rest
     IN  IF rest # <<>>
           THEN Ready(s, Head(rest), Tail(rest)) /\ UNCHANGED prog
           ELSE /\ pend' = [pend EXCEPT ![s] = NoPending("ready")]
                /\ Run(<<Call("chat", s)>>)
                /\ UNCHANGED <<world, prog, held, lease, kv, aimd>>

\* prewarm_delay: a parked sandbox may come back ahead of its request.
Parkings == {"park", "parkwarm"}

\* idle_timeout: a sandbox may be parked before the next request comes.
Naps(program) == {"no"} \cup IF program.holds["mem"] > 0 THEN Parkings ELSE {}

\* _end_request; the slot went back before, unless the session holds another.
EndRequest ==
  /\ Top("finish")
  /\ LET s == Head(stack).s
         program == [prog[s] EXCEPT !.req = @ + 1, !.park = 0, !.fin = FALSE, !.chats = 0]
     IN  /\ lease' = [lease EXCEPT ![s] = Nothing]
         /\ IF program.req >= world.requests
              THEN EndSession(s, "done", program)
              ELSE /\ pend' = [pend EXCEPT ![s] = NoPending("think")]
                   /\ \E nap \in Naps(program) :
                        prog' = [prog EXCEPT ![s] = [program EXCEPT !.nap = nap]]
                   /\ Run(GiveSlot(s))
                   /\ UNCHANGED <<world, held, kv, aimd>>

\* _spawn: the children start one after another, inside the call.
Spawn ==
  /\ Top("spawn")
  /\ LET s == Head(stack).s
         kids == SetToSeq(Kids(s))
     IN  /\ prog' = [prog EXCEPT ![s].fanned = TRUE, ![s].joins = Len(kids)]
         /\ pend' = [pend EXCEPT ![s] = NoPending("join")]
         /\ Replace(s, 0, TRUE)
         /\ Run([i \in DOMAIN kids |-> Call("start", kids[i])] \o <<Call("joinpark", s)>>)
  /\ UNCHANGED <<world, held, kv, aimd>>

StartKid ==
  /\ Top("start")
  /\ prog' = [prog EXCEPT ![Head(stack).s].life = "active"]
  /\ Run(<<Call("chat", Head(stack).s)>>)
  /\ UNCHANGED <<world, pend, held, lease, kv, aimd>>

JoinPark ==
  /\ Top("joinpark")
  /\ LET s == Head(stack).s IN
     prog' = [prog EXCEPT ![s].park = IF prog[s].holds["mem"] > 0 THEN @ + 1 ELSE @]
  /\ Run(<<>>)
  /\ UNCHANGED <<world, pend, held, lease, kv, aimd>>

\* on_external_ok, once the units are back and their waiters were tried.
More == IF aimd.streak + 1 < world.streak THEN [aimd EXCEPT !.streak = @ + 1]
        ELSE [cap |-> Min({world.cap["ext"], aimd.cap + 1}), streak |-> 0]
CallCounted ==
  /\ Top("counted")
  /\ aimd' = More
  /\ Run(<<>>)
  /\ UNCHANGED <<world, prog, pend, held, lease, kv>>

\* The rest of TOOL_END and RETRIEVAL_END, after the step's own holds went back.
ToolReturns ==
  /\ Top("worked")
  /\ LET s == Head(stack).s
         rest == pend[s].rest
     IN  /\ Replace(s, IF rest = <<>> THEN 0 ELSE Head(rest).loc, FALSE)
         /\ Run(<<Call("next", s)>>)
  /\ UNCHANGED <<world, prog, pend, held, kv, aimd>>

FetchReturns ==
  /\ Top("fetched")
  /\ \E out \in world.outs : Ready(Head(stack).s, Chat(<<>>, out), <<>>)
  /\ UNCHANGED prog

Within ==
  \/ Release \/ WakeGang \/ WakeBest \/ TryRun \/ ReadyChat \/ React \/ Gone \/ Bury
  \/ ChatReturns \/ Proceed \/ EndRequest \/ Spawn \/ StartKid \/ JoinPark
  \/ ToolReturns \/ FetchReturns \/ CallCounted \/ Throttled

-----------------------------------------------------------------------------
(* Events. *)

Arrive(s) ==
  /\ s \in Tops /\ prog[s].life = "off"
  /\ Handle(<<Call("chat", s)>>)
  /\ prog' = [prog EXCEPT ![s].life = "active"]
  /\ UNCHANGED <<pend, held, lease, kv>>

\* The think time is over; an idle sandbox was parked (and warmed) before.
RequestStart(s) ==
  /\ pend[s].mode = "think" /\ prog[s].nap = "no"
  /\ Handle(<<Call("chat", s)>>)
  /\ UNCHANGED <<prog, pend, held, lease, kv>>

\* TRY_RUN: after a retry's delay, an eviction, a pause.
DueTry(s) ==
  /\ pend[s].due
  /\ Handle(<<Call("try", s)>>)
  /\ pend' = [pend EXCEPT ![s].due = FALSE]
  /\ UNCHANGED <<prog, held, lease, kv>>

DecodeStart(s) ==
  /\ pend[s].mode = "prefill"
  /\ Handle(<<>>)
  /\ \E o \in BeginDecode(kv, world.size, s, pend[s].step.out) :
       /\ kv' = o.cache
       /\ pend' = Evicted([pend EXCEPT ![s].mode = "decode"], o.victims)
  /\ UNCHANGED <<prog, held, lease>>

ChatEnd(s) ==
  /\ pend[s].mode = "decode"
  /\ Handle(<<Wake("kv"), Call("answered", s)>>)
  /\ kv' = EndDecode(kv, s)
  /\ UNCHANGED <<prog, pend, held, lease>>

\* TOOL_END, RETRIEVAL_END: _finish_step_holds, then the step's outcome.
StepEnd(s, mode, frames) ==
  /\ pend[s].mode = mode
  /\ Handle(frames)
  /\ pend' = [pend EXCEPT ![s].own = Nothing, ![s].par = FALSE, ![s].mode = "ready"]
  /\ UNCHANGED <<prog, held, lease, kv>>

Calls(s) == world.metered /\ Gated /\ pend[s].own["ext"] > 0
ToolEnd(s) ==
  StepEnd(s, "tool", GiveUnit(s, "ext") \o (IF Calls(s) THEN <<Call("counted", s)>> ELSE <<>>)
                     \o GiveUnit(s, "ret") \o GiveUnit(s, "cpu") \o <<Call("worked", s)>>)
ToolLimit(s) == world.toolTimeouts /\ StepEnd(s, "tool", GiveOwn(s) \o <<Call("react", s)>>)
FetchEnd(s) == StepEnd(s, "fetch", GiveOwn(s) \o <<Call("fetched", s)>>)

\* _timeout_step: whatever the step holds goes back, and the agent reacts.
TimeoutStep(s) ==
  /\ Handle(GiveEach(s, pend[s].part)
            \o (IF pend[s].mode \in {"prefill", "decode"} THEN <<Wake("kv")>> ELSE <<>>)
            \o GiveOwn(s) \o GiveSlot(s) \o <<Call("react", s)>>)
  /\ pend' = [pend EXCEPT ![s] = [NoPending("ready") EXCEPT !.step = pend[s].step, !.rest = pend[s].rest,
                                                            !.tries = pend[s].tries]]
  /\ kv' = IF pend[s].mode \in {"prefill", "decode"} THEN Drop(kv, s) ELSE kv
  /\ UNCHANGED <<prog, held, lease>>
WaitTimeout(s) == world.timers /\ HasStep(s) /\ pend[s].mode # "tool" /\ TimeoutStep(s)
DeadlockBreak(s) == pend[s].flag /\ TimeoutStep(s)

\* A sandbox whose session has no step goes back, cold.
Parked(s) ==
  Handle(IF ~HasStep(s) /\ prog[s].holds["mem"] > 0 THEN <<Give(s, "mem", All), Give(s, "cpu", All)>> ELSE <<>>)
Park(s) ==
  /\ prog[s].park > 0
  /\ Parked(s)
  /\ prog' = [prog EXCEPT ![s].park = @ - 1]
  /\ UNCHANGED <<pend, held, lease, kv>>
ParkIdle(s) ==
  /\ prog[s].nap \in Parkings
  /\ Parked(s)
  /\ prog' = [prog EXCEPT ![s].nap = IF @ = "park" THEN "no" ELSE "warm"]
  /\ UNCHANGED <<pend, held, lease, kv>>

\* prewarm_hold: a timer that parks it again, or none.
PrewarmHolds == {0, 1}

\* The sandbox comes back before its request, if there is room; the policy
\* may bound how long it is kept.
Prewarm(s) ==
  /\ prog[s].nap = "warm"
  /\ Handle(<<>>)
  /\ IF ~HasStep(s) /\ prog[s].holds["mem"] = 0 /\ Free("mem", s) >= world.gb[s] /\ Free("cpu", s) >= 1
       THEN \E park \in PrewarmHolds :
              /\ held' = [held EXCEPT ![s] = [held[s] EXCEPT !["mem"] = held[s]["mem"] + world.gb[s],
                                                             !["cpu"] = held[s]["cpu"] + 1]]
              /\ prog' = [prog EXCEPT ![s] =
                            [prog[s] EXCEPT !.holds = [prog[s].holds EXCEPT !["mem"] = world.gb[s], !["cpu"] = 1],
                                            !.nap = "no", !.park = prog[s].park + park]]
       ELSE prog' = [prog EXCEPT ![s].nap = "no"] /\ UNCHANGED held
  /\ UNCHANGED <<pend, lease, kv>>

\* LEASE_EXPIRE: the leases of a gang end together; the first of their events
\* finds them all expired and re-tries the waiters of its own resource, the
\* others find nothing to expire.
Expire(s) ==
  LET ended == {r \in Units : lease[s][r] > 0} IN
  /\ ended # {}
  /\ Handle(<<Wake(First(ended))>>)
  /\ lease' = [lease EXCEPT ![s] = Nothing]
  /\ UNCHANGED <<prog, pend, held, kv>>

\* _policy_replace_leases: a forecast arrives, and every waiter is re-tried.
Reannotate(s) ==
  /\ world.policy = "needs" /\ Active(s)
  /\ Handle(<<Wake("slots"), Wake("mem"), Wake("cpu"), Wake("ext"), Wake("ret"), Wake("kv")>>)
  /\ Replace(s, IF HasStep(s) THEN pend[s].step.loc ELSE 0, pend[s].mode = "join")
  /\ UNCHANGED <<prog, pend, held, kv>>

Scheduled(s) ==
  \/ Arrive(s) \/ RequestStart(s) \/ DueTry(s) \/ DecodeStart(s) \/ ChatEnd(s)
  \/ ToolEnd(s) \/ ToolLimit(s) \/ FetchEnd(s)
  \/ DeadlockBreak(s) \/ Park(s) \/ ParkIdle(s) \/ Prewarm(s)
Event(s) ==
  /\ \/ Scheduled(s) \/ WaitTimeout(s) \/ Reannotate(s)
  /\ UNCHANGED <<world, aimd>>

Init ==
  /\ world \in Worlds
  /\ prog = [s \in Sessions |-> NewProgram(world.ctx)]
  /\ pend = [s \in Sessions |-> NoPending("off")]
  /\ held = [s \in Sessions |-> Nothing]
  /\ lease = [s \in Sessions |-> Nothing]
  /\ kv = [s \in Sessions |-> NoEntry]
  /\ stack = <<>>
  /\ aimd = [cap |-> world.cap["ext"], streak |-> 0]

Next ==
  \/ Within
  \/ \E s \in Sessions : Event(s) \/ (Expire(s) /\ UNCHANGED <<world, aimd>>)

Spec == Init /\ [][Next]_vars

\* The heap hands out every scheduled event in time, and handlers return.
\* (SF, since a handler in between disables what is scheduled.)
FairSpec ==
  /\ Spec
  /\ WF_vars(Within)
  /\ \A s \in UNION {Everybody(w) : w \in Worlds} :
       SF_vars(s \in Sessions /\ Scheduled(s) /\ UNCHANGED <<world, aimd>>)

-----------------------------------------------------------------------------
(* Properties. *)

Modes == {"off", "think", "join", "ready", "waiting", "prefill", "decode", "tool", "fetch"}
Bags == [Units -> Nat]

\* Every variable has its type (dataclasses Pending, Program, Resource, Lease).
TypeOK ==
  /\ DOMAIN prog = Sessions /\ DOMAIN pend = Sessions /\ DOMAIN kv = Sessions
  /\ held \in [Sessions -> Bags] /\ lease \in [Sessions -> Bags]
  /\ \A s \in Sessions :
       /\ prog[s].life \in {"off", "active", "done", "aborted"} /\ prog[s].holds \in Bags
       /\ prog[s].joins \in 0..Cardinality(Kids(s)) /\ prog[s].park \in Nat
       /\ pend[s].mode \in Modes /\ pend[s].own \in Bags /\ pend[s].tries \in 0..SdkRetries
       /\ kv[s].at \in {"none", "idle", "active", "decode"} /\ kv[s].tok \in Nat

\* No handler, however its calls nest, has the sessions hold more of a
\* resource than there is of it, or the cache keep more tokens than fit
\* (Engine.check_accounting; ModelPhysics._make_room).
CapacityKept ==
  /\ \A r \in Units : Used(r) <= world.cap[r]
  /\ Occupied(kv) <= world.size

\* What a resource says a session holds is what the session will give back:
\* its committed holds and what its waiting step has taken so far
\* (Resource.holders, Program.holds, Pending.partial).
HoldsAccounted ==
  AtRest => \A s \in Sessions, r \in Units : held[s][r] = prog[s].holds[r] + Amount(pend[s].part, r)

\* A session that ended holds nothing (run.py: "no leaked holds").
NoLeakedHolds == AtRest => \A s \in Sessions : ~Active(s) => held[s] = Nothing /\ kv[s] = NoEntry

\* Nobody waits for what is free (_wake: every release hands what it freed to
\* the waiters that fit, also a release inside the loop of another one).  A
\* chat that waits for cache may overlook what an eviction freed, but another
\* one is running then, and its end wakes it.  Two things do not wake anybody
\* in the code: of the leases that end together only the first re-tries its
\* waiters, and a gate that allows itself more calls has woken them before.
NoFittingWaiter ==
  AtRest =>
    /\ world.policy # "needs" => \A r \in Units \ {"ext"} : FittingWaiters(r) = {}
    /\ ~world.metered => FittingWaiters("ext") = {}
    /\ FittingWaiters("kv") # {} => In(kv, {"active", "decode"}) # {}

\* Sessions that only each other could help: each waits for units that the
\* others of the set keep, or for a child of the set.
Stuck(C) ==
  /\ C # {}
  /\ \A x \in C :
       \/ /\ Waiting(x) /\ pend[x].want[1] \in Units /\ ~pend[x].gang
          /\ world.cap[pend[x].want[1]] - HeldBy(C, pend[x].want[1]) < pend[x].want[2]
       \/ pend[x].mode = "join" /\ \E c \in Kids(x) \cap C : Active(c)

\* Every deadlock has been detected, so that it will be broken: of sessions
\* that only each other could help, one is to be interrupted
\* (_in_wait_cycle: a wait that closes a cycle schedules a DEADLOCK_BREAK;
\* the orchestrator that waits for its children is part of the graph).
DeadlockFlagged ==
  AtRest => \A C \in SUBSET {s \in Sessions : Waiting(s) \/ pend[s].mode = "join"} :
              Stuck(C) => \E x \in C : pend[x].flag

\* A parent joins exactly its children that still run, and waits as long as
\* there are any (join_left, _child_ended).
JoinCounts ==
  AtRest => \A p \in Tops :
    /\ prog[p].joins = Cardinality({c \in Kids(p) : Active(c)})
    /\ Active(p) => (pend[p].mode = "join" <=> prog[p].joins > 0)

\* A chat that was admitted can always begin to answer: other requests are
\* evicted, if need be (ModelPhysics.fits and _make_room), as long as no
\* answer outgrows the reserve it was admitted with.
RoomExists ==
  (\A out \in world.outs : out <= world.reserve)
    => \A s \in Sessions : pend[s].mode = "prefill" => BeginDecode(kv, world.size, s, pend[s].step.out) # {}

\* Every session that arrives comes to its end, whatever waits for whatever:
\* deadlocks are broken, children join, parked sandboxes come back, no wakeup
\* is lost.  (With reservations one may be, and only a timeout helps a waiter;
\* a rate limit that is never lifted ends nothing.)
EverySessionEnds ==
  \A s \in UNION {Everybody(w) : w \in Worlds} :
    (world.policy # "needs" /\ ~world.metered /\ s \in Sessions /\ Active(s)) ~> (s \in Sessions => ~Active(s))
=============================================================================
