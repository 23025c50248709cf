----------------------------- MODULE Predictor -----------------------------
(***************************************************************************)
(* What the needs predictor learns from: the observer (features.py) makes  *)
(* a record at every decision point of a session and labels it when the    *)
(* outcome it predicted comes about; the reserver (reserver.py) asks a     *)
(* System One model about the same points through a channel (jev.py) that  *)
(* drops, batches and delays, and lets a verdict withdraw a reservation.   *)
(*                                                                         *)
(* A session is driven by the engine (engine.py): an action is one of its  *)
(* handlers, with every event it reports to the policy, in order; timers   *)
(* (a batch to flush, an answer to deliver) fire in between.               *)
(*                                                                         *)
(* Abstracted: features, quantities and clocks.  A record is named by      *)
(* where in its session's history it was made; records fall due for "no    *)
(* failure within the horizon" in the order they were made.  The channel's *)
(* capacity and rate admit or drop any call.  Trust in a question is any.  *)
(***************************************************************************)
EXTENDS Integers, Sequences, FiniteSets, SequencesExt

CONSTANTS
  Worlds,        \* scenarios: see World
  ResOf          \* tool kind -> the resource it needs

(***************************************************************************)
(* A scenario: its sessions (sids), which are sub-agents (child), the tool *)
(* lists a chat may issue (tools: sequences of groups, a group being a     *)
(* sequence of kinds), whether it may fetch before a chat or fan out       *)
(* (fetch, spawn), whether there is a model to ask, and in batches (jev,   *)
(* batch); bounds: chats per request, requests and failures per session,   *)
(* records that come to their horizon at one event (lapse).                *)
(***************************************************************************)
\* A chat asks for groups of calls it has tools for; a group has a call.
ASSUME PredictorAssumption == \A w \in Worlds : w.tools \subseteq Seq(Seq(DOMAIN ResOf) \ {<<>>})

VARIABLES
  world,     \* the scenario, fixed
  prog,      \* session -> where its program stands
  view,      \* session -> its SessionView (Observer.views)
  past,      \* session -> the history of its events
  fresh,     \* labels emitted and not drained yet (Observer.emitted)
  learned,   \* labels drained so far, in order
  batch,     \* asks waiting for the flush (JevChannel.pending)
  flush,     \* flush timers set, and whether one is believed to be (_flush_key)
  answers,   \* asks whose answer is on its way (Reserver.timers)
  recs,      \* session -> dp -> the record its latest answer is about (jev_recs)
  gang, kids, veto   \* sessions with a gang open, with children, with a verdict

reserver == <<batch, flush, answers, recs, gang, kids, veto>>
vars == <<world, prog, view, past, fresh, learned, reserver>>

Sids == world.sids
Points == {"chat_ready", "tool_ready", "chat_end", "request_end", "spawn"}
NoRec == [sid |-> "none", dp |-> "none", at |-> 0, i |-> 0]
Slots == "model.slots"
Flat(groups) == FlattenSeq(groups)

NewView ==
  [live |-> TRUE, chats |-> 0, sig |-> <<>>,
   out |-> NoRec, tools |-> <<>>, gap |-> NoRec, idle |-> NoRec, join |-> NoRec, repeat |-> NoRec,
   struct |-> <<>>, risk |-> <<>>, remaining |-> <<>>, nextRes |-> <<>>]
NoView == [NewView EXCEPT !.live = FALSE]
Seen(s) == view[s].live

-----------------------------------------------------------------------------
(* A turn: what the events of one handler have done to a session so far. *)

Turn(s) == [s |-> s, v |-> IF Seen(s) THEN view[s] ELSE NewView, h |-> past[s], out |-> fresh, asks |-> <<>>,
            drained |-> <<>>, gang |-> s \in gang, kids |-> s \in kids, gone |-> FALSE]

EmitAll(z, label, pairs) ==
  [z EXCEPT !.out = @ \o [j \in DOMAIN pairs |-> [rec |-> pairs[j][1], label |-> label, val |-> pairs[j][2]]]]
EmitEach(z, recs_, label, val) == EmitAll(z, label, [j \in DOMAIN recs_ |-> <<recs_[j], val>>])
Emit(z, rec, label, val) == EmitEach(z, IF rec = NoRec THEN <<>> ELSE <<rec>>, label, val)

Rec(z, dp, i) == [sid |-> z.s, dp |-> dp, at |-> Len(z.h), i |-> i]
Note(z, e) == [z EXCEPT !.h = Append(@, e)]
Event(ev) == [ev |-> ev, tok |-> ev, res |-> "none", tools |-> <<>>, spawn |-> FALSE, fin |-> FALSE]
Drain(z) == [z EXCEPT !.drained = @ \o z.out, !.out = <<>>]
Ask(z, rec) == [z EXCEPT !.asks = Append(@, rec)]

-----------------------------------------------------------------------------
(* Observer: label bookkeeping. *)

\* _expire_risk: the k oldest open risks are past their deadline.
ExpireRisk(z, k) ==
  [EmitEach(z, SubSeq(z.v.risk, 1, k), "R", 0) EXCEPT !.v.risk = SubSeq(@, k + 1, Len(@))]

\* _advance_struct: a node has run; two past the revealed tools settle a record.
AdvanceOne(o, tok) ==
  IF o.skip > 0 THEN [o EXCEPT !.skip = @ - 1] ELSE [o EXCEPT !.got = Append(@, tok)]
AdvanceStruct(z, tok) ==
  LET moved == [j \in DOMAIN z.v.struct |-> AdvanceOne(z.v.struct[j], tok)]
      done == SelectSeq(moved, LAMBDA o : Len(o.got) = 2)
  IN [EmitAll(z, "S", [j \in DOMAIN done |-> <<done[j].rec, done[j].got>>])
        EXCEPT !.v.struct = SelectSeq(moved, LAMBDA o : Len(o.got) < 2)]
AdvanceEach(z, toks) ==
  LET y == FoldLeft(AdvanceStruct, z, toks) IN [z EXCEPT !.out = y.out, !.v.struct = y.v.struct]

\* _close_open_struct
CloseStruct(z) ==
  LET last == [j \in DOMAIN z.v.struct |-> <<z.v.struct[j].rec, SubSeq(z.v.struct[j].got \o <<"final", "final">>, 1, 2)>>]
  IN [EmitAll(z, "S", last) EXCEPT !.v.struct = <<>>]

\* _resolve_next_res
ResolveNextRes(z, res) == [EmitEach(z, z.v.nextRes, "NEXT_RES", res) EXCEPT !.v.nextRes = <<>>]

-----------------------------------------------------------------------------
(* Observer: the events, each with what the reserver does on it. *)

RequestStart(z0) ==
  LET z == Note(z0, Event("start"))
  IN Drain([Emit(z, z.v.idle, "I_gap", 1) EXCEPT !.v.idle = NoRec, !.v.chats = 0])

\* A plausible bug: the open risks outlive their request.
RequestEndRisky(z0, child) ==
  LET z == Note(z0, Event("end"))
      left == [j \in DOMAIN z.v.remaining |-> <<z.v.remaining[j].rec, z.v.chats - z.v.remaining[j].n>>]
      a == [EmitAll(z, "REMAIN", left) EXCEPT !.v.remaining = <<>>]
      b == CloseStruct(ResolveNextRes(a, "none"))
      c == EmitEach(Emit(b, b.v.gap, "T_gap", 1), b.v.risk, "R", 0)
      d == [Emit(c, c.v.repeat, "REPEAT", FALSE) EXCEPT !.v.gap = NoRec, !.v.repeat = NoRec]
      rec == Rec(z, "request_end", 0)
  IN IF child THEN Drain(d) ELSE Ask(Drain([d EXCEPT !.v.idle = rec]), rec)

RequestEnd(z0, child) ==
  LET z == Note(z0, Event("end"))
      left == [j \in DOMAIN z.v.remaining |-> <<z.v.remaining[j].rec, z.v.chats - z.v.remaining[j].n>>]
      a == [EmitAll(z, "REMAIN", left) EXCEPT !.v.remaining = <<>>]
      b == CloseStruct(ResolveNextRes(a, "none"))
      c == [EmitEach(Emit(b, b.v.gap, "T_gap", 1), b.v.risk, "R", 0) EXCEPT !.v.risk = <<>>]
      d == [Emit(c, c.v.repeat, "REPEAT", FALSE) EXCEPT !.v.gap = NoRec, !.v.repeat = NoRec]
      rec == Rec(z, "request_end", 0)
  IN IF child THEN Drain(d) ELSE Ask(Drain([d EXCEPT !.v.idle = rec]), rec)

RequestAbort(z0) ==
  LET z == CloseStruct([Note(z0, Event("abort")) EXCEPT !.v.remaining = <<>>, !.v.nextRes = <<>>])
  IN Drain([EmitEach(z, z.v.risk, "R", 1) EXCEPT
              !.v.risk = <<>>, !.v.out = NoRec, !.v.gap = NoRec, !.v.tools = <<>>])

SessionEnd(z) == [Drain(z) EXCEPT !.gone = TRUE, !.gang = FALSE, !.kids = FALSE]

ChatReady(z0) ==
  LET z == Note(z0, [Event("ready") EXCEPT !.tok = "chat", !.res = Slots])
      rec == Rec(z, "chat_ready", 0)
      a == [z EXCEPT !.v.out = rec, !.v.risk = Append(@, rec),
                     !.v.remaining = Append(@, [rec |-> rec, n |-> z.v.chats])]
      b == ResolveNextRes(a, Slots)
  IN Ask(Drain([Emit(b, b.v.gap, "T_gap", 1) EXCEPT !.v.gap = NoRec]), rec)

\* A plausible bug: the record waits for its own resource.
ToolReadySelf(z0, group) ==
  LET z == Note(z0, [Event("ready") EXCEPT !.tok = "tool", !.res = ResOf[Head(group)], !.tools = <<group>>])
      made == [i \in DOMAIN group |-> Rec(z, "tool_ready", i)]
      a == ResolveNextRes([z EXCEPT !.v.nextRes = Append(@, made[1])], ResOf[Head(group)])
  IN Ask(Drain([a EXCEPT !.v.tools = made, !.v.risk = Append(@, made[1])]), made[1])

ToolReady(z0, group) ==
  LET z == Note(z0, [Event("ready") EXCEPT !.tok = "tool", !.res = ResOf[Head(group)], !.tools = <<group>>])
      made == [i \in DOMAIN group |-> Rec(z, "tool_ready", i)]
      a == ResolveNextRes(z, ResOf[Head(group)])
  IN Ask(Drain([a EXCEPT !.v.tools = made, !.v.risk = Append(@, made[1]),
                         !.v.nextRes = Append(@, made[1])]), made[1])

FetchReady(z0) ==
  LET z == Note(z0, [Event("ready") EXCEPT !.tok = "fetch", !.res = "svc.retrieval"])
  IN Drain(ResolveNextRes(z, "svc.retrieval"))

FetchEnd(z0) ==
  LET z == Note(z0, [Event("node") EXCEPT !.tok = "retrieval"])
  IN Drain(AdvanceStruct(z, "retrieval"))

\* _chat_end: the response settles what was open about it; tok names it.
Respond(z, tok, flat, spawn, fin) ==
  LET a == Emit(z, z.v.repeat, "REPEAT", flat # <<>> /\ flat = z.v.sig)
      b == AdvanceStruct([a EXCEPT !.v.repeat = NoRec, !.v.sig = flat, !.v.chats = @ + 1], tok)
  IN [Emit(b, b.v.out, "OUT", <<spawn, fin>>) EXCEPT !.v.out = NoRec]

\* _chat_end, with the tools it issues, its fan-out and whether it is the last.
ChatEnd(z0, tools, spawn, fin) ==
  LET tok == IF fin THEN "final" ELSE IF spawn THEN "spawn" ELSE "chat"
      flat == Flat(tools)
      z == Note(z0, [Event("node") EXCEPT !.tok = tok, !.tools = tools, !.spawn = spawn, !.fin = fin])
      c == Respond(z, tok, flat, spawn, fin)
      rec == Rec(z, "chat_end", 0)
      d == [c EXCEPT !.v.gap = rec, !.v.repeat = rec, !.v.risk = Append(@, rec),
                     !.v.struct = Append(@, [rec |-> rec, skip |-> Len(flat), got |-> <<>>]),
                     !.v.remaining = Append(@, [rec |-> rec, n |-> c.v.chats])]
      e == IF spawn THEN Emit(d, rec, "NEXT_RES", Slots)
           ELSE IF flat # <<>> THEN Emit(d, rec, "NEXT_RES", ResOf[flat[1]])
           ELSE [d EXCEPT !.v.nextRes = Append(@, rec)]
  IN IF fin THEN Drain(c) ELSE Ask(Drain(e), rec)

\* _tool_end; a call that ran into its limit labels its records and no more.
ToolEnd(z0, group, ok) ==
  LET z == Note(z0, [Event(IF ok THEN "node" ELSE "limit") EXCEPT !.tok = "tools", !.tools = <<group>>])
      a == [EmitEach(z, z.v.tools, "Q_tool", ok) EXCEPT !.v.tools = <<>>]
  IN IF ok THEN [Drain(AdvanceEach(a, group)) EXCEPT !.gang = FALSE] ELSE Drain(a)

BudgetRefused(z0) ==
  LET z == Note(z0, Event("refused"))
  IN Drain([EmitEach(z, z.v.risk, "BUDGET_FAIL", 1) EXCEPT !.v.risk = <<>>])

Spawn(z0) ==
  LET z == Note(z0, Event("spawn"))
      rec == Rec(z, "spawn", 0)
  IN Ask([Drain([z EXCEPT !.v.join = rec]) EXCEPT !.kids = TRUE], rec)

Join(z0) ==
  LET z == Note(z0, Event("join"))
  IN [Drain([Emit(z, z.v.join, "JOIN", 1) EXCEPT !.v.join = NoRec]) EXCEPT !.kids = FALSE]

-----------------------------------------------------------------------------
(* Reserver: what follows the events of a handler. *)

\* Two local tools in one group may be worth a reservation (leases).
Local(group) == SelectSeq(group, LAMBDA k : ResOf[k] = "sandbox.cpu")
GangWorth(p, tools) == \E g \in {p.group} \cup Range(tools) : Len(Local(g)) >= 2

\* _deliver_later: what the channel admits is answered at some time.
DeliverLater(asks) == answers' = answers \cup asks

\* _ask_jev, JevChannel.ask: a call now, unless it is dropped, or a place in
\* the batch and one flush for all of it.
Asked(asks) ==
  IF ~world.jev THEN UNCHANGED <<batch, flush, answers>>
  ELSE IF world.batch
    THEN /\ batch' = batch \o asks
         /\ flush' = IF asks # <<>> /\ ~flush.believed
                       THEN [set |-> flush.set + 1, believed |-> TRUE] ELSE flush
         /\ UNCHANGED answers
    ELSE /\ \E admitted \in SUBSET Range(asks) : DeliverLater(admitted)
         /\ UNCHANGED <<batch, flush>>

Keep(S, s, in) == IF in THEN S \cup {s} ELSE S \ {s}

Finish(z) ==
  /\ view' = [view EXCEPT ![z.s] = IF z.gone THEN NoView ELSE z.v]
  /\ past' = [past EXCEPT ![z.s] = z.h]
  /\ fresh' = z.out
  /\ learned' = learned \o z.drained
  /\ recs' = IF z.gone THEN [recs EXCEPT ![z.s] = [dp \in Points |-> NoRec]] ELSE recs
  /\ gang' = Keep(gang, z.s, z.gang)
  /\ kids' = Keep(kids, z.s, z.kids)
  /\ veto' = IF z.gone THEN veto \ {z.s} ELSE veto
  /\ Asked(z.asks)

-----------------------------------------------------------------------------
(* The engine's handlers. *)

Begin(s) == {ExpireRisk(Turn(s), k) : k \in 0 .. Min({world.lapse, Len(Turn(s).v.risk)})}
MayGang(z, p, tools) == {z} \cup (IF GangWorth(p, tools) THEN {[z EXCEPT !.gang = TRUE]} ELSE {})

Goto(s, p, z) == prog' = [prog EXCEPT ![s] = p] /\ Finish(z) /\ UNCHANGED world

\* _ready_chat: perhaps a retrieval first.
ReadyChat(s, p, z) ==
  \/ Goto(s, [p EXCEPT !.at = "chat"], ChatReady(z))
  \/ world.fetch /\ Goto(s, [p EXCEPT !.at = "fetch"], FetchReady(z))

ReadyTools(s, p, groups, z) ==
  LET q == [p EXCEPT !.at = "tool", !.group = Head(groups), !.left = Tail(groups)]
  IN \E y \in MayGang(ToolReady(z, Head(groups)), q, <<>>) : Goto(s, q, y)

OnRequestStart(s) ==
  /\ prog[s].at \in {"off", "think"}
  /\ \E z \in Begin(s) :
       ReadyChat(s, [prog[s] EXCEPT !.chats = 0, !.req = @ + 1], RequestStart(z))

\* _end_request
Close(s, p, z) ==
  LET y == RequestEnd(z, s \in world.child)
  IN IF p.req = world.requests \/ s \in world.child
       THEN Goto(s, [p EXCEPT !.at = "gone"], SessionEnd(y))
       ELSE Goto(s, [p EXCEPT !.at = "think"], y)

OnChatEnd(s) ==
  /\ prog[s].at = "chat"
  /\ \E z0 \in Begin(s), tools \in world.tools, fin, spawn \in BOOLEAN :
       LET issued == IF prog[s].redo # <<>> THEN prog[s].redo ELSE IF fin \/ spawn THEN <<>> ELSE tools
           p == [prog[s] EXCEPT !.chats = @ + 1, !.redo = <<>>, !.group = <<>>,
                                !.fanned = @ \/ (spawn /\ ~fin)]
           z1 == ChatEnd(z0, issued, spawn, fin)
       IN /\ prog[s].chats + 1 = world.chats => fin
          /\ spawn => world.spawn /\ ~fin /\ ~prog[s].fanned
          /\ \E z \in MayGang(z1, p, issued) :
               IF fin THEN Close(s, p, z)
               ELSE IF spawn THEN Goto(s, [p EXCEPT !.at = "join"], Spawn(z))
               ELSE IF issued # <<>> THEN ReadyTools(s, p, issued, z)
               ELSE ReadyChat(s, p, z)

OnToolEnd(s) ==
  /\ prog[s].at = "tool"
  /\ \E z0 \in Begin(s) :
       LET z == ToolEnd(z0, prog[s].group, TRUE)
           p == [prog[s] EXCEPT !.group = <<>>]
       IN IF p.left # <<>> THEN ReadyTools(s, p, p.left, z) ELSE ReadyChat(s, p, z)

OnFetchEnd(s) ==
  /\ prog[s].at = "fetch"
  /\ \E z \in Begin(s) : Goto(s, [prog[s] EXCEPT !.at = "chat"], ChatReady(FetchEnd(z)))

\* _react: again, which reports nothing; another chat, and the failed step
\* after it; or no more.
React(s, again, z) ==
  LET p == [prog[s] EXCEPT !.faults = @ + 1]
      redo == IF p.at = "tool" THEN <<p.group>> \o p.left ELSE <<>>
  IN \/ Goto(s, p, again)
     \/ Goto(s, [p EXCEPT !.at = "chat", !.redo = redo, !.left = <<>>, !.group = <<>>], ChatReady(z))
     \/ Goto(s, [p EXCEPT !.at = "gone"], SessionEnd(RequestAbort(z)))

OnToolLimit(s) ==
  /\ prog[s].at = "tool" /\ prog[s].faults < world.faults
  /\ \E z \in Begin(s) : LET y == ToolEnd(z, prog[s].group, FALSE) IN React(s, y, y)

OnBudgetRefused(s) ==
  /\ prog[s].at \in {"chat", "tool"} /\ prog[s].faults < world.faults
  /\ \E z \in Begin(s) : React(s, BudgetRefused(z), BudgetRefused(z))

\* A rejected or timed-out step: no event but what the reaction reports.
OnFail(s) ==
  /\ prog[s].at \in {"chat", "tool", "fetch"} /\ prog[s].faults < world.faults
  /\ \E z \in Begin(s) : React(s, Turn(s), z)

OnJoin(s) ==
  /\ prog[s].at = "join"
  /\ \E z \in Begin(s) : ReadyChat(s, prog[s], Join(z))

-----------------------------------------------------------------------------
(* The reserver's timers. *)

\* JevChannel.flush: one call for the batch; all of it is admitted or dropped.
FlushBatch ==
  /\ batch' = <<>>
  /\ \E admitted \in {{}, Range(batch)} : DeliverLater(admitted)

\* A plausible bug: the flush leaves its key standing.
OnFlushKept ==
  /\ flush.set > 0
  /\ flush' = [flush EXCEPT !.set = @ - 1]
  /\ FlushBatch
  /\ UNCHANGED <<world, prog, view, past, fresh, learned, recs, gang, kids, veto>>

\* on_timer, flush: the key goes with its timer; nothing is left to set it for.
OnFlush ==
  /\ flush.set > 0
  /\ flush' = [set |-> flush.set - 1, believed |-> FALSE]
  /\ FlushBatch
  /\ UNCHANGED <<world, prog, view, past, fresh, learned, recs, gang, kids, veto>>

\* on_timer: an answer arrives, perhaps after its session; a verdict that a
\* reservation will not be used withdraws it.
OnAnswer ==
  \E a \in answers :
    /\ answers' = answers \ {a}
    /\ IF ~Seen(a.sid) THEN UNCHANGED <<view, past, fresh, recs, veto>>
       ELSE /\ \E z \in Begin(a.sid) :
                 /\ view' = [view EXCEPT ![a.sid] = z.v]
                 /\ fresh' = z.out
            /\ recs' = [recs EXCEPT ![a.sid][a.dp] = a]
            /\ IF a.dp \notin {"chat_end", "spawn"} THEN UNCHANGED veto
               ELSE \/ UNCHANGED veto                                     \* no trusted verdict
                    \/ veto' = veto \ {a.sid}
                    \/ a.sid \in gang \cup kids /\ veto' = veto \cup {a.sid}
            /\ UNCHANGED past
    /\ UNCHANGED <<world, prog, learned, batch, flush, gang, kids>>

-----------------------------------------------------------------------------
Init ==
  /\ world \in Worlds
  /\ prog = [s \in Sids |-> [at |-> "off", chats |-> 0, req |-> 0, faults |-> 0, group |-> <<>>, left |-> <<>>,
                             redo |-> <<>>, fanned |-> FALSE]]
  /\ view = [s \in Sids |-> NoView]
  /\ past = [s \in Sids |-> <<>>]
  /\ fresh = <<>> /\ learned = <<>> /\ batch = <<>>
  /\ flush = [set |-> 0, believed |-> FALSE]
  /\ answers = {} /\ gang = {} /\ kids = {} /\ veto = {}
  /\ recs = [s \in Sids |-> [dp \in Points |-> NoRec]]

Next ==
  \/ \E s \in Sids : OnRequestStart(s)
  \/ \E s \in Sids : OnChatEnd(s)
  \/ \E s \in Sids : OnToolEnd(s)
  \/ \E s \in Sids : OnFetchEnd(s)
  \/ \E s \in Sids : OnToolLimit(s)
  \/ \E s \in Sids : OnBudgetRefused(s)
  \/ \E s \in Sids : OnFail(s)
  \/ \E s \in Sids : OnJoin(s)
  \/ OnFlush
  \/ OnAnswer

Spec == Init /\ [][Next]_vars

-----------------------------------------------------------------------------
(* Properties. *)

Labels == learned \o fresh

\* What came after a record, in its request and at all.
After(rec) == SubSeq(past[rec.sid], rec.at + 1, Len(past[rec.sid]))
Closes(e) == e.ev \in {"end", "abort"}
Rest(rec) ==
  LET later == After(rec)
  IN IF \E j \in DOMAIN later : Closes(later[j])
       THEN SubSeq(later, 1, SelectInSeq(later, Closes)) ELSE later
Made(rec) == past[rec.sid][rec.at]
Over(h, ev) == h # <<>> /\ Last(h).ev = ev
First(h, P(_)) == h[SelectInSeq(h, P)]
Has(h, P(_)) == SelectInSeq(h, P) > 0
IsChat(e) == e.ev = "node" /\ e.tok \in {"chat", "spawn", "final"}
IsReady(e) == e.ev = "ready"
ToolDone(e) == e.tok = "tools"
Nodes(h) ==
  FoldLeft(LAMBDA acc, e : IF e.ev # "node" THEN acc ELSE acc \o (IF e.tok = "tools" THEN e.tools[1] ELSE <<e.tok>>), <<>>, h)

\* The two nodes after the tools that a chat revealed.
Skeleton(rec) ==
  LET nodes == Nodes(Rest(rec))
      n == Len(Flat(Made(rec).tools))
  IN SubSeq(SubSeq(nodes, n + 1, Len(nodes)) \o <<"final", "final">>, 1, 2)
\* Its tools ran as revealed, and the request was not given up.
Undisturbed(rec) ==
  LET flat == Flat(Made(rec).tools)
      nodes == Nodes(Rest(rec))
  IN /\ SubSeq(nodes, 1, Min({Len(flat), Len(nodes)})) = SubSeq(flat, 1, Min({Len(flat), Len(nodes)}))
     /\ ~Has(Rest(rec), LAMBDA e : e.ev = "abort")

True(l) ==
  LET h == Rest(l.rec) IN
  CASE l.label = "R" -> l.val = 1 => Over(h, "abort")
    [] l.label = "BUDGET_FAIL" -> Has(h, LAMBDA e : e.ev = "refused")
    [] l.label = "REMAIN" -> Over(h, "end") /\ l.val = Len(SelectSeq(h, IsChat))
    [] l.label = "OUT" ->
         /\ Has(h, IsChat) /\ ~Has(SubSeq(h, 1, SelectInSeq(h, IsChat)), LAMBDA e : IsReady(e) /\ e.tok = "chat")
         /\ l.val = <<First(h, IsChat).spawn, First(h, IsChat).fin>>
    [] l.label = "NEXT_RES" ->
         \/ Made(l.rec).spawn /\ l.val = Slots
         \/ Has(h, IsReady) /\ l.val = First(h, IsReady).res
         \/ ~Has(h, IsReady) /\ Over(h, "end") /\ l.val = "none"
    [] l.label = "Q_tool" ->
         Has(h, ToolDone) /\ First(h, ToolDone).tools = Made(l.rec).tools /\ l.val = (First(h, ToolDone).ev = "node")
    [] l.label = "REPEAT" ->
         l.val = (/\ Has(h, IsChat) /\ First(h, IsChat).tools # <<>>
                  /\ Flat(First(h, IsChat).tools) = Flat(Made(l.rec).tools))
    [] l.label = "S" -> Undisturbed(l.rec) => l.val = Skeleton(l.rec)
    [] OTHER -> TRUE

\* What the predictor is taught about a decision point is what came of it
\* (features.py:1-16): the chats that were left, the resource and the kind of
\* the next node, how its own call ended, whether the request was abandoned.
\* The two nodes after revealed tools are right as long as the tools ran as
\* they were revealed (README, section 7).
LabelsTrue == \A j \in DOMAIN Labels : True(Labels[j])

\* The records of a request that ended well, with the labels due to each.
Due(s, at) ==
  LET e == past[s][at]
      rec == [sid |-> s, dp |-> "none", at |-> at, i |-> 0]
      h == Rest(rec)
      own == IF Has(h, ToolDone) THEN SubSeq(h, 1, SelectInSeq(h, ToolDone) - 1) ELSE h
  IN CASE e.ev = "ready" /\ e.tok = "chat" ->
            LET r == [rec EXCEPT !.dp = "chat_ready"]
            IN {<<r, "REMAIN">>} \cup
               (IF SelectInSeq(h, IsChat) < SelectInSeq(h \o <<e>>, LAMBDA x : IsReady(x) /\ x.tok = "chat")
                  THEN {<<r, "OUT">>} ELSE {})
       [] e.ev = "ready" /\ e.tok = "tool" ->
            LET r(i) == [rec EXCEPT !.dp = "tool_ready", !.i = i]
            IN {<<r(1), "NEXT_RES">>} \cup
               (IF Has(h, ToolDone) /\ ~Has(own, LAMBDA x : IsReady(x) /\ x.tok = "tool")
                  THEN {<<r(i), "Q_tool">> : i \in DOMAIN Head(e.tools)} ELSE {})
       [] IsChat(e) /\ ~e.fin ->
            {<<[rec EXCEPT !.dp = "chat_end"], l>> : l \in {"S", "T_gap", "REMAIN", "REPEAT", "NEXT_RES"}}
       [] e.ev = "spawn" -> {<<[rec EXCEPT !.dp = "spawn"], "JOIN">>}
       [] OTHER -> {}
EndedWell(s, at) == Has(Rest([sid |-> s, at |-> at]), LAMBDA e : e.ev = "end")

\* A decision point of a request that ended is settled: every outcome it was
\* to be taught has been, none has been twice, and whether it failed within
\* the horizon is known of each that asked.  (A record superseded by a second
\* thought of the same step never learns of the step.)
EachOutcomeOnce ==
  /\ \A j, k \in DOMAIN Labels :
       j < k => <<Labels[j].rec, Labels[j].label>> # <<Labels[k].rec, Labels[k].label>>
  /\ \A s \in Sids : \A at \in DOMAIN past[s] :
       EndedWell(s, at) =>
         /\ \A d \in Due(s, at) : \E j \in DOMAIN Labels : <<Labels[j].rec, Labels[j].label>> = d
         /\ \A d \in Due(s, at) :
              (d[1].dp # "spawn" /\ d[1].i < 2) =>
                 \E j \in DOMAIN Labels : Labels[j].rec = d[1] /\ Labels[j].label \in {"R", "BUDGET_FAIL"}

\* No ask is stranded in a batch that nobody will flush, there is one flush
\* timer at most, and of a session that is over nothing is kept: neither its
\* answers, which may come later, nor a reservation's verdict (reserver.py:
\* 315-322, 352-387).
AsksKept ==
  /\ flush.set = IF flush.believed THEN 1 ELSE 0
  /\ batch # <<>> => flush.believed
  /\ gang \cup kids \cup veto \subseteq {s \in Sids : Seen(s)}
  /\ \A s \in Sids, dp \in Points : ~Seen(s) => recs[s][dp] = NoRec

=============================================================================
