-------------------------- MODULE Predictor_proofs --------------------------
(***************************************************************************)
(* Proofs about Predictor, for any scenarios whose tool groups have a call *)
(* (PredictorAssumption): what the reserver keeps of its asks.             *)
(*                                                                         *)
(* A handler's events are a chain of operators on the turn of its session. *)
(* None of them ends the turn but SessionEnd, which comes last; each asks  *)
(* about points of the session itself.  So what the books need to know of  *)
(* a handler is that it ends in Goto with such a turn: IsTurn or IsLast.   *)
(* What the observer teaches (LabelsTrue, EachOutcomeOnce) is defined by   *)
(* folds over the history, where induction is out of the provers' reach.   *)
(***************************************************************************)
EXTENDS Predictor, TLAPS

-----------------------------------------------------------------------------
(* Turns. *)

TurnFields == {"s", "v", "h", "out", "asks", "drained", "gang", "kids", "gone"}
ViewFields ==
  {"live", "chats", "sig", "out", "tools", "gap", "idle", "join", "repeat", "struct", "risk", "remaining", "nextRes"}

IsAsk(x) == x.sid \in Sids /\ x.dp \in Points
IsAsks(q) == \E S : q \in Seq(S) /\ \A x \in S : IsAsk(x)

\* A turn of session s that is still going on; one that was its last.
IsTurn(z, s) ==
  /\ DOMAIN z = TurnFields /\ DOMAIN z.v = ViewFields
  /\ z.s = s /\ z.v.live = TRUE /\ IsAsks(z.asks)
  /\ z.gang \in BOOLEAN /\ z.kids \in BOOLEAN /\ z.gone = FALSE
IsLast(z, s) ==
  z.s = s /\ IsAsks(z.asks) /\ z.gang = FALSE /\ z.kids = FALSE /\ z.gone = TRUE

LEMMA NoAsks == IsAsks(<<>>)
<1>1. \E S : <<>> \in Seq(S) /\ \A x \in S : IsAsk(x)
  <2>1. <<>> \in Seq({}) /\ \A x \in {} : IsAsk(x)
    OBVIOUS
  <2> DEFINE none == {}
  <2>2. <<>> \in Seq(none) /\ \A x \in none : IsAsk(x)
    BY <2>1
  <2> HIDE DEF none
  <2> QED
    BY <2>2
<1> QED
  BY Zenon, <1>1 DEF IsAsks

LEMMA AsksAppend ==
  ASSUME NEW q, IsAsks(q), NEW x, IsAsk(x)
  PROVE  IsAsks(Append(q, x))
<1>1. PICK S : q \in Seq(S) /\ \A y \in S : IsAsk(y)
  BY DEF IsAsks
<1> DEFINE T == S \cup {x}
<1>2. Append(q, x) \in Seq(T) /\ \A y \in T : IsAsk(y)
  BY <1>1
<1> QED
  BY <1>2 DEF IsAsks

LEMMA AsksJoin ==
  ASSUME NEW q, IsAsks(q), NEW r, IsAsks(r)
  PROVE  /\ IsAsks(q \o r) /\ (r = <<>> => q \o r = q)
         /\ \A x \in Range(q) : IsAsk(x)
<1>1. PICK S : q \in Seq(S) /\ \A y \in S : IsAsk(y)
  BY DEF IsAsks
<1>2. PICK R : r \in Seq(R) /\ \A y \in R : IsAsk(y)
  BY DEF IsAsks
<1> DEFINE T == S \cup R
<1>3. \A y \in T : IsAsk(y)
  BY <1>1, <1>2
<1>4. q \in Seq(T) /\ r \in Seq(T)
  BY <1>1, <1>2
<1> HIDE DEF T
<1>5. q \o r \in Seq(T) /\ (r = <<>> => q \o r = q)
  BY <1>4
<1>6. Range(q) \subseteq T
  BY <1>4 DEF Range
<1> QED
  BY <1>3, <1>5, <1>6 DEF IsAsks

\* What is noted, emitted or drained is nothing to the turn.
LEMMA Sets ==
  ASSUME NEW z, NEW s, IsTurn(z, s), NEW e, NEW f
  PROVE  /\ IsTurn([z EXCEPT !.out = e], s)
         /\ IsTurn([z EXCEPT !.h = e], s)
         /\ IsTurn([z EXCEPT !.drained = e, !.out = f], s)
         /\ e \in BOOLEAN => IsTurn([z EXCEPT !.gang = e], s) /\ IsTurn([z EXCEPT !.kids = e], s)
         /\ IsAsks(e) => IsTurn([z EXCEPT !.asks = e], s)
BY DEF IsTurn, TurnFields

LEMMA ViewSets ==
  ASSUME NEW z, NEW s, IsTurn(z, s), NEW w, DOMAIN w = ViewFields, w.live = TRUE
  PROVE  IsTurn([z EXCEPT !.v = w], s)
BY DEF IsTurn, TurnFields

LEMMA AllForm ==
  ASSUME NEW z, NEW q, NEW l
  PROVE  \E e : EmitAll(z, l, q) = [z EXCEPT !.out = e]
BY Zenon DEF EmitAll

LEMMA EachForm ==
  ASSUME NEW z, NEW q, NEW l, NEW w
  PROVE  \E e : EmitEach(z, q, l, w) = [z EXCEPT !.out = e]
BY Zenon, AllForm DEF EmitEach

LEMMA EmitForm ==
  ASSUME NEW z, NEW r, NEW l, NEW w
  PROVE  \E e : Emit(z, r, l, w) = [z EXCEPT !.out = e]
<1> DEFINE q == IF r = NoRec THEN <<>> ELSE <<r>>
<1>1. Emit(z, r, l, w) = EmitEach(z, q, l, w)
  BY DEF Emit
<1> HIDE DEF q
<1> QED
  BY <1>1, EachForm

LEMMA AdvanceForm ==
  ASSUME NEW z, NEW tok
  PROVE  \E l, q, f : AdvanceStruct(z, tok) = [EmitAll(z, l, q) EXCEPT !.v.struct = f]
BY Zenon DEF AdvanceStruct

LEMMA CloseForm ==
  ASSUME NEW z
  PROVE  \E l, q, f : CloseStruct(z) = [EmitAll(z, l, q) EXCEPT !.v.struct = f]
BY Zenon DEF CloseStruct

LEMMA NextResForm ==
  ASSUME NEW z, NEW res
  PROVE  \E q, l, w : ResolveNextRes(z, res) = [EmitEach(z, q, l, w) EXCEPT !.v.nextRes = <<>>]
BY Zenon DEF ResolveNextRes

LEMMA DrainForm ==
  ASSUME NEW z
  PROVE  Drain(z) = [z EXCEPT !.drained = z.drained \o z.out, !.out = <<>>]
BY DEF Drain

LEMMA Simple ==
  ASSUME NEW z, NEW s, IsTurn(z, s)
  PROVE  /\ \A e : IsTurn(Note(z, e), s)
         /\ IsTurn(Drain(z), s)
         /\ \A rec, l, v : IsTurn(Emit(z, rec, l, v), s)
         /\ \A q, l : IsTurn(EmitAll(z, l, q), s)
         /\ \A q, l, v : IsTurn(EmitEach(z, q, l, v), s)
<1>1. \A e : IsTurn(Note(z, e), s)
  BY Sets DEF Note
<1>2. IsTurn(Drain(z), s)
  BY DrainForm, Sets
<1>3. \A rec, l, v : IsTurn(Emit(z, rec, l, v), s)
  <2> TAKE rec, l, v
  <2>1. PICK e : Emit(z, rec, l, v) = [z EXCEPT !.out = e]
    BY EmitForm
  <2>2. IsTurn([z EXCEPT !.out = e], s)
    BY Sets
  <2> QED
    BY Zenon, <2>1, <2>2
<1>4. \A q, l : IsTurn(EmitAll(z, l, q), s)
  <2> TAKE q, l
  <2>1. PICK e : EmitAll(z, l, q) = [z EXCEPT !.out = e]
    BY AllForm
  <2>2. IsTurn([z EXCEPT !.out = e], s)
    BY Sets
  <2> QED
    BY Zenon, <2>1, <2>2
<1>5. \A q, l, v : IsTurn(EmitEach(z, q, l, v), s)
  <2> TAKE q, l, v
  <2>1. PICK e : EmitEach(z, q, l, v) = [z EXCEPT !.out = e]
    BY EachForm
  <2>2. IsTurn([z EXCEPT !.out = e], s)
    BY Sets
  <2> QED
    BY Zenon, <2>1, <2>2
<1> QED
  BY <1>1, <1>2, <1>3, <1>4, <1>5

LEMMA Asks ==
  ASSUME NEW z, NEW s \in Sids, IsTurn(z, s), NEW dp \in Points, NEW at, NEW i
  PROVE  IsTurn(Ask(z, [sid |-> s, dp |-> dp, at |-> at, i |-> i]), s)
<1> DEFINE x == [sid |-> s, dp |-> dp, at |-> at, i |-> i]
<1>1. IsAsk(x)
  BY DEF IsAsk
<1> HIDE DEF x
<1>2. IsAsks(Append(z.asks, x))
  BY <1>1, AsksAppend DEF IsTurn
<1>3. IsTurn(Ask(z, x), s)
  BY <1>2, Sets DEF Ask
<1> QED
  BY <1>3 DEF x

LEMMA ViewFieldSets ==
  ASSUME NEW z, NEW s, IsTurn(z, s), NEW e
  PROVE  /\ IsTurn([z EXCEPT !.v.chats = e], s) /\ IsTurn([z EXCEPT !.v.sig = e], s) /\ IsTurn([z EXCEPT !.v.out = e], s)
         /\ IsTurn([z EXCEPT !.v.tools = e], s) /\ IsTurn([z EXCEPT !.v.gap = e], s) /\ IsTurn([z EXCEPT !.v.idle = e], s)
         /\ IsTurn([z EXCEPT !.v.join = e], s) /\ IsTurn([z EXCEPT !.v.repeat = e], s)
         /\ IsTurn([z EXCEPT !.v.struct = e], s) /\ IsTurn([z EXCEPT !.v.risk = e], s)
         /\ IsTurn([z EXCEPT !.v.remaining = e], s) /\ IsTurn([z EXCEPT !.v.nextRes = e], s)
BY DEF IsTurn, TurnFields, ViewFields

-----------------------------------------------------------------------------
(* Observers. *)

LEMMA ExpireKeeps ==
  ASSUME NEW z, NEW s, IsTurn(z, s), NEW k
  PROVE  IsTurn(ExpireRisk(z, k), s)
<1> DEFINE a == EmitEach(z, SubSeq(z.v.risk, 1, k), "R", 0)
<1>1. IsTurn(a, s)
  BY Simple
<1>2. ExpireRisk(z, k) = [a EXCEPT !.v.risk = SubSeq(a.v.risk, k + 1, Len(a.v.risk))]
  BY DEF ExpireRisk
<1> HIDE DEF a
<1>3. \A e : IsTurn([a EXCEPT !.v.risk = e], s)
  BY <1>1 DEF IsTurn, TurnFields, ViewFields
<1> QED
  BY <1>2, <1>3

LEMMA AdvanceKeeps ==
  ASSUME NEW z, NEW s, IsTurn(z, s)
  PROVE  /\ \A tok : IsTurn(AdvanceStruct(z, tok), s)
         /\ \A toks : IsTurn(AdvanceEach(z, toks), s)
         /\ IsTurn(CloseStruct(z), s)
         /\ \A res : IsTurn(ResolveNextRes(z, res), s)
<1>1. ASSUME NEW l, NEW q, NEW f
      PROVE  IsTurn([EmitAll(z, l, q) EXCEPT !.v.struct = f], s)
  <2> DEFINE a == EmitAll(z, l, q)
  <2>1. IsTurn(a, s)
    BY Simple
  <2> HIDE DEF a
  <2>2. IsTurn([a EXCEPT !.v.struct = f], s)
    BY <2>1, ViewFieldSets
  <2> QED
    BY <2>2 DEF a
<1>2. ASSUME NEW tok
      PROVE  IsTurn(AdvanceStruct(z, tok), s)
  BY <1>1, AdvanceForm
<1>3. ASSUME NEW toks
      PROVE  IsTurn(AdvanceEach(z, toks), s)
  BY Sets, ViewFieldSets DEF AdvanceEach, IsTurn, TurnFields, ViewFields
<1>4. IsTurn(CloseStruct(z), s)
  BY <1>1, CloseForm
<1>5. ASSUME NEW res
      PROVE  IsTurn(ResolveNextRes(z, res), s)
  <2>1. PICK q, l, w : ResolveNextRes(z, res) = [EmitEach(z, q, l, w) EXCEPT !.v.nextRes = <<>>]
    BY NextResForm
  <2> DEFINE a == EmitEach(z, q, l, w)
  <2>2. IsTurn(a, s)
    BY Simple
  <2> HIDE DEF a
  <2>3. IsTurn([a EXCEPT !.v.nextRes = <<>>], s)
    BY <2>2, ViewFieldSets
  <2> QED
    BY <2>1, <2>3 DEF a
<1> QED
  BY <1>2, <1>3, <1>4, <1>5

LEMMA StartKeeps ==
  ASSUME NEW z0, NEW s, IsTurn(z0, s)
  PROVE  IsTurn(RequestStart(z0), s)
<1> DEFINE z == Note(z0, Event("start"))
           a == Emit(z, z.v.idle, "I_gap", 1)
           b == [a EXCEPT !.v.idle = NoRec, !.v.chats = 0]
<1>1. IsTurn(z, s)
  BY Simple
<1> HIDE DEF z
<1>2. IsTurn(a, s)
  BY <1>1, Simple
<1> HIDE DEF a
<1>3. IsTurn(b, s)
  BY <1>2 DEF IsTurn, TurnFields, ViewFields
<1>4. RequestStart(z0) = Drain(b)
  BY DEF RequestStart, z, a
<1> QED
  BY <1>3, <1>4, Simple

LEMMA EndKeeps ==
  ASSUME NEW z0, NEW s \in Sids, IsTurn(z0, s), NEW child \in BOOLEAN
  PROVE  IsTurn(RequestEnd(z0, child), s)
<1> DEFINE z == Note(z0, Event("end"))
           left == [j \in DOMAIN z.v.remaining |-> <<z.v.remaining[j].rec, z.v.chats - z.v.remaining[j].n>>]
           a1 == EmitAll(z, "REMAIN", left)
           a == [a1 EXCEPT !.v.remaining = <<>>]
           b1 == ResolveNextRes(a, "none")
           b == CloseStruct(b1)
           c1 == Emit(b, b.v.gap, "T_gap", 1)
           c2 == EmitEach(c1, b.v.risk, "R", 0)
           c == [c2 EXCEPT !.v.risk = <<>>]
           d1 == Emit(c, c.v.repeat, "REPEAT", FALSE)
           d == [d1 EXCEPT !.v.gap = NoRec, !.v.repeat = NoRec]
           rec == Rec(z, "request_end", 0)
           e == [d EXCEPT !.v.idle = rec]
<1>0. RequestEnd(z0, child) = IF child THEN Drain(d) ELSE Ask(Drain(e), rec)
  BY DEF RequestEnd
<1>1. IsTurn(z, s)
  BY Simple
<1> HIDE DEF z
<1> HIDE DEF left
<1>2. IsTurn(a1, s)
  BY <1>1, Simple
<1> HIDE DEF a1
<1>3. IsTurn(a, s)
  BY <1>2, ViewFieldSets
<1> HIDE DEF a
<1>4. IsTurn(b1, s)
  BY <1>3, AdvanceKeeps
<1> HIDE DEF b1
<1>5. IsTurn(b, s)
  BY <1>4, AdvanceKeeps
<1> HIDE DEF b
<1>6. IsTurn(c1, s)
  BY <1>5, Simple
<1> HIDE DEF c1
<1>7. IsTurn(c2, s)
  BY <1>6, Simple
<1> HIDE DEF c2
<1>8. IsTurn(c, s)
  BY <1>7, ViewFieldSets
<1> HIDE DEF c
<1>9. IsTurn(d1, s)
  BY <1>8, Simple
<1> HIDE DEF d1
<1>10. IsTurn(d, s)
  BY <1>9 DEF IsTurn, TurnFields, ViewFields
<1> HIDE DEF d
<1>11. IsTurn(e, s)
  BY <1>10, ViewFieldSets
<1>12. rec = [sid |-> s, dp |-> "request_end", at |-> Len(z.h), i |-> 0]
  BY <1>1 DEF Rec, IsTurn
<1> HIDE DEF e
<1>13. IsTurn(Drain(d), s) /\ IsTurn(Drain(e), s)
  BY <1>10, <1>11, Simple
<1>14. IsTurn(Ask(Drain(e), rec), s)
  BY <1>12, <1>13, Asks DEF Points
<1> QED
  BY <1>0, <1>13, <1>14

LEMMA AbortKeeps ==
  ASSUME NEW z0, NEW s, IsTurn(z0, s)
  PROVE  IsTurn(RequestAbort(z0), s)
<1> DEFINE y == Note(z0, Event("abort"))
           x == [y EXCEPT !.v.remaining = <<>>, !.v.nextRes = <<>>]
           z == CloseStruct(x)
           a == EmitEach(z, z.v.risk, "R", 1)
           b == [a EXCEPT !.v.risk = <<>>, !.v.out = NoRec, !.v.gap = NoRec, !.v.tools = <<>>]
<1>0. RequestAbort(z0) = Drain(b)
  BY DEF RequestAbort
<1>1. IsTurn(y, s)
  BY Simple
<1> HIDE DEF y
<1>2. IsTurn(x, s)
  BY <1>1 DEF IsTurn, TurnFields, ViewFields
<1> HIDE DEF x
<1>3. IsTurn(z, s)
  BY <1>2, AdvanceKeeps
<1> HIDE DEF z
<1>4. IsTurn(a, s)
  BY <1>3, Simple
<1> HIDE DEF a
<1>5. IsTurn(b, s)
  BY <1>4 DEF IsTurn, TurnFields, ViewFields
<1> QED
  BY <1>0, <1>5, Simple

LEMMA SessionEnds ==
  ASSUME NEW z, NEW s, IsTurn(z, s)
  PROVE  IsLast(SessionEnd(z), s)
<1> DEFINE y == Drain(z)
<1>1. IsTurn(y, s)
  BY Simple
<1>2. SessionEnd(z) = [y EXCEPT !.gone = TRUE, !.gang = FALSE, !.kids = FALSE]
  BY DEF SessionEnd
<1> HIDE DEF y
<1> QED
  BY <1>1, <1>2 DEF IsTurn, IsLast, TurnFields

LEMMA ChatReadyKeeps ==
  ASSUME NEW z0, NEW s \in Sids, IsTurn(z0, s)
  PROVE  IsTurn(ChatReady(z0), s)
<1> DEFINE z == Note(z0, [Event("ready") EXCEPT !.tok = "chat", !.res = Slots])
           rec == Rec(z, "chat_ready", 0)
           a == [z EXCEPT !.v.out = rec, !.v.risk = Append(z.v.risk, rec),
                          !.v.remaining = Append(z.v.remaining, [rec |-> rec, n |-> z.v.chats])]
           b == ResolveNextRes(a, Slots)
           c == Emit(b, b.v.gap, "T_gap", 1)
           d == [c EXCEPT !.v.gap = NoRec]
<1>0. ChatReady(z0) = Ask(Drain(d), rec)
  BY DEF ChatReady
<1>1. IsTurn(z, s)
  BY Simple
<1> HIDE DEF z
<1>2. rec = [sid |-> s, dp |-> "chat_ready", at |-> Len(z.h), i |-> 0]
  BY <1>1 DEF Rec, IsTurn
<1> HIDE DEF rec
<1>3. IsTurn(a, s)
  BY <1>1 DEF IsTurn, TurnFields, ViewFields
<1> HIDE DEF a
<1>4. IsTurn(b, s)
  BY <1>3, AdvanceKeeps
<1> HIDE DEF b
<1>5. IsTurn(c, s)
  BY <1>4, Simple
<1> HIDE DEF c
<1>6. IsTurn(d, s)
  BY <1>5, ViewFieldSets
<1> HIDE DEF d
<1>7. IsTurn(Drain(d), s)
  BY <1>6, Simple
<1> QED
  BY <1>0, <1>2, <1>7, Asks DEF Points

LEMMA ToolReadyKeeps ==
  ASSUME NEW z0, NEW s \in Sids, IsTurn(z0, s), NEW group, 1 \in DOMAIN group
  PROVE  IsTurn(ToolReady(z0, group), s)
<1> DEFINE z == Note(z0, [Event("ready") EXCEPT !.tok = "tool", !.res = ResOf[Head(group)], !.tools = <<group>>])
           made == [i \in DOMAIN group |-> Rec(z, "tool_ready", i)]
           a == ResolveNextRes(z, ResOf[Head(group)])
           b == [a EXCEPT !.v.tools = made, !.v.risk = Append(a.v.risk, made[1]),
                          !.v.nextRes = Append(a.v.nextRes, made[1])]
<1>0. ToolReady(z0, group) = Ask(Drain(b), made[1])
  BY DEF ToolReady
<1>1. IsTurn(z, s)
  BY Simple
<1> HIDE DEF z
<1>2. made[1] = [sid |-> s, dp |-> "tool_ready", at |-> Len(z.h), i |-> 1]
  BY <1>1 DEF Rec, IsTurn
<1> HIDE DEF made
<1>3. IsTurn(a, s)
  BY <1>1, AdvanceKeeps
<1> HIDE DEF a
<1>4. IsTurn(b, s)
  BY <1>3 DEF IsTurn, TurnFields, ViewFields
<1> HIDE DEF b
<1>5. IsTurn(Drain(b), s)
  BY <1>4, Simple
<1> QED
  BY <1>0, <1>2, <1>5, Asks DEF Points

LEMMA FetchKeeps ==
  ASSUME NEW z0, NEW s, IsTurn(z0, s)
  PROVE  IsTurn(FetchReady(z0), s) /\ IsTurn(FetchEnd(z0), s)
<1>1. IsTurn(FetchReady(z0), s)
  <2> DEFINE z == Note(z0, [Event("ready") EXCEPT !.tok = "fetch", !.res = "svc.retrieval"])
             a == ResolveNextRes(z, "svc.retrieval")
  <2>1. IsTurn(z, s)
    BY Simple
  <2>2. FetchReady(z0) = Drain(a)
    BY DEF FetchReady
  <2> HIDE DEF z
  <2>3. IsTurn(a, s)
    BY <2>1, AdvanceKeeps
  <2> HIDE DEF a
  <2> QED
    BY <2>2, <2>3, Simple
<1>2. IsTurn(FetchEnd(z0), s)
  <2> DEFINE z == Note(z0, [Event("node") EXCEPT !.tok = "retrieval"])
             a == AdvanceStruct(z, "retrieval")
  <2>1. IsTurn(z, s)
    BY Simple
  <2>2. FetchEnd(z0) = Drain(a)
    BY DEF FetchEnd
  <2> HIDE DEF z
  <2>3. IsTurn(a, s)
    BY <2>1, AdvanceKeeps
  <2> HIDE DEF a
  <2> QED
    BY <2>2, <2>3, Simple
<1> QED
  BY <1>1, <1>2

LEMMA RespondKeeps ==
  ASSUME NEW z, NEW s, IsTurn(z, s), NEW tok, NEW flat, NEW spawn, NEW fin
  PROVE  IsTurn(Respond(z, tok, flat, spawn, fin), s)
<1> DEFINE a == Emit(z, z.v.repeat, "REPEAT", flat # <<>> /\ flat = z.v.sig)
           b1 == [a EXCEPT !.v.repeat = NoRec, !.v.sig = flat, !.v.chats = a.v.chats + 1]
           b == AdvanceStruct(b1, tok)
           c == Emit(b, b.v.out, "OUT", <<spawn, fin>>)
<1>0. Respond(z, tok, flat, spawn, fin) = [c EXCEPT !.v.out = NoRec]
  BY DEF Respond
<1>1. IsTurn(a, s)
  BY Simple
<1> HIDE DEF a
<1>2. IsTurn(b1, s)
  BY <1>1 DEF IsTurn, TurnFields, ViewFields
<1> HIDE DEF b1
<1>3. IsTurn(b, s)
  BY <1>2, AdvanceKeeps
<1> HIDE DEF b
<1>4. IsTurn(c, s)
  BY <1>3, Simple
<1> HIDE DEF c
<1>5. IsTurn([c EXCEPT !.v.out = NoRec], s)
  BY <1>4, ViewFieldSets
<1> QED
  BY Zenon, <1>0, <1>5

LEMMA ChatEndKeeps ==
  ASSUME NEW z0, NEW s \in Sids, IsTurn(z0, s), NEW tools, NEW spawn, NEW fin
  PROVE  IsTurn(ChatEnd(z0, tools, spawn, fin), s)
<1> DEFINE tok == IF fin THEN "final" ELSE IF spawn THEN "spawn" ELSE "chat"
           flat == Flat(tools)
           z == Note(z0, [Event("node") EXCEPT !.tok = tok, !.tools = tools, !.spawn = spawn, !.fin = fin])
           c == Respond(z, tok, flat, spawn, fin)
           rec == Rec(z, "chat_end", 0)
           d == [c EXCEPT !.v.gap = rec, !.v.repeat = rec, !.v.risk = Append(c.v.risk, rec),
                          !.v.struct = Append(c.v.struct, [rec |-> rec, skip |-> Len(flat), got |-> <<>>]),
                          !.v.remaining = Append(c.v.remaining, [rec |-> rec, n |-> c.v.chats])]
           e1 == Emit(d, rec, "NEXT_RES", Slots)
           e2 == Emit(d, rec, "NEXT_RES", ResOf[flat[1]])
           e3 == [d EXCEPT !.v.nextRes = Append(d.v.nextRes, rec)]
           e == IF spawn THEN e1 ELSE IF flat # <<>> THEN e2 ELSE e3
<1>0. ChatEnd(z0, tools, spawn, fin) = IF fin THEN Drain(c) ELSE Ask(Drain(e), rec)
  BY DEF ChatEnd
<1> HIDE DEF flat, tok
<1>1. IsTurn(z, s)
  BY Simple
<1> HIDE DEF z
<1>2. rec = [sid |-> s, dp |-> "chat_end", at |-> Len(z.h), i |-> 0]
  BY <1>1 DEF Rec, IsTurn
<1> HIDE DEF rec
<1>7. IsTurn(c, s)
  BY <1>1, RespondKeeps
<1> HIDE DEF c
<1>8. IsTurn(d, s)
  BY <1>7 DEF IsTurn, TurnFields, ViewFields
<1> HIDE DEF d
<1>9. IsTurn(e1, s) /\ IsTurn(e2, s) /\ IsTurn(e3, s)
  BY <1>8, Simple, ViewFieldSets
<1> HIDE DEF e1, e2, e3
<1>10. IsTurn(e, s)
  BY <1>9
<1> HIDE DEF e
<1>11. IsTurn(Drain(c), s) /\ IsTurn(Drain(e), s)
  BY <1>7, <1>10, Simple
<1>12. IsTurn(Ask(Drain(e), rec), s)
  BY <1>2, <1>11, Asks DEF Points
<1> QED
  BY <1>0, <1>11, <1>12

LEMMA ToolEndKeeps ==
  ASSUME NEW z0, NEW s, IsTurn(z0, s), NEW group, NEW ok \in BOOLEAN
  PROVE  IsTurn(ToolEnd(z0, group, ok), s)
<1> DEFINE z == Note(z0, [Event(IF ok THEN "node" ELSE "limit") EXCEPT !.tok = "tools", !.tools = <<group>>])
           a1 == EmitEach(z, z.v.tools, "Q_tool", ok)
           a == [a1 EXCEPT !.v.tools = <<>>]
           b == AdvanceEach(a, group)
           c == Drain(b)
<1>0. ToolEnd(z0, group, ok) = IF ok THEN [c EXCEPT !.gang = FALSE] ELSE Drain(a)
  BY DEF ToolEnd
<1>1. IsTurn(z, s)
  BY Simple
<1> HIDE DEF z
<1>2. IsTurn(a1, s)
  BY <1>1, Simple
<1> HIDE DEF a1
<1>3. IsTurn(a, s)
  BY <1>2, ViewFieldSets
<1> HIDE DEF a
<1>4. IsTurn(b, s)
  BY <1>3, AdvanceKeeps
<1> HIDE DEF b
<1>5. IsTurn(c, s) /\ IsTurn(Drain(a), s)
  BY <1>3, <1>4, Simple
<1> HIDE DEF c
<1>6. IsTurn([c EXCEPT !.gang = FALSE], s)
  BY <1>5 DEF IsTurn, TurnFields
<1> QED
  BY <1>0, <1>5, <1>6

LEMMA RefusedKeeps ==
  ASSUME NEW z0, NEW s, IsTurn(z0, s)
  PROVE  IsTurn(BudgetRefused(z0), s)
<1> DEFINE z == Note(z0, Event("refused"))
           a == EmitEach(z, z.v.risk, "BUDGET_FAIL", 1)
           b == [a EXCEPT !.v.risk = <<>>]
<1>0. BudgetRefused(z0) = Drain(b)
  BY DEF BudgetRefused
<1>1. IsTurn(z, s)
  BY Simple
<1> HIDE DEF z
<1>2. IsTurn(a, s)
  BY <1>1, Simple
<1> HIDE DEF a
<1>3. IsTurn(b, s)
  BY <1>2, ViewFieldSets
<1> HIDE DEF b
<1> QED
  BY <1>0, <1>3, Simple

LEMMA SpawnKeeps ==
  ASSUME NEW z0, NEW s \in Sids, IsTurn(z0, s)
  PROVE  IsTurn(Spawn(z0), s) /\ IsTurn(Join(z0), s)
<1>1. IsTurn(Spawn(z0), s)
  <2> DEFINE z == Note(z0, Event("spawn"))
             rec == Rec(z, "spawn", 0)
             a == [z EXCEPT !.v.join = rec]
             b == Drain(a)
             c == [b EXCEPT !.kids = TRUE]
  <2>0. Spawn(z0) = Ask(c, rec)
    BY DEF Spawn
  <2>1. IsTurn(z, s)
    BY Simple
  <2> HIDE DEF z
  <2>2. rec = [sid |-> s, dp |-> "spawn", at |-> Len(z.h), i |-> 0]
    BY <2>1 DEF Rec, IsTurn
  <2> HIDE DEF rec
  <2>3. IsTurn(a, s)
    BY <2>1, ViewFieldSets
  <2> HIDE DEF a
  <2>4. IsTurn(b, s)
    BY <2>3, Simple
  <2> HIDE DEF b
  <2>5. IsTurn(c, s)
    BY <2>4 DEF IsTurn, TurnFields
  <2> HIDE DEF c
  <2> QED
    BY <2>0, <2>2, <2>5, Asks DEF Points
<1>2. IsTurn(Join(z0), s)
  <2> DEFINE z == Note(z0, Event("join"))
             a == Emit(z, z.v.join, "JOIN", 1)
             b == [a EXCEPT !.v.join = NoRec]
             c == Drain(b)
  <2>0. Join(z0) = [c EXCEPT !.kids = FALSE]
    BY DEF Join
  <2>1. IsTurn(z, s)
    BY Simple
  <2> HIDE DEF z
  <2>2. IsTurn(a, s)
    BY <2>1, Simple
  <2> HIDE DEF a
  <2>3. IsTurn(b, s)
    BY <2>2, ViewFieldSets
  <2> HIDE DEF b
  <2>4. IsTurn(c, s)
    BY <2>3, Simple
  <2> HIDE DEF c
  <2> QED
    BY <2>0, <2>4 DEF IsTurn, TurnFields
<1> QED
  BY <1>1, <1>2

-----------------------------------------------------------------------------
(* The invariant. *)

Groups == Seq(DOMAIN ResOf) \ {<<>>}
ProgFields == {"at", "chats", "req", "faults", "group", "left", "redo", "fanned"}

\* A session at its tools is at some; so is what it has left and what it is
\* to do again.
IsPlan(p) == DOMAIN p = ProgFields /\ p.left \in Seq(Groups) /\ p.redo \in Seq(Groups)
IsProg(p) == IsPlan(p) /\ (p.at = "tool" => p.group \in Groups)

Typed ==
  /\ world \in Worlds
  /\ DOMAIN prog = Sids /\ \A s \in Sids : IsProg(prog[s])
  /\ DOMAIN view = Sids /\ \A s \in Sids : DOMAIN view[s] = ViewFields /\ view[s].live \in BOOLEAN
  /\ DOMAIN recs = Sids
  /\ flush \in [set : Nat, believed : BOOLEAN]
  /\ IsAsks(batch) /\ \A a \in answers : IsAsk(a)

Kept == Typed /\ AsksKept

LEMMA ViewDomains ==
  DOMAIN NewView = ViewFields /\ NewView.live = TRUE /\ DOMAIN NoView = ViewFields /\ NoView.live = FALSE
<1>1. DOMAIN NewView = ViewFields /\ NewView.live = TRUE
  BY DEF NewView, ViewFields
<1> QED
  BY <1>1 DEF NoView, ViewFields

LEMMA TurnKeeps ==
  ASSUME Typed, NEW s \in Sids
  PROVE  IsTurn(Turn(s), s)
<1> DEFINE w == IF Seen(s) THEN view[s] ELSE NewView
           in == s \in gang
           on == s \in kids
<1>1. DOMAIN w = ViewFields /\ w.live = TRUE
  BY ViewDomains DEF Typed, Seen
<1>2. Turn(s) = [s |-> s, v |-> w, h |-> past[s], out |-> fresh, asks |-> <<>>, drained |-> <<>>,
                 gang |-> in, kids |-> on, gone |-> FALSE]
  BY Zenon DEF Turn
<1>3. in \in BOOLEAN /\ on \in BOOLEAN
  OBVIOUS
<1> HIDE DEF w, in, on
<1> DEFINE none == <<>>
<1>4. IsAsks(none)
  BY NoAsks
<1> HIDE DEF none
<1>5. ASSUME NEW z, z = [s |-> s, v |-> w, h |-> past[s], out |-> fresh, asks |-> none, drained |-> <<>>,
                         gang |-> in, kids |-> on, gone |-> FALSE]
      PROVE  IsTurn(z, s)
  <2>1. DOMAIN z = TurnFields
    BY <1>5 DEF TurnFields
  <2> QED
    BY <1>1, <1>3, <1>4, <1>5, <2>1 DEF IsTurn
<1> QED
  BY <1>2, <1>5 DEF none

LEMMA BeginKeeps ==
  ASSUME Typed, NEW s \in Sids, NEW z \in Begin(s)
  PROVE  IsTurn(z, s)
<1>1. PICK k : z = ExpireRisk(Turn(s), k)
  BY Zenon DEF Begin
<1> QED
  BY Zenon, <1>1, TurnKeeps, ExpireKeeps

LEMMA MayGangKeeps ==
  ASSUME NEW z, NEW s, IsTurn(z, s), NEW p, NEW tools, NEW y \in MayGang(z, p, tools)
  PROVE  IsTurn(y, s)
<1>1. y = z \/ y = [z EXCEPT !.gang = TRUE]
  BY DEF MayGang
<1>2. IsTurn([z EXCEPT !.gang = TRUE], s)
  BY Sets
<1> QED
  BY Zenon, <1>1, <1>2

\* What a turn leaves behind, when the reserver has kept its books.
LEMMA GotoKeeps ==
  ASSUME Kept, NEW s \in Sids, NEW p, IsProg(p), NEW z, IsTurn(z, s) \/ IsLast(z, s), Goto(s, p, z)
  PROVE  Kept'
<1> USE DEF Kept
<1>1. world' = world /\ Sids' = Sids
  BY DEF Goto, Sids
<1>2. z.s = s /\ z.gone \in BOOLEAN /\ z.gang \in BOOLEAN /\ z.kids \in BOOLEAN /\ IsAsks(z.asks)
  BY DEF IsTurn, IsLast
<1>3. ~z.gone => DOMAIN z.v = ViewFields /\ z.v.live = TRUE
  BY DEF IsTurn, IsLast
<1>4. z.gone => ~z.gang /\ ~z.kids
  BY DEF IsTurn, IsLast
<1>5. Finish(z)
  BY DEF Goto
<1>6. /\ DOMAIN view' = Sids
      /\ \A t \in Sids : t # s => view'[t] = view[t]
      /\ DOMAIN view'[s] = ViewFields /\ view'[s].live \in BOOLEAN /\ (view'[s].live <=> ~z.gone)
  BY <1>2, <1>3, <1>5, ViewDomains DEF Finish, Typed
<1>7. DOMAIN prog' = Sids /\ \A t \in Sids : IsProg(prog'[t])
  BY DEF Goto, Typed
<1>8. /\ DOMAIN recs' = Sids
      /\ \A t \in Sids : t # s => recs'[t] = recs[t]
      /\ z.gone => \A dp \in Points : recs'[s][dp] = NoRec
  BY <1>2, <1>5 DEF Finish, Typed
<1>9. /\ flush' \in [set : Nat, believed : BOOLEAN]
      /\ IsAsks(batch') /\ \A a \in answers' : IsAsk(a)
      /\ flush'.set = IF flush'.believed THEN 1 ELSE 0
      /\ batch' # <<>> => flush'.believed
  <2> DEFINE asks == z.asks
  <2>1. Asked(asks)
    BY <1>5 DEF Finish
  <2>2. /\ IsAsks(asks) /\ IsAsks(batch) /\ \A a \in answers : IsAsk(a)
        /\ flush \in [set : Nat, believed : BOOLEAN]
        /\ flush.set = IF flush.believed THEN 1 ELSE 0
        /\ batch # <<>> => flush.believed
    BY <1>2 DEF Typed, AsksKept
  <2> HIDE DEF asks
  <2>3. CASE UNCHANGED <<batch, flush, answers>>
    BY <2>2, <2>3
  <2>4. CASE batch' = batch \o asks /\ UNCHANGED answers
             /\ flush' = IF asks # <<>> /\ ~flush.believed
                           THEN [set |-> flush.set + 1, believed |-> TRUE] ELSE flush
    <3>1. IsAsks(batch') /\ (asks = <<>> => batch' = batch)
      BY <2>2, <2>4, AsksJoin
    <3>2. CASE asks # <<>> /\ ~flush.believed
      BY <2>2, <2>4, <3>1, <3>2
    <3>3. CASE ~(asks # <<>> /\ ~flush.believed)
      <4>1. flush' = flush
        BY Zenon, <2>4, <3>3
      <4> QED
        BY <2>2, <2>4, <3>1, <3>3, <4>1
    <3> QED
      BY <3>2, <3>3
  <2>5. CASE UNCHANGED <<batch, flush>> /\ \E admitted \in SUBSET Range(asks) : DeliverLater(admitted)
    BY <2>2, <2>5, AsksJoin DEF DeliverLater
  <2> QED
    BY Zenon, <2>1, <2>3, <2>4, <2>5 DEF Asked
<1>10. /\ gang' \subseteq gang \cup {s} /\ (s \in gang' => ~z.gone)
       /\ kids' \subseteq kids \cup {s} /\ (s \in kids' => ~z.gone)
       /\ veto' \subseteq veto /\ (s \in veto' => ~z.gone)
  BY <1>2, <1>4, <1>5 DEF Finish, Keep
<1>11. Typed'
  <2>1. IsAsks(batch)' /\ (\A a \in answers : IsAsk(a))'
    BY <1>1, <1>9 DEF IsAsks, IsAsk
  <2>2. (\A t \in Sids : IsProg(prog[t]))'
    BY <1>1, <1>7 DEF IsProg, IsPlan
  <2>3. (\A t \in Sids : DOMAIN view[t] = ViewFields /\ view[t].live \in BOOLEAN)'
    BY <1>1, <1>6 DEF Typed
  <2>4. (world \in Worlds /\ DOMAIN prog = Sids /\ DOMAIN view = Sids /\ DOMAIN recs = Sids)'
    BY <1>1, <1>6, <1>7, <1>8 DEF Typed
  <2> QED
    BY <1>9, <2>1, <2>2, <2>3, <2>4 DEF Typed
<1>12. gang' \cup kids' \cup veto' \subseteq {t \in Sids : view'[t].live}
  BY <1>6, <1>10 DEF AsksKept, Seen
<1>13. \A t \in Sids, dp \in Points : ~view'[t].live => recs'[t][dp] = NoRec
  BY <1>6, <1>8 DEF AsksKept, Seen
<1> QED
  BY <1>1, <1>9, <1>11, <1>12, <1>13 DEF AsksKept, Seen

-----------------------------------------------------------------------------
(* The handlers. *)

LEMMA ReadyChatKeeps ==
  ASSUME Kept, NEW s \in Sids, NEW p, IsPlan(p), NEW z, IsTurn(z, s), ReadyChat(s, p, z)
  PROVE  Kept'
<1>1. CASE Goto(s, [p EXCEPT !.at = "chat"], ChatReady(z))
  <2> DEFINE q == [p EXCEPT !.at = "chat"]
  <2>1. IsProg(q)
    BY DEF IsProg, IsPlan, ProgFields
  <2> HIDE DEF q
  <2> QED
    BY <1>1, <2>1, ChatReadyKeeps, GotoKeeps DEF q
<1>2. CASE Goto(s, [p EXCEPT !.at = "fetch"], FetchReady(z))
  <2> DEFINE q == [p EXCEPT !.at = "fetch"]
  <2>1. IsProg(q)
    BY DEF IsProg, IsPlan, ProgFields
  <2> HIDE DEF q
  <2> QED
    BY <1>2, <2>1, FetchKeeps, GotoKeeps DEF q
<1> QED
  BY Zenon, <1>1, <1>2 DEF ReadyChat

LEMMA ReadyToolsKeeps ==
  ASSUME Kept, NEW s \in Sids, NEW p, IsPlan(p), NEW groups \in Seq(Groups), groups # <<>>,
         NEW z, IsTurn(z, s), ReadyTools(s, p, groups, z)
  PROVE  Kept'
<1> DEFINE q == [p EXCEPT !.at = "tool", !.group = Head(groups), !.left = Tail(groups)]
<1>1. Head(groups) \in Groups /\ Tail(groups) \in Seq(Groups)
  OBVIOUS
<1>2. 1 \in DOMAIN Head(groups)
  BY <1>1 DEF Groups
<1>3. IsProg(q)
  BY <1>1 DEF IsProg, IsPlan, ProgFields
<1> HIDE DEF q
<1>4. PICK y \in MayGang(ToolReady(z, Head(groups)), q, <<>>) : Goto(s, q, y)
  BY Zenon DEF ReadyTools, q
<1> DEFINE t == ToolReady(z, Head(groups))
<1>5. IsTurn(t, s)
  BY <1>2, ToolReadyKeeps
<1> HIDE DEF t
<1>6. IsTurn(y, s)
  <2>1. y \in MayGang(t, q, <<>>)
    BY DEF t
  <2> QED
    BY <1>5, <2>1, MayGangKeeps
<1> QED
  BY <1>3, <1>4, <1>6, GotoKeeps

LEMMA CloseKeeps ==
  ASSUME Kept, NEW s \in Sids, NEW p, IsProg(p), NEW z, IsTurn(z, s), Close(s, p, z)
  PROVE  Kept'
<1> DEFINE child == s \in world.child
           y == RequestEnd(z, child)
           gone == [p EXCEPT !.at = "gone"]
           think == [p EXCEPT !.at = "think"]
<1>1. Goto(s, gone, SessionEnd(y)) \/ Goto(s, think, y)
  BY Zenon DEF Close
<1>2. IsTurn(y, s)
  <2>1. child \in BOOLEAN
    OBVIOUS
  <2> HIDE DEF child
  <2> QED
    BY <2>1, EndKeeps
<1>3. IsLast(SessionEnd(y), s)
  <2> HIDE DEF y
  <2> QED
    BY <1>2, SessionEnds
<1>4. IsProg(gone) /\ IsProg(think)
  BY DEF IsProg, IsPlan, ProgFields
<1> HIDE DEF y, gone, think
<1> QED
  BY <1>1, <1>2, <1>3, <1>4, GotoKeeps

LEMMA ReactKeeps ==
  ASSUME Kept, NEW s \in Sids, NEW again, IsTurn(again, s), NEW z, IsTurn(z, s), React(s, again, z)
  PROVE  Kept'
<1> DEFINE p == [prog[s] EXCEPT !.faults = prog[s].faults + 1]
           redo == IF p.at = "tool" THEN <<p.group>> \o p.left ELSE <<>>
           chat == [p EXCEPT !.at = "chat", !.redo = redo, !.left = <<>>, !.group = <<>>]
           gone == [p EXCEPT !.at = "gone"]
<1>1. \/ Goto(s, p, again)
      \/ Goto(s, chat, ChatReady(z))
      \/ Goto(s, gone, SessionEnd(RequestAbort(z)))
  BY DEF React
<1>2. IsProg(p)
  <2>1. IsProg(prog[s])
    BY DEF Kept, Typed
  <2> QED
    BY <2>1 DEF IsProg, IsPlan, ProgFields
<1> HIDE DEF p
<1>3. redo \in Seq(Groups)
  <2>1. CASE p.at = "tool"
    <3> DEFINE g == p.group
               l == p.left
    <3>1. g \in Groups /\ l \in Seq(Groups)
      BY <1>2, <2>1 DEF IsProg, IsPlan
    <3> HIDE DEF g, l
    <3>2. <<g>> \o l \in Seq(Groups)
      BY <3>1
    <3> QED
      BY <2>1, <3>2 DEF g, l
  <2>2. CASE p.at # "tool"
    BY <2>2
  <2> QED
    BY <2>1, <2>2
<1> HIDE DEF redo
<1>4. IsProg(chat) /\ IsProg(gone)
  BY <1>2, <1>3 DEF IsProg, IsPlan, ProgFields
<1> HIDE DEF chat, gone
<1>5. IsTurn(ChatReady(z), s) /\ IsLast(SessionEnd(RequestAbort(z)), s)
  BY ChatReadyKeeps, AbortKeeps, SessionEnds
<1> QED
  BY <1>1, <1>2, <1>4, <1>5, GotoKeeps

LEMMA ChatEnds ==
  ASSUME Kept, NEW s \in Sids, OnChatEnd(s)
  PROVE  Kept'
<1>1. PICK z0 \in Begin(s), tools \in world.tools, fin \in BOOLEAN, spawn \in BOOLEAN :
        LET issued == IF prog[s].redo # <<>> THEN prog[s].redo ELSE IF fin \/ spawn THEN <<>> ELSE tools
            p == [prog[s] EXCEPT !.chats = @ + 1, !.redo = <<>>, !.group = <<>>,
                                 !.fanned = @ \/ (spawn /\ ~fin)]
            z1 == ChatEnd(z0, issued, spawn, fin)
        IN /\ prog[s].chats + 1 = world.chats => fin
           /\ spawn => world.spawn /\ ~fin /\ ~prog[s].fanned
           /\ \E z \in MayGang(z1, p, issued) :
                IF fin THEN Close(s, p, z)
                ELSE IF spawn THEN Goto(s, [p EXCEPT !.at = "join"], Spawn(z))
                ELSE IF issued # <<>> THEN ReadyTools(s, p, issued, z)
                ELSE ReadyChat(s, p, z)
  BY Zenon DEF OnChatEnd
<1> DEFINE issued == IF prog[s].redo # <<>> THEN prog[s].redo ELSE IF fin \/ spawn THEN <<>> ELSE tools
           p == [prog[s] EXCEPT !.chats = prog[s].chats + 1, !.redo = <<>>, !.group = <<>>,
                                !.fanned = prog[s].fanned \/ (spawn /\ ~fin)]
           z1 == ChatEnd(z0, issued, spawn, fin)
<1>2. PICK z \in MayGang(z1, p, issued) :
        IF fin THEN Close(s, p, z)
        ELSE IF spawn THEN Goto(s, [p EXCEPT !.at = "join"], Spawn(z))
        ELSE IF issued # <<>> THEN ReadyTools(s, p, issued, z)
        ELSE ReadyChat(s, p, z)
  BY <1>1
<1>3. prog[s].at = "chat"
  BY DEF OnChatEnd
<1>4. IsProg(prog[s])
  BY DEF Kept, Typed
<1>5. IsProg(p) /\ p.at = "chat"
  BY <1>3, <1>4 DEF IsProg, IsPlan, ProgFields
<1>6. issued \in Seq(Groups)
  BY <1>4, PredictorAssumption DEF IsProg, IsPlan, Groups, Kept, Typed
<1> HIDE DEF issued, p
<1>7. IsTurn(z, s)
  <2>1. IsTurn(z0, s)
    BY BeginKeeps DEF Kept
  <2>2. IsTurn(z1, s)
    BY <2>1, ChatEndKeeps
  <2> HIDE DEF z1
  <2> QED
    BY <2>2, MayGangKeeps
<1>8. CASE fin
  BY <1>2, <1>5, <1>7, <1>8, CloseKeeps
<1>9. CASE ~fin /\ spawn
  <2> DEFINE q == [p EXCEPT !.at = "join"]
  <2>1. IsProg(q)
    BY <1>5 DEF IsProg, IsPlan, ProgFields
  <2>2. Goto(s, q, Spawn(z))
    BY <1>2, <1>9
  <2> HIDE DEF q
  <2> QED
    BY <1>7, <2>1, <2>2, SpawnKeeps, GotoKeeps
<1>10. CASE ~fin /\ ~spawn /\ issued # <<>>
  BY <1>2, <1>5, <1>6, <1>7, <1>10, ReadyToolsKeeps DEF IsProg
<1>11. CASE ~fin /\ ~spawn /\ issued = <<>>
  BY <1>2, <1>5, <1>7, <1>11, ReadyChatKeeps DEF IsProg
<1> QED
  BY <1>8, <1>9, <1>10, <1>11

LEMMA ToolEnds ==
  ASSUME Kept, NEW s \in Sids, OnToolEnd(s)
  PROVE  Kept'
<1> DEFINE p == [prog[s] EXCEPT !.group = <<>>]
           left == p.left
<1>1. PICK z0 \in Begin(s) :
        LET z == ToolEnd(z0, prog[s].group, TRUE)
        IN IF left # <<>> THEN ReadyTools(s, p, left, z) ELSE ReadyChat(s, p, z)
  BY Zenon DEF OnToolEnd
<1> DEFINE z == ToolEnd(z0, prog[s].group, TRUE)
<1>2. IsTurn(z, s)
  <2>1. IsTurn(z0, s)
    BY BeginKeeps DEF Kept
  <2> QED
    BY <2>1, ToolEndKeeps
<1> HIDE DEF z
<1>3. IF left # <<>> THEN ReadyTools(s, p, left, z) ELSE ReadyChat(s, p, z)
  BY <1>1 DEF z
<1>4. IsPlan(p) /\ left \in Seq(Groups)
  BY DEF Kept, Typed, IsProg, IsPlan, ProgFields
<1> HIDE DEF p, left
<1> QED
  BY <1>2, <1>3, <1>4, ReadyToolsKeeps, ReadyChatKeeps

LEMMA OtherEnds ==
  ASSUME Kept, NEW s \in Sids,
         OnRequestStart(s) \/ OnFetchEnd(s) \/ OnToolLimit(s) \/ OnBudgetRefused(s) \/ OnFail(s) \/ OnJoin(s)
  PROVE  Kept'
<1>1. IsProg(prog[s]) /\ IsPlan(prog[s])
  BY DEF Kept, Typed, IsProg
<1>2. IsTurn(Turn(s), s) /\ \A z \in Begin(s) : IsTurn(z, s)
  BY TurnKeeps, BeginKeeps DEF Kept
<1>3. CASE OnRequestStart(s)
  <2> DEFINE p == [prog[s] EXCEPT !.chats = 0, !.req = prog[s].req + 1]
  <2>1. PICK z \in Begin(s) : ReadyChat(s, p, RequestStart(z))
    BY Zenon, <1>3 DEF OnRequestStart
  <2>2. IsPlan(p)
    BY <1>1 DEF IsPlan, ProgFields
  <2> HIDE DEF p
  <2>3. IsTurn(RequestStart(z), s)
    BY <1>2, StartKeeps
  <2> QED
    BY <2>1, <2>2, <2>3, ReadyChatKeeps
<1>4. CASE OnFetchEnd(s)
  <2> DEFINE p == [prog[s] EXCEPT !.at = "chat"]
  <2>1. PICK z \in Begin(s) : Goto(s, p, ChatReady(FetchEnd(z)))
    BY Zenon, <1>4 DEF OnFetchEnd
  <2>2. IsProg(p)
    BY <1>1 DEF IsProg, IsPlan, ProgFields
  <2> HIDE DEF p
  <2>3. IsTurn(FetchEnd(z), s)
    BY <1>2, FetchKeeps
  <2>4. IsTurn(ChatReady(FetchEnd(z)), s)
    BY <2>3, ChatReadyKeeps
  <2> QED
    BY <2>1, <2>2, <2>4, GotoKeeps
<1>5. CASE OnToolLimit(s)
  <2>1. PICK z \in Begin(s) : LET y == ToolEnd(z, prog[s].group, FALSE) IN React(s, y, y)
    BY Zenon, <1>5 DEF OnToolLimit
  <2> DEFINE y == ToolEnd(z, prog[s].group, FALSE)
  <2>2. IsTurn(y, s) /\ React(s, y, y)
    BY <1>2, <2>1, ToolEndKeeps
  <2> HIDE DEF y
  <2> QED
    BY <2>2, ReactKeeps
<1>6. CASE OnBudgetRefused(s)
  <2>1. PICK z \in Begin(s) : React(s, BudgetRefused(z), BudgetRefused(z))
    BY Zenon, <1>6 DEF OnBudgetRefused
  <2>2. IsTurn(BudgetRefused(z), s)
    BY <1>2, RefusedKeeps
  <2> QED
    BY <2>1, <2>2, ReactKeeps
<1>7. CASE OnFail(s)
  <2>1. PICK z \in Begin(s) : React(s, Turn(s), z)
    BY Zenon, <1>7 DEF OnFail
  <2> QED
    BY <1>2, <2>1, ReactKeeps
<1>8. CASE OnJoin(s)
  <2>1. PICK z \in Begin(s) : ReadyChat(s, prog[s], Join(z))
    BY Zenon, <1>8 DEF OnJoin
  <2>2. IsTurn(Join(z), s)
    BY <1>2, SpawnKeeps
  <2> QED
    BY <1>1, <2>1, <2>2, ReadyChatKeeps
<1> QED
  BY <1>3, <1>4, <1>5, <1>6, <1>7, <1>8

\* The flush timer takes the batch with it, and its key.
LEMMA FlushKeeps ==
  ASSUME Kept, OnFlush
  PROVE  Kept'
<1>1. flush' = [set |-> 0, believed |-> FALSE] /\ batch' = <<>>
  <2>1. flush.set = 1
    BY DEF OnFlush, Kept, Typed, AsksKept
  <2>2. flush' = [set |-> flush.set - 1, believed |-> FALSE]
    BY DEF OnFlush
  <2> QED
    BY <2>1, <2>2 DEF OnFlush, FlushBatch
<1>2. UNCHANGED <<world, prog, view, past, fresh, learned, recs, gang, kids, veto>>
  BY DEF OnFlush
<1>3. \A a \in answers' : IsAsk(a)
  <2>1. \A x \in Range(batch) : IsAsk(x)
    BY AsksJoin, NoAsks DEF Kept, Typed
  <2> QED
    BY <2>1 DEF OnFlush, FlushBatch, DeliverLater, Kept, Typed
<1>4. Sids' = Sids
  BY <1>2 DEF Sids
<1>5. IsAsks(batch)' /\ (\A a \in answers : IsAsk(a))'
  <2> DEFINE none == <<>>
  <2>1. IsAsks(none)
    BY NoAsks
  <2> HIDE DEF none
  <2>2. IsAsks(batch')
    BY <1>1, <2>1 DEF none
  <2> QED
    BY <1>3, <1>4, <2>2 DEF IsAsks, IsAsk
<1>6. (\A t \in Sids : IsProg(prog[t]))'
  BY <1>2, <1>4 DEF Kept, Typed, IsProg, IsPlan
<1>7. Typed'
  BY <1>1, <1>2, <1>4, <1>5, <1>6 DEF Kept, Typed
<1> QED
  BY <1>1, <1>2, <1>4, <1>7 DEF Kept, AsksKept, Seen

\* An answer is kept for a session that is seen, and for no other.
LEMMA AnswerKeeps ==
  ASSUME Kept, OnAnswer
  PROVE  Kept'
<1>1. PICK a \in answers :
        /\ answers' = answers \ {a}
        /\ IF ~Seen(a.sid) THEN UNCHANGED <<view, past, fresh, recs, veto>>
           ELSE /\ \E z \in Begin(a.sid) :
                     /\ view' = [view EXCEPT ![a.sid] = z.v]
                     /\ fresh' = z.out
                /\ recs' = [recs EXCEPT ![a.sid] = [recs[a.sid] EXCEPT ![a.dp] = a]]
                /\ IF a.dp \notin {"chat_end", "spawn"} THEN UNCHANGED veto
                   ELSE \/ UNCHANGED veto
                        \/ veto' = veto \ {a.sid}
                        \/ a.sid \in gang \cup kids /\ veto' = veto \cup {a.sid}
                /\ UNCHANGED past
        /\ UNCHANGED <<world, prog, learned, batch, flush, gang, kids>>
  BY DEF OnAnswer
<1>2. a.sid \in Sids /\ a.dp \in Points
  BY DEF Kept, Typed, IsAsk
<1>3. Sids' = Sids
  BY <1>1 DEF Sids
<1>4. IsAsks(batch)' /\ (\A b \in answers : IsAsk(b))'
  BY <1>1, <1>3 DEF Kept, Typed, IsAsks, IsAsk
<1>5. (\A t \in Sids : IsProg(prog[t]))'
  BY <1>1, <1>3 DEF Kept, Typed, IsProg, IsPlan
<1>6. CASE ~Seen(a.sid)
  <2>1. UNCHANGED <<view, recs, veto>>
    BY <1>1, <1>6
  <2>2. Typed'
    BY <1>1, <1>3, <1>4, <1>5, <2>1 DEF Kept, Typed
  <2> QED
    BY <1>1, <1>3, <2>1, <2>2 DEF Kept, AsksKept, Seen
<1>7. CASE Seen(a.sid)
  <2>1. PICK z \in Begin(a.sid) : view' = [view EXCEPT ![a.sid] = z.v]
    BY <1>1, <1>7
  <2>2. DOMAIN z.v = ViewFields /\ z.v.live = TRUE
    BY <1>2, BeginKeeps DEF IsTurn, Kept
  <2>3. /\ DOMAIN view' = Sids
        /\ \A t \in Sids : DOMAIN view'[t] = ViewFields /\ view'[t].live \in BOOLEAN
        /\ \A t \in Sids : view'[t].live = view[t].live
    BY <1>2, <1>7, <2>1, <2>2 DEF Kept, Typed, Seen
  <2>4. /\ DOMAIN recs' = Sids
        /\ \A t \in Sids : t # a.sid => recs'[t] = recs[t]
    BY <1>1, <1>2, <1>7 DEF Kept, Typed
  <2>5. veto' \subseteq veto \cup {a.sid}
    BY <1>1, <1>7
  <2>6. Typed'
    BY <1>1, <1>3, <1>4, <1>5, <2>3, <2>4 DEF Kept, Typed
  <2>7. gang' \cup kids' \cup veto' \subseteq {t \in Sids : view'[t].live}
    BY <1>1, <1>2, <1>7, <2>3, <2>5 DEF Kept, AsksKept, Seen
  <2>8. \A t \in Sids, dp \in Points : ~view'[t].live => recs'[t][dp] = NoRec
    BY <1>7, <2>3, <2>4 DEF Kept, AsksKept, Seen
  <2> QED
    BY <1>1, <1>3, <2>6, <2>7, <2>8 DEF Kept, AsksKept, Seen
<1> QED
  BY <1>6, <1>7

LEMMA KeptInit == Init => Kept
<1> SUFFICES ASSUME Init PROVE Kept
  OBVIOUS
<1>0. <<>> \in Seq(Groups)
  OBVIOUS
<1> USE DEF Init
<1>1. ASSUME NEW s \in Sids
      PROVE  IsProg(prog[s])
  <2>1. prog[s] = [at |-> "off", chats |-> 0, req |-> 0, faults |-> 0, group |-> <<>>, left |-> <<>>,
                   redo |-> <<>>, fanned |-> FALSE]
    OBVIOUS
  <2>2. DOMAIN prog[s] = ProgFields
    BY <2>1 DEF ProgFields
  <2>3. prog[s].left = <<>> /\ prog[s].redo = <<>> /\ prog[s].at # "tool"
    BY <2>1
  <2> QED
    BY Zenon, <1>0, <2>2, <2>3 DEF IsProg, IsPlan
<1>2. \A s \in Sids : DOMAIN view[s] = ViewFields /\ view[s].live = FALSE
  BY ViewDomains
<1>3. IsAsks(batch)
  <2> DEFINE none == <<>>
  <2>1. IsAsks(none)
    BY NoAsks
  <2> HIDE DEF none
  <2> QED
    BY <2>1 DEF none
<1>4. Typed
  BY <1>1, <1>2, <1>3 DEF Typed
<1>5. \A s \in Sids, dp \in Points : recs[s][dp] = NoRec
  OBVIOUS
<1> QED
  BY <1>4, <1>5 DEF Kept, AsksKept

LEMMA KeptStep == Kept /\ [Next]_vars => Kept'
<1> SUFFICES ASSUME Kept, [Next]_vars PROVE Kept'
  OBVIOUS
<1>1. CASE UNCHANGED vars
  <2>1. Sids' = Sids
    BY <1>1 DEF vars, Sids
  <2>2. IsAsks(batch)' /\ (\A b \in answers : IsAsk(b))'
    BY <1>1, <2>1 DEF vars, reserver, Kept, Typed, IsAsks, IsAsk
  <2>3. (\A t \in Sids : IsProg(prog[t]))'
    BY <1>1, <2>1 DEF vars, Kept, Typed, IsProg, IsPlan
  <2>4. Typed'
    BY <1>1, <2>1, <2>2, <2>3 DEF vars, reserver, Kept, Typed
  <2> QED
    BY <1>1, <2>1, <2>4 DEF vars, reserver, Kept, AsksKept, Seen
<1>2. ASSUME NEW s \in Sids,
             \/ OnRequestStart(s) \/ OnChatEnd(s) \/ OnToolEnd(s) \/ OnFetchEnd(s)
             \/ OnToolLimit(s) \/ OnBudgetRefused(s) \/ OnFail(s) \/ OnJoin(s)
      PROVE  Kept'
  BY <1>2, ChatEnds, ToolEnds, OtherEnds
<1>3. CASE OnFlush \/ OnAnswer
  BY <1>3, FlushKeeps, AnswerKeeps
<1> QED
  BY Zenon, <1>1, <1>2, <1>3 DEF Next

(***************************************************************************)
(* AsksKept, for any scenarios: whatever the channel drops, batches and    *)
(* delays, no ask is left in a batch without its one flush timer, and of a *)
(* session that is over nothing is kept, though its answers still arrive.  *)
(***************************************************************************)
THEOREM AsksAreKept == Spec => []AsksKept
<1>1. Kept => AsksKept
  BY DEF Kept
<1> QED
  BY <1>1, KeptInit, KeptStep, PTL DEF Spec
=============================================================================
