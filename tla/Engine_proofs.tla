--------------------------- MODULE Engine_proofs ---------------------------
(***************************************************************************)
(* Proofs about Engine, for any worlds and any number of sessions in them: *)
(* every variable keeps its type, and a parent's join counter is the       *)
(* number of its children that still run.                                  *)
(*                                                                         *)
(* A handler is spread over the steps of the frames on `stack`, so nothing *)
(* of this holds by itself in between.  The inductive invariant is         *)
(*                                                                         *)
(*   Good == Typed /\ Flows /\ Families                                    *)
(*                                                                         *)
(* Flows says of each session which of its calls are still to be made      *)
(* (OpsIn), how much of what it holds will be released (GivesIn, DueIn)    *)
(* and what will be cleared (ClearsIn), and that its pending step, its     *)
(* program, its entry in the cache and what it holds fit these; Families   *)
(* says the same of a parent and its children.  A step takes the top frame *)
(* off and pushes a volley of frames of one session (Volley); it leaves    *)
(* the others alone, or evicts them (Kept).  StepKeeps is the lemma that   *)
(* every handler's step is brought to: it asks what the frames that are    *)
(* pushed owe (Pays), and each <Handler>Keeps answers for one handler.     *)
(***************************************************************************)
EXTENDS Engine, FiniteSums, SequenceTheorems

-----------------------------------------------------------------------------
(* Types. *)

ThreadOps == {"try", "throttled", "react", "chat", "start", "next", "spawn", "finish", "answered", "worked",
              "fetched", "gone", "bury"}
Frame ==
  [op : ThreadOps \cup {"give", "lapse", "wake", "joinpark", "counted"}, s : Sessions,
   r : Units \cup {"kv", "none"}, amt : Nat]

Requests == [kind : {"fetch"}, loc : {0}, ext : {0}, redo : {<<>>}, out : {0}]
Works == ToolSteps \cup Requests
Chats == [kind : {"chat"}, loc : {0}, ext : {0}, redo : Seq(Works), out : Nat]
Steps == Works \cup Chats
Wants == (Units \cup {"kv", "none"}) \X Nat
Parts == Seq(Units \X Nat)

PendRec ==
  [mode : Modes, step : Steps, rest : Seq(Works), tries : 0 .. SdkRetries, part : Parts, own : Bags,
   par : BOOLEAN, gang : BOOLEAN, want : Wants, due : BOOLEAN, flag : BOOLEAN]
ProgRec ==
  [life : {"off", "active", "done", "aborted"}, req : Nat, chats : Nat, fin : BOOLEAN, eps : Nat, joins : Int,
   fanned : BOOLEAN, holds : Bags, nap : {"no", "warm"} \cup Parkings, park : Nat, ctx : Nat]
Cache == [at : {"none", "idle", "active", "decode"}, tok : Nat]

Typed ==
  /\ world \in Worlds
  /\ prog \in [Sessions -> ProgRec]
  /\ pend \in [Sessions -> PendRec]
  /\ held \in [Sessions -> [Units -> Int]]
  /\ lease \in [Sessions -> Bags]
  /\ kv \in [Sessions -> Cache]
  /\ stack \in Seq(Frame)
  /\ aimd \in [cap : Nat, streak : Nat]

LEMMA UnitsAre == Units = {"slots", "mem", "cpu", "ext", "ret"}
BY DEF Units, Order, Range

LEMMA WorldIs ==
  ASSUME world \in Worlds
  PROVE  /\ IsWorld(world) /\ Tops # {} /\ IsFiniteSet(Tops) /\ Tops \subseteq Sessions
         /\ \A s \in Tops : IsFiniteSet(Kids(s)) /\ Kids(s) \subseteq Sessions /\ Kids(s) \cap Tops = {}
         /\ \A s \in Tops, t \in Tops : s # t => Kids(s) \cap Kids(t) = {}
         /\ \A s \in Sessions : s \in Tops \/ \E t \in Tops : s \in Kids(t)
<1>1. IsWorld(world)
  BY EngineAssumption
<1>2. Range(world.kids) = {world.kids[s] : s \in DOMAIN world.kids}
  BY DEF Range
<1>3. Sessions = Tops \cup UNION {world.kids[s] : s \in Tops}
  BY <1>2 DEF Sessions, Everybody, Tops
<1> QED
  BY <1>1, <1>3 DEF IsWorld, Tops, Kids

LEMMA SessionsFinite ==
  ASSUME world \in Worlds
  PROVE  IsFiniteSet(Sessions)
<1> DEFINE K == {world.kids[s] : s \in Tops}
           f == [s \in Tops |-> world.kids[s]]
<1>1. /\ IsFiniteSet(Tops) /\ \A s \in Tops : IsFiniteSet(world.kids[s])
  BY EngineAssumption DEF IsWorld, Tops
<1>2. f \in Surjection(Tops, K)
  BY DEF Surjection
<1>3. IsFiniteSet(K)
  BY <1>1, <1>2, FS_Surjection
<1>4. IsFiniteSet(UNION K)
  BY <1>1, <1>3, FS_UNION
<1>5. Sessions = Tops \cup UNION K
  BY DEF Sessions, Everybody, Tops, Range
<1> QED
  BY <1>1, <1>4, <1>5, FS_Union

LEMMA ParentIs ==
  ASSUME world \in Worlds, NEW c \in Sessions, IsKid(c)
  PROVE  Parent(c) \in Tops /\ Parent(c) \in Sessions /\ c \in Kids(Parent(c)) /\ Parent(c) # c
         /\ \A t \in Sessions : c \in Kids(t) => t = Parent(c)
<1>1. \E t \in Tops : c \in Kids(t)
  BY WorldIs DEF IsKid
<1>2. Parent(c) \in Tops /\ c \in Kids(Parent(c))
  BY <1>1 DEF Parent
<1>3. \A t \in Sessions : c \in Kids(t) => t \in Tops
  BY DEF Kids
<1> QED
  BY <1>2, <1>3, WorldIs DEF IsKid

LEMMA BagOf == Nothing \in Bags /\ \A r \in Units : Nothing[r] = 0
BY DEF Nothing, Bags

LEMMA FetchOf == Fetch \in Works /\ Fetch.loc = 0 /\ Fetch.kind = "fetch" /\ Fetch.ext = 0
BY DEF Fetch, Works, Requests

LEMMA ChatOf ==
  ASSUME NEW redo \in Seq(Works), NEW out \in Nat
  PROVE  /\ Chat(redo, out) \in Steps /\ Chat(redo, out).kind = "chat" /\ Chat(redo, out).loc = 0
         /\ Chat(redo, out).ext = 0
BY DEF Chat, Steps, Chats

\* Loc and kind of any step.
LEMMA StepIs ==
  ASSUME NEW st \in Steps
  PROVE  /\ st.loc \in Nat /\ st.ext \in Nat /\ st.out \in Nat /\ st.redo \in Seq(Works)
         /\ st.kind \in {"tool", "fetch", "chat"} /\ (st.kind # "tool" => st.loc = 0 /\ st.ext = 0)
         /\ (st.kind # "chat" => st \in Works)
<1>0. <<>> \in Seq(Works)
  OBVIOUS
<1>1. CASE st \in ToolSteps
  <2>1. st.kind = "tool" /\ st.loc \in Nat /\ st.ext \in Nat /\ st.out = 0 /\ st.redo = <<>>
    BY <1>1 DEF ToolSteps
  <2> QED
    BY <1>0, <1>1, <2>1 DEF Works
<1>2. CASE st \in Requests
  <2>1. st.kind = "fetch" /\ st.loc = 0 /\ st.ext = 0 /\ st.out = 0 /\ st.redo = <<>>
    BY <1>2 DEF Requests
  <2> QED
    BY <1>0, <1>2, <2>1 DEF Works
<1>3. CASE st \in Chats
  BY <1>3 DEF Chats
<1> QED
  BY <1>1, <1>2, <1>3 DEF Steps, Works

LEMMA WorkIs ==
  ASSUME NEW st \in Works
  PROVE  st \in Steps /\ st.kind # "chat" /\ st.loc \in Nat
BY DEF Steps, Works, ToolSteps, Requests

LEMMA NewPending ==
  ASSUME NEW m \in Modes
  PROVE  /\ NoPending(m) \in PendRec
         /\ NoPending(m).mode = m /\ NoPending(m).step = Fetch /\ NoPending(m).rest = <<>>
         /\ NoPending(m).tries = 0 /\ NoPending(m).part = <<>> /\ NoPending(m).own = Nothing
         /\ NoPending(m).par = FALSE /\ NoPending(m).due = FALSE /\ NoPending(m).flag = FALSE
         /\ NoPending(m).gang = FALSE
<1>1. /\ <<>> \in Seq(Works) /\ <<>> \in Parts /\ <<"none", 0>> \in Wants
      /\ 0 \in 0 .. SdkRetries /\ Fetch \in Steps
  BY EngineAssumption, FetchOf DEF Steps, Parts, Wants
<1>2. Nothing \in Bags
  BY BagOf
<1> QED
  BY <1>1, <1>2 DEF NoPending, PendRec

\* What _ready leaves of a program's pending step.
LEMMA FreshPending ==
  ASSUME NEW p \in PendRec, NEW step \in Steps, NEW rest \in Seq(Works), NEW tries \in 0 .. SdkRetries, NEW q,
         p = NoPending("ready"),
         \/ q = [p EXCEPT !.step = step, !.rest = rest] /\ tries = 0
         \/ q = [p EXCEPT !.step = step, !.rest = rest, !.tries = tries]
  PROVE  /\ q \in PendRec
         /\ q.mode = "ready" /\ q.step = step /\ q.rest = rest /\ q.part = <<>> /\ q.own = Nothing
         /\ q.par = FALSE /\ q.due = FALSE /\ q.flag = FALSE /\ q.gang = FALSE
<1>1. "ready" \in Modes
  BY DEF Modes
<1>2. /\ p.mode = "ready" /\ p.part = <<>> /\ p.own = Nothing /\ p.tries = 0
      /\ p.par = FALSE /\ p.due = FALSE /\ p.flag = FALSE /\ p.gang = FALSE
  BY <1>1, NewPending
<1>3. q \in PendRec
  BY <1>1, <1>2, ZenonT(40) DEF PendRec
<1> QED
  BY <1>1, <1>2, <1>3 DEF PendRec

LEMMA PendIs ==
  ASSUME NEW p \in PendRec
  PROVE  /\ p.mode \in Modes /\ p.step \in Steps /\ p.rest \in Seq(Works)
         /\ p.tries \in 0 .. SdkRetries /\ p.part \in Parts /\ p.own \in Bags /\ p.want \in Wants
         /\ p.par \in BOOLEAN /\ p.gang \in BOOLEAN /\ p.due \in BOOLEAN /\ p.flag \in BOOLEAN
BY DEF PendRec

LEMMA ProgIs ==
  ASSUME NEW g \in ProgRec
  PROVE  /\ g.life \in {"off", "active", "done", "aborted"} /\ g.req \in Nat /\ g.chats \in Nat /\ g.fin \in BOOLEAN
         /\ g.eps \in Nat /\ g.joins \in Int /\ g.fanned \in BOOLEAN /\ g.holds \in Bags /\ g.park \in Nat
         /\ g.ctx \in Nat /\ g.nap \in {"no", "warm"} \cup Parkings
BY DEF ProgRec

-----------------------------------------------------------------------------
(* The stack: whose calls are on it, and in what order. *)

IsThread(f) == f.op \in ThreadOps
IsGive(f) == f.op = "give" /\ f.amt # All
IsClear(f) == f.op = "give" /\ f.amt = All
Clash(f, g) ==
  f.s = g.s /\ \/ IsThread(f) /\ (IsThread(g) \/ IsGive(g))
               \/ IsClear(f) /\ IsGive(g)
Orderly(q) == \A i, j \in DOMAIN q : i < j => ~Clash(q[i], q[j])

OpsIn(q, s) == {q[i].op : i \in {j \in DOMAIN q : q[j].s = s /\ IsThread(q[j])}}
GivesIn(q, s) == \E i \in DOMAIN q : q[i].s = s /\ IsGive(q[i])
ClearsIn(q, s) == {q[i].r : i \in {j \in DOMAIN q : q[j].s = s /\ IsClear(q[j])}}
LateIn(q, s) ==
  {q[j].r : j \in {k \in DOMAIN q : /\ q[k].s = s /\ IsClear(q[k])
                                    /\ \E i \in DOMAIN q : i < k /\ q[i].s = s /\ IsThread(q[i])}}
DueAt(f, s, r) == IF f.op = "give" /\ f.s = s /\ f.r = r THEN f.amt ELSE 0
DueIn(q, s, r) == SumFunctionOnSet([i \in DOMAIN q |-> DueAt(q[i], s, r)], DOMAIN q)

LEMMA FrameIs ==
  ASSUME NEW f \in Frame
  PROVE  f.op \in ThreadOps \cup {"give", "lapse", "wake", "joinpark", "counted"} /\ f.s \in Sessions
         /\ f.r \in Units \cup {"kv", "none"} /\ f.amt \in Nat
BY DEF Frame

LEMMA CallIs ==
  ASSUME NEW s \in Sessions, NEW op \in ThreadOps \cup {"joinpark", "counted"}
  PROVE  Call(op, s) \in Frame /\ Call(op, s).op = op /\ Call(op, s).s = s
BY DEF Call, Frame

LEMMA GiveIs ==
  ASSUME NEW s \in Sessions, NEW r \in Units, NEW amt \in Nat
  PROVE  Give(s, r, amt) \in Frame /\ Give(s, r, amt).op = "give" /\ Give(s, r, amt).s = s
         /\ Give(s, r, amt).r = r /\ Give(s, r, amt).amt = amt
BY DEF Give, Frame

LEMMA WakeIs ==
  ASSUME world \in Worlds, NEW r \in Units \cup {"kv"}
  PROVE  Wake(r) \in Frame /\ Wake(r).op = "lapse" /\ Wake(r).r = r
<1>1. (CHOOSE t \in Tops : TRUE) \in Sessions
  BY WorldIs
<1> QED
  BY <1>1 DEF Wake, Frame

\* Sequences of frames, by index.
LEMMA Concat ==
  ASSUME NEW S, NEW a \in Seq(S), NEW b \in Seq(S)
  PROVE  /\ a \o b \in Seq(S) /\ Len(a) \in Nat /\ Len(b) \in Nat
         /\ DOMAIN a = 1 .. Len(a) /\ DOMAIN b = 1 .. Len(b)
         /\ DOMAIN (a \o b) = 1 .. Len(a) + Len(b)
         /\ \A i \in DOMAIN a : i \in DOMAIN (a \o b) /\ (a \o b)[i] = a[i] /\ a[i] \in S
         /\ \A j \in DOMAIN b : Len(a) + j \in DOMAIN (a \o b) /\ (a \o b)[Len(a) + j] = b[j] /\ b[j] \in S
         /\ \A k \in DOMAIN (a \o b) : (k \in DOMAIN a /\ (a \o b)[k] = a[k])
                                   \/ (k > Len(a) /\ k - Len(a) \in DOMAIN b /\ (a \o b)[k] = b[k - Len(a)])
<1>1. /\ a \o b \in Seq(S) /\ Len(a \o b) = Len(a) + Len(b)
      /\ \A i \in 1 .. Len(a) + Len(b) : (a \o b)[i] = IF i <= Len(a) THEN a[i] ELSE b[i - Len(a)]
  BY ConcatProperties
<1>2. /\ Len(a) \in Nat /\ Len(b) \in Nat /\ DOMAIN a = 1 .. Len(a) /\ DOMAIN b = 1 .. Len(b)
      /\ DOMAIN (a \o b) = 1 .. Len(a \o b)
  BY <1>1, LenProperties
<1>3. (\A i \in DOMAIN a : a[i] \in S) /\ \A i \in DOMAIN b : b[i] \in S
  BY <1>2, ElementOfSeq
<1> QED
  BY <1>1, <1>2, <1>3

LEMMA ViewOfNone ==
  ASSUME NEW s
  PROVE  /\ Orderly(<<>>) /\ OpsIn(<<>>, s) = {} /\ ~GivesIn(<<>>, s) /\ ClearsIn(<<>>, s) = {} /\ LateIn(<<>>, s) = {}
         /\ \A r : DueIn(<<>>, s, r) = 0
<1>1. DOMAIN <<>> = {}
  OBVIOUS
<1> QED
  BY <1>1, SumEmpty DEF Orderly, OpsIn, GivesIn, ClearsIn, LateIn, DueIn

LEMMA ViewOfOne ==
  ASSUME NEW f \in Frame, NEW s, NEW r
  PROVE  /\ Orderly(<<f>>) /\ LateIn(<<f>>, s) = {}
         /\ OpsIn(<<f>>, s) = IF f.s = s /\ IsThread(f) THEN {f.op} ELSE {}
         /\ GivesIn(<<f>>, s) <=> f.s = s /\ IsGive(f)
         /\ ClearsIn(<<f>>, s) = IF f.s = s /\ IsClear(f) THEN {f.r} ELSE {}
         /\ DueIn(<<f>>, s, r) = DueAt(f, s, r)
<1>1. DOMAIN <<f>> = {1} /\ <<f>>[1] = f
  OBVIOUS
<1>2. DueIn(<<f>>, s, r) = DueAt(f, s, r)
  <2> DEFINE g == [i \in DOMAIN <<f>> |-> DueAt(<<f>>[i], s, r)]
  <2>1. g[1] = DueAt(f, s, r) /\ DueAt(f, s, r) \in Int
    BY <1>1, FrameIs DEF DueAt
  <2> HIDE DEF g
  <2>2. IsFiniteSet({}) /\ {} \cup {1} = {1} /\ 1 \notin {}
    BY FS_EmptySet
  <2>3. SumFunctionOnSet(g, {} \cup {1}) = g[1] + SumFunctionOnSet(g, {})
    BY <2>1, <2>2, SumAdd
  <2> QED
    BY <1>1, <2>1, <2>2, <2>3, SumEmpty DEF DueIn, g
<1>3. Orderly(<<f>>)
  BY <1>1 DEF Orderly
<1>4. LateIn(<<f>>, s) = {}
  BY <1>1 DEF LateIn
<1> QED
  BY <1>1, <1>2, <1>3, <1>4 DEF OpsIn, GivesIn, ClearsIn

LEMMA ViewOfConcat ==
  ASSUME NEW a \in Seq(Frame), NEW b \in Seq(Frame), NEW s
  PROVE  /\ OpsIn(a \o b, s) = OpsIn(a, s) \cup OpsIn(b, s)
         /\ GivesIn(a \o b, s) <=> GivesIn(a, s) \/ GivesIn(b, s)
         /\ ClearsIn(a \o b, s) = ClearsIn(a, s) \cup ClearsIn(b, s)
         /\ LateIn(a \o b, s) = LateIn(a, s) \cup LateIn(b, s) \cup (IF OpsIn(a, s) # {} THEN ClearsIn(b, s) ELSE {})
<1> DEFINE c == a \o b
<1>1. /\ Len(a) \in Nat /\ DOMAIN a = 1 .. Len(a) /\ DOMAIN b = 1 .. Len(b) /\ Len(b) \in Nat
      /\ DOMAIN c = 1 .. Len(a) + Len(b)
      /\ \A i \in DOMAIN a : i \in DOMAIN c /\ c[i] = a[i]
      /\ \A j \in DOMAIN b : Len(a) + j \in DOMAIN c /\ c[Len(a) + j] = b[j]
      /\ \A k \in DOMAIN c : (k \in DOMAIN a /\ c[k] = a[k]) \/ (k > Len(a) /\ k - Len(a) \in DOMAIN b /\ c[k] = b[k - Len(a)])
  BY Concat
<1> HIDE DEF c
<1>2. OpsIn(c, s) = OpsIn(a, s) \cup OpsIn(b, s)
  BY <1>1 DEF OpsIn
<1>3. ClearsIn(c, s) = ClearsIn(a, s) \cup ClearsIn(b, s)
  BY <1>1 DEF ClearsIn
<1>4. GivesIn(c, s) <=> GivesIn(a, s) \/ GivesIn(b, s)
  BY <1>1 DEF GivesIn
<1>5. LateIn(c, s) \subseteq LateIn(a, s) \cup LateIn(b, s) \cup (IF OpsIn(a, s) # {} THEN ClearsIn(b, s) ELSE {})
  <2> SUFFICES ASSUME NEW k \in DOMAIN c, c[k].s = s, IsClear(c[k]), NEW i \in DOMAIN c, i < k, c[i].s = s, IsThread(c[i])
               PROVE  c[k].r \in LateIn(a, s) \cup LateIn(b, s) \cup (IF OpsIn(a, s) # {} THEN ClearsIn(b, s) ELSE {})
    BY DEF LateIn
  <2>1. CASE k \in DOMAIN a
    <3>1. i \in DOMAIN a /\ c[k] = a[k] /\ c[i] = a[i]
      BY <1>1, <2>1
    <3> QED
      BY <2>1, <3>1 DEF LateIn
  <2>2. CASE k \notin DOMAIN a
    <3>1. k - Len(a) \in DOMAIN b /\ c[k] = b[k - Len(a)]
      BY <1>1, <2>2
    <3>2. CASE i \in DOMAIN a
      <4>0. c[i] = a[i]
        BY <1>1, <3>2
      <4>1. a[i].op \in OpsIn(a, s)
        BY <3>2, <4>0 DEF OpsIn
      <4>2. b[k - Len(a)].s = s /\ IsClear(b[k - Len(a)])
        BY <3>1
      <4>3. c[k].r \in ClearsIn(b, s)
        BY <3>1, <4>2 DEF ClearsIn
      <4> QED
        BY <4>1, <4>3
    <3>3. CASE i \notin DOMAIN a
      <4>1. i - Len(a) \in DOMAIN b /\ c[i] = b[i - Len(a)] /\ i - Len(a) < k - Len(a)
        BY <1>1, <3>3
      <4>2. c[k].r \in LateIn(b, s)
        BY <3>1, <4>1 DEF LateIn
      <4> QED
        BY <4>2
    <3> QED
      BY <3>2, <3>3
  <2> QED
    BY <2>1, <2>2
<1>6. LateIn(a, s) \subseteq LateIn(c, s)
  BY <1>1 DEF LateIn
<1>7. LateIn(b, s) \subseteq LateIn(c, s)
  <2> SUFFICES ASSUME NEW k \in DOMAIN b, b[k].s = s, IsClear(b[k]), NEW i \in DOMAIN b, i < k, b[i].s = s, IsThread(b[i])
               PROVE  b[k].r \in LateIn(c, s)
    BY DEF LateIn
  <2>1. /\ Len(a) + k \in DOMAIN c /\ c[Len(a) + k] = b[k] /\ Len(a) + i \in DOMAIN c /\ c[Len(a) + i] = b[i]
        /\ Len(a) + i < Len(a) + k
    BY <1>1
  <2> QED
    BY <2>1 DEF LateIn
<1>8. ASSUME OpsIn(a, s) # {}
      PROVE  ClearsIn(b, s) \subseteq LateIn(c, s)
  <2> SUFFICES ASSUME NEW k \in DOMAIN b, b[k].s = s, IsClear(b[k])
               PROVE  b[k].r \in LateIn(c, s)
    BY DEF ClearsIn
  <2>1. PICK i \in DOMAIN a : a[i].s = s /\ IsThread(a[i])
    BY <1>8 DEF OpsIn
  <2>2. /\ Len(a) + k \in DOMAIN c /\ c[Len(a) + k] = b[k] /\ i \in DOMAIN c /\ c[i] = a[i] /\ i < Len(a) + k
    BY <1>1
  <2> QED
    BY <2>1, <2>2 DEF LateIn
<1> QED
  BY <1>2, <1>3, <1>4, <1>5, <1>6, <1>7, <1>8 DEF c

LEMMA DueOfConcat ==
  ASSUME NEW a \in Seq(Frame), NEW b \in Seq(Frame), NEW s, NEW r
  PROVE  /\ DueIn(a, s, r) \in Nat /\ DueIn(b, s, r) \in Nat
         /\ DueIn(a \o b, s, r) = DueIn(a, s, r) + DueIn(b, s, r)
<1> DEFINE c == a \o b
           F(q) == [i \in DOMAIN q |-> DueAt(q[i], s, r)]
           m == Len(a)
           Up(T) == {m + k : k \in T}
           G == {T \in SUBSET DOMAIN b : SumFunctionOnSet(F(c), DOMAIN a \cup Up(T))
                                         = SumFunctionOnSet(F(a), DOMAIN a) + SumFunctionOnSet(F(b), T)}
<1>1. /\ m \in Nat /\ DOMAIN a = 1 .. m /\ DOMAIN b = 1 .. Len(b) /\ Len(b) \in Nat
      /\ DOMAIN c = 1 .. m + Len(b) /\ \A i \in DOMAIN c : c[i] \in Frame
      /\ \A i \in DOMAIN a : i \in DOMAIN c /\ c[i] = a[i] /\ a[i] \in Frame
      /\ \A j \in DOMAIN b : m + j \in DOMAIN c /\ c[m + j] = b[j] /\ b[j] \in Frame
  BY Concat
<1> HIDE DEF c, m
<1>2. \A f \in Frame : DueAt(f, s, r) \in Nat
  BY FrameIs DEF DueAt
<1>3. /\ \A i \in DOMAIN c : F(c)[i] \in Nat
      /\ \A i \in DOMAIN a : F(a)[i] \in Nat /\ F(c)[i] = F(a)[i]
      /\ \A j \in DOMAIN b : F(b)[j] \in Nat /\ F(c)[m + j] = F(b)[j]
  BY <1>1, <1>2
<1>4. IsFiniteSet(DOMAIN a) /\ IsFiniteSet(DOMAIN b)
  BY <1>1, FS_Interval
<1>5. SumFunctionOnSet(F(a), DOMAIN a) \in Nat /\ SumFunctionOnSet(F(b), DOMAIN b) \in Nat
  BY <1>3, <1>4, SumNat
<1> HIDE DEF F
<1>6. {} \in G
  <2>1. DOMAIN a \cup Up({}) = DOMAIN a
    OBVIOUS
  <2>2. \A i \in DOMAIN a : F(c)[i] \in Int /\ F(c)[i] = F(a)[i]
    BY <1>3
  <2>3. SumFunctionOnSet(F(c), DOMAIN a) = SumFunctionOnSet(F(a), DOMAIN a)
    BY <1>4, <2>2, SumSame
  <2> QED
    BY <1>5, <2>1, <2>3, SumEmpty
<1>7. ASSUME NEW T \in SUBSET DOMAIN b, NEW x \in (DOMAIN b) \ T, T \in G
      PROVE  T \cup {x} \in G
  <2> DEFINE V == DOMAIN a \cup Up(T)
  <2>1. IsFiniteSet(T)
    BY <1>4, FS_Subset
  <2>2. V \subseteq 1 .. m + Len(b) /\ m + x \notin V /\ DOMAIN a \cup Up(T \cup {x}) = V \cup {m + x}
    BY <1>1, <1>7
  <2>3. IsFiniteSet(1 .. m + Len(b))
    BY <1>1, FS_Interval
  <2>31. IsFiniteSet(V) /\ V \cup {m + x} \subseteq DOMAIN c
    BY <1>1, <2>2, <2>3, FS_Subset
  <2>4. (\A i \in V \cup {m + x} : F(c)[i] \in Int) /\ \A j \in T \cup {x} : F(b)[j] \in Int
    BY <1>3, <2>31
  <2> HIDE DEF V
  <2>5. SumFunctionOnSet(F(c), V \cup {m + x}) = F(c)[m + x] + SumFunctionOnSet(F(c), V)
    BY <2>2, <2>31, <2>4, SumAdd
  <2>6. SumFunctionOnSet(F(b), T \cup {x}) = F(b)[x] + SumFunctionOnSet(F(b), T)
    BY <2>1, <2>4, <1>7, SumAdd
  <2>7. SumFunctionOnSet(F(b), T) \in Int
    BY <2>1, <2>4, SumType
  <2>8. SumFunctionOnSet(F(c), V) = SumFunctionOnSet(F(a), DOMAIN a) + SumFunctionOnSet(F(b), T)
    BY <1>7 DEF V
  <2>9. F(c)[m + x] = F(b)[x] /\ F(b)[x] \in Int
    BY <1>3
  <2>10. SumFunctionOnSet(F(c), V \cup {m + x}) = SumFunctionOnSet(F(a), DOMAIN a) + SumFunctionOnSet(F(b), T \cup {x})
    BY <1>5, <2>5, <2>6, <2>7, <2>8, <2>9
  <2> QED
    BY <2>2, <2>10
<1>8. SUBSET (DOMAIN b) \subseteq G
  <2> HIDE DEF G
  <2> QED
    BY <1>4, <1>6, <1>7, SetInduction, ZenonT(40)
<1>9. DOMAIN a \cup Up(DOMAIN b) = DOMAIN c
  <2>1. ASSUME NEW i \in DOMAIN c, i \notin DOMAIN a
        PROVE  i \in Up(DOMAIN b)
    <3>1. i - m \in DOMAIN b /\ m + (i - m) = i
      BY <1>1, <2>1
    <3> QED
      BY <3>1
  <2> QED
    BY <1>1, <2>1
<1>10. DOMAIN b \in G
  BY <1>8
<1> QED
  BY <1>5, <1>9, <1>10 DEF DueIn, F, c

\* Frames above b that do not clash with any of b's.
LEMMA Stacked ==
  ASSUME NEW a \in Seq(Frame), NEW b \in Seq(Frame), Orderly(a), Orderly(b),
         \A i \in DOMAIN a : IsThread(a[i]) \/ IsClear(a[i]) => OpsIn(b, a[i].s) = {} /\ ~GivesIn(b, a[i].s)
  PROVE  Orderly(a \o b)
<1> DEFINE c == a \o b
<1>1. /\ Len(a) \in Nat /\ DOMAIN a = 1 .. Len(a) /\ DOMAIN b = 1 .. Len(b) /\ Len(b) \in Nat
      /\ DOMAIN c = 1 .. Len(a) + Len(b)
      /\ \A k \in DOMAIN c : (k \in DOMAIN a /\ c[k] = a[k]) \/ (k > Len(a) /\ k - Len(a) \in DOMAIN b /\ c[k] = b[k - Len(a)])
  BY Concat
<1> HIDE DEF c
<1> SUFFICES ASSUME NEW i \in DOMAIN c, NEW j \in DOMAIN c, i < j, Clash(c[i], c[j])
             PROVE  FALSE
  BY DEF Orderly, c
<1>2. CASE j \in DOMAIN a
  <2>1. i \in DOMAIN a /\ c[i] = a[i] /\ c[j] = a[j]
    BY <1>1, <1>2
  <2> QED
    BY <2>1, <1>2 DEF Orderly
<1>3. CASE i \notin DOMAIN a
  <2>1. /\ i - Len(a) \in DOMAIN b /\ c[i] = b[i - Len(a)] /\ j - Len(a) \in DOMAIN b /\ c[j] = b[j - Len(a)]
        /\ i - Len(a) < j - Len(a)
    BY <1>1, <1>3
  <2> QED
    BY <2>1 DEF Orderly
<1>4. CASE i \in DOMAIN a /\ j \notin DOMAIN a
  <2>1. c[i] = a[i] /\ j - Len(a) \in DOMAIN b /\ c[j] = b[j - Len(a)]
    BY <1>1, <1>4
  <2> DEFINE f == a[i]
             g == b[j - Len(a)]
  <2>2. f.s = g.s /\ (IsThread(f) \/ IsClear(f)) /\ (IsThread(g) \/ IsGive(g))
    BY <2>1 DEF Clash
  <2>3. OpsIn(b, g.s) = {} /\ ~GivesIn(b, g.s)
    BY <1>4, <2>2
  <2>4. CASE IsThread(g)
    <3>1. g.op \in OpsIn(b, g.s)
      BY <2>1, <2>4 DEF OpsIn
    <3> QED
      BY <2>3, <3>1
  <2>5. CASE IsGive(g)
    BY <2>1, <2>3, <2>5 DEF GivesIn
  <2> QED
    BY <2>2, <2>4, <2>5
<1> QED
  BY <1>2, <1>3, <1>4

LEMMA NoneLate ==
  ASSUME NEW q, NEW s, OpsIn(q, s) = {}
  PROVE  LateIn(q, s) = {}
BY DEF LateIn, OpsIn

LEMMA LateAreClears ==
  ASSUME NEW q, NEW s
  PROVE  LateIn(q, s) \subseteq ClearsIn(q, s)
BY DEF LateIn, ClearsIn

\* Frames without gives of s.
LEMMA NothingDue ==
  ASSUME NEW q \in Seq(Frame), NEW s, ~GivesIn(q, s), NEW r
  PROVE  DueIn(q, s, r) = 0
<1> DEFINE F == [i \in DOMAIN q |-> DueAt(q[i], s, r)]
<1>1. \A i \in DOMAIN q : F[i] = 0
  BY DEF DueAt, GivesIn, IsGive, All
<1>2. IsFiniteSet(DOMAIN q)
  BY LenProperties, FS_Interval
<1> HIDE DEF F
<1> QED
  BY <1>1, <1>2, SumZero DEF DueIn, F

-----------------------------------------------------------------------------
(* Frames that a call of s pushes: what it gives back, what it clears, and *)
(* last how it goes on.                                                    *)

Own(f, s) == f.s = s \/ (~IsThread(f) /\ f.op # "give")
Volley(a, s, ops, gives, clears) ==
  /\ a \in Seq(Frame) /\ Orderly(a) /\ LateIn(a, s) = {}
  /\ \A i \in DOMAIN a : Own(a[i], s)
  /\ OpsIn(a, s) = ops /\ (GivesIn(a, s) => gives) /\ ClearsIn(a, s) = clears

LEMMA VolleyNone == \A s : Volley(<<>>, s, {}, FALSE, {})
BY ViewOfNone DEF Volley

LEMMA VolleyCall ==
  ASSUME NEW s \in Sessions, NEW op \in ThreadOps
  PROVE  Volley(<<Call(op, s)>>, s, {op}, FALSE, {})
<1>1. Call(op, s) \in Frame /\ Call(op, s).op = op /\ Call(op, s).s = s
  BY CallIs
<1>2. "give" \notin ThreadOps
  BY DEF ThreadOps
<1> DEFINE f == Call(op, s)
<1> HIDE DEF f
<1>3. <<f>> \in Seq(Frame) /\ \A i \in DOMAIN <<f>> : <<f>>[i] = f
  BY <1>1 DEF f
<1>4. f \in Frame /\ f.s = s /\ f.op = op /\ IsThread(f) /\ ~IsGive(f) /\ ~IsClear(f)
  BY <1>1, <1>2 DEF IsThread, IsGive, IsClear, f
<1>5. /\ Orderly(<<f>>) /\ LateIn(<<f>>, s) = {} /\ OpsIn(<<f>>, s) = {op}
      /\ ~GivesIn(<<f>>, s) /\ ClearsIn(<<f>>, s) = {}
  BY <1>4, ViewOfOne
<1>6. Volley(<<f>>, s, {op}, FALSE, {})
  BY <1>3, <1>4, <1>5 DEF Volley, Own
<1> QED
  BY <1>6 DEF f

LEMMA VolleyNeutral ==
  ASSUME NEW f \in Frame, ~IsThread(f), f.op # "give", NEW s
  PROVE  Volley(<<f>>, s, {}, FALSE, {})
<1>1. <<f>> \in Seq(Frame) /\ \A i \in DOMAIN <<f>> : <<f>>[i] = f
  OBVIOUS
<1> QED
  BY <1>1, ViewOfOne DEF Volley, Own, IsGive, IsClear

LEMMA VolleyGive ==
  ASSUME NEW s \in Sessions, NEW r \in Units, NEW amt \in Nat
  PROVE  Volley(<<Give(s, r, amt)>>, s, {}, amt # All, IF amt = All THEN {r} ELSE {})
<1> DEFINE f == Give(s, r, amt)
<1>1. f \in Frame /\ f.op = "give" /\ f.s = s /\ f.r = r /\ f.amt = amt
  BY GiveIs
<1> HIDE DEF f
<1>2. <<f>> \in Seq(Frame) /\ \A i \in DOMAIN <<f>> : <<f>>[i] = f
  BY <1>1
<1>3. ~IsThread(f)
  BY <1>1 DEF IsThread, ThreadOps
<1>4. Volley(<<f>>, s, {}, amt # All, IF amt = All THEN {r} ELSE {})
  BY <1>1, <1>2, <1>3, ViewOfOne DEF Volley, Own, IsGive, IsClear
<1> QED
  BY <1>4 DEF f

LEMMA VolleyConcat ==
  ASSUME NEW a, NEW b, NEW s, NEW ops, NEW g1 \in BOOLEAN, NEW g2 \in BOOLEAN, NEW c1, NEW c2,
         Volley(a, s, {}, g1, c1), Volley(b, s, ops, g2, c2), c1 = {} \/ ~g2, NEW g \in BOOLEAN, g1 => g, g2 => g
  PROVE  Volley(a \o b, s, ops, g, c1 \cup c2)
<1>1. a \in Seq(Frame) /\ b \in Seq(Frame) /\ OpsIn(a, s) = {}
  BY DEF Volley
<1> DEFINE c == a \o b
<1>2. /\ c \in Seq(Frame) /\ Len(a) \in Nat /\ DOMAIN a = 1 .. Len(a) /\ DOMAIN b = 1 .. Len(b) /\ Len(b) \in Nat
      /\ DOMAIN c = 1 .. Len(a) + Len(b)
      /\ \A k \in DOMAIN c : (k \in DOMAIN a /\ c[k] = a[k]) \/ (k > Len(a) /\ k - Len(a) \in DOMAIN b /\ c[k] = b[k - Len(a)])
  BY <1>1, Concat
<1>31. /\ OpsIn(c, s) = OpsIn(a, s) \cup OpsIn(b, s) /\ (GivesIn(c, s) <=> GivesIn(a, s) \/ GivesIn(b, s))
       /\ ClearsIn(c, s) = ClearsIn(a, s) \cup ClearsIn(b, s)
       /\ LateIn(c, s) = LateIn(a, s) \cup LateIn(b, s) \cup (IF OpsIn(a, s) # {} THEN ClearsIn(b, s) ELSE {})
  BY <1>1, ViewOfConcat
<1>32. /\ OpsIn(b, s) = ops /\ (GivesIn(a, s) => g1) /\ (GivesIn(b, s) => g2)
       /\ ClearsIn(a, s) = c1 /\ ClearsIn(b, s) = c2 /\ LateIn(a, s) = {} /\ LateIn(b, s) = {}
  BY DEF Volley
<1> HIDE DEF c
<1>3. /\ OpsIn(c, s) = ops /\ (GivesIn(c, s) => g) /\ ClearsIn(c, s) = c1 \cup c2 /\ LateIn(c, s) = {}
  <2>1. OpsIn(c, s) = ops
    BY <1>1, <1>31, <1>32
  <2>2. GivesIn(c, s) => g
    BY <1>31, <1>32
  <2>3. ClearsIn(c, s) = c1 \cup c2
    BY <1>31, <1>32
  <2>4. LateIn(c, s) = {}
    BY <1>1, <1>31, <1>32
  <2> QED
    BY <2>1, <2>2, <2>3, <2>4
<1>4. \A k \in DOMAIN c : Own(c[k], s)
  BY <1>2 DEF Volley
<1>5. ASSUME NEW i \in DOMAIN c, NEW j \in DOMAIN c, i < j, Clash(c[i], c[j])
      PROVE  FALSE
  <2>1. CASE j \in DOMAIN a
    <3>1. i \in DOMAIN a /\ c[i] = a[i] /\ c[j] = a[j]
      BY <1>2, <2>1, <1>5
    <3> QED
      BY <2>1, <3>1, <1>5 DEF Volley, Orderly
  <2>2. CASE i \notin DOMAIN a
    <3>1. /\ i - Len(a) \in DOMAIN b /\ c[i] = b[i - Len(a)] /\ j - Len(a) \in DOMAIN b /\ c[j] = b[j - Len(a)]
          /\ i - Len(a) < j - Len(a)
      BY <1>2, <2>2, <1>5
    <3> QED
      BY <3>1, <1>5 DEF Volley, Orderly
  <2>3. CASE i \in DOMAIN a /\ j \notin DOMAIN a
    <3>1. c[i] = a[i] /\ j - Len(a) \in DOMAIN b /\ c[j] = b[j - Len(a)]
      BY <1>2, <2>3
    <3> DEFINE f == a[i]
               h == b[j - Len(a)]
    <3>2. f.s = h.s /\ \/ IsThread(f) \/ (IsClear(f) /\ IsGive(h))
      BY <3>1, <1>5 DEF Clash
    <3>3. f.s = s
      BY <3>2, <2>3 DEF Volley, Own, IsClear
    <3>4. ~IsThread(f)
      <4>1. IsThread(f) => f.op \in OpsIn(a, s)
        BY <2>3, <3>3 DEF OpsIn
      <4> QED
        BY <1>1, <4>1
    <3>5. f.r \in c1
      <4>1. f.r \in ClearsIn(a, s)
        BY <2>3, <3>2, <3>3, <3>4 DEF ClearsIn
      <4> QED
        BY <4>1 DEF Volley
    <3>6. g2
      <4>1. GivesIn(b, s)
        BY <3>1, <3>2, <3>3, <3>4 DEF GivesIn
      <4> QED
        BY <4>1 DEF Volley
    <3> QED
      BY <3>5, <3>6
  <2> QED
    BY <2>1, <2>2, <2>3
<1>6. Orderly(c)
  BY <1>5 DEF Orderly
<1> QED
  BY <1>2, <1>3, <1>4, <1>6 DEF Volley, c

\* _return_partial.
LEMMA VolleyEach ==
  ASSUME NEW s \in Sessions, NEW part \in Parts, \A i \in DOMAIN part : part[i][2] > 0
  PROVE  /\ Volley(GiveEach(s, part), s, {}, TRUE, {})
         /\ \A r \in Units : DueIn(GiveEach(s, part), s, r) = Amount(part, r)
         /\ part = <<>> => GiveEach(s, part) = <<>>
<1> DEFINE a == GiveEach(s, part)
<1>1. Len(part) \in Nat /\ DOMAIN part = 1 .. Len(part) /\ \A i \in DOMAIN part : part[i] \in Units \X Nat
  BY DEF Parts
<1>2. \A i \in DOMAIN part : part[i][1] \in Units /\ part[i][2] \in Nat /\ part[i][2] # All
  BY <1>1 DEF All
<1>3. DOMAIN a = DOMAIN part /\ \A i \in DOMAIN part : a[i] = Give(s, part[i][1], part[i][2])
  BY DEF GiveEach
<1>30. a = [i \in 1 .. Len(part) |-> Give(s, part[i][1], part[i][2])]
  BY <1>1 DEF GiveEach
<1> HIDE DEF a
<1>4. \A i \in DOMAIN part : a[i] \in Frame /\ a[i].op = "give" /\ a[i].s = s /\ a[i].r = part[i][1] /\ a[i].amt = part[i][2]
  BY <1>2, <1>3, GiveIs
<1>5. a \in Seq(Frame)
  BY <1>1, <1>3, <1>4, <1>30
<1>6. \A i \in DOMAIN a : ~IsThread(a[i]) /\ ~IsClear(a[i]) /\ Own(a[i], s)
  BY <1>2, <1>3, <1>4 DEF IsThread, ThreadOps, IsClear, Own
<1>7. Orderly(a) /\ OpsIn(a, s) = {} /\ ClearsIn(a, s) = {}
  BY <1>6 DEF Orderly, Clash, OpsIn, ClearsIn
<1>8. Volley(a, s, {}, TRUE, {})
  BY <1>5, <1>6, <1>7, NoneLate DEF Volley
<1>9. ASSUME NEW r \in Units
      PROVE  DueIn(a, s, r) = Amount(part, r)
  <2>1. [i \in DOMAIN a |-> DueAt(a[i], s, r)] = [i \in DOMAIN part |-> IF part[i][1] = r THEN part[i][2] ELSE 0]
    BY <1>3, <1>4 DEF DueAt
  <2> QED
    BY <1>3, <2>1 DEF DueIn, Amount
<1>10. part = <<>> => a = <<>>
  BY <1>3, <1>5
<1> QED
  BY <1>8, <1>9, <1>10 DEF a

\* _release of what a program holds of r, and _end_session's of all of it.
LEMMA VolleyHeld ==
  ASSUME NEW s \in Sessions, NEW r \in Units, prog[s].holds[r] \in Nat
  PROVE  Volley(GiveHeld(s, r), s, {}, FALSE, IF prog[s].holds[r] > 0 THEN {r} ELSE {})
<1>1. Volley(<<Give(s, r, All)>>, s, {}, FALSE, {r})
  <2>1. Volley(<<Give(s, r, 0)>>, s, {}, 0 # All, IF 0 = All THEN {r} ELSE {})
    BY VolleyGive
  <2> QED
    BY <2>1 DEF All
<1> QED
  BY <1>1, VolleyNone DEF GiveHeld

LEMMA VolleyHolds ==
  ASSUME NEW s \in Sessions, prog[s].holds \in Bags
  PROVE  Volley(GiveHolds(s), s, {}, FALSE, {r \in Units : prog[s].holds[r] > 0})
<1> DEFINE C(r) == IF prog[s].holds[r] > 0 THEN {r} ELSE {}
<1>1. \A r \in Units : prog[s].holds[r] \in Nat
  BY DEF Bags
<1>2. \A r \in Units : Volley(GiveHeld(s, r), s, {}, FALSE, C(r))
  BY <1>1, VolleyHeld
<1> HIDE DEF C
<1>3. {"slots", "mem", "cpu", "ext", "ret"} = Units
  BY UnitsAre
<1>4. Volley(GiveSlot(s) \o GiveHeld(s, "mem"), s, {}, FALSE, C("slots") \cup C("mem"))
  BY <1>2, <1>3, VolleyConcat DEF GiveSlot
<1>5. Volley(GiveSlot(s) \o GiveHeld(s, "mem") \o GiveHeld(s, "cpu"), s, {}, FALSE,
             (C("slots") \cup C("mem")) \cup C("cpu"))
  BY <1>2, <1>3, <1>4, VolleyConcat
<1>6. Volley(GiveSlot(s) \o GiveHeld(s, "mem") \o GiveHeld(s, "cpu") \o GiveHeld(s, "ext"), s, {}, FALSE,
             ((C("slots") \cup C("mem")) \cup C("cpu")) \cup C("ext"))
  BY <1>2, <1>3, <1>5, VolleyConcat
<1>7. Volley(GiveHolds(s), s, {}, FALSE,
             (((C("slots") \cup C("mem")) \cup C("cpu")) \cup C("ext")) \cup C("ret"))
  BY <1>2, <1>3, <1>6, VolleyConcat DEF GiveHolds
<1>8. (((C("slots") \cup C("mem")) \cup C("cpu")) \cup C("ext")) \cup C("ret") = {r \in Units : prog[s].holds[r] > 0}
  BY <1>3 DEF C
<1> QED
  BY <1>7, <1>8

LEMMA VolleyWeaker ==
  ASSUME NEW a, NEW s, NEW ops, NEW g, NEW h, NEW c, Volley(a, s, ops, g, c), g => h
  PROVE  Volley(a, s, ops, h, c)
BY DEF Volley

\* _finish_step_holds.
LEMMA VolleyUnit ==
  ASSUME NEW s \in Sessions, NEW r \in Units, pend[s].own[r] \in Nat
  PROVE  /\ Volley(GiveUnit(s, r), s, {}, TRUE, {})
         /\ \A q \in Units : DueIn(GiveUnit(s, r), s, q) = IF q = r THEN pend[s].own[r] ELSE 0
         /\ GiveUnit(s, r) \in Seq(Frame)
<1>1. CASE pend[s].own[r] = 0
  <2>1. GiveUnit(s, r) = <<>>
    BY <1>1 DEF GiveUnit
  <2>2. Volley(<<>>, s, {}, TRUE, {})
    BY VolleyNone, VolleyWeaker
  <2>3. \A q \in Units : DueIn(<<>>, s, q) = IF q = r THEN pend[s].own[r] ELSE 0
    BY <1>1, ViewOfNone
  <2>4. <<>> \in Seq(Frame)
    OBVIOUS
  <2> QED
    BY <2>1, <2>2, <2>3, <2>4
<1>2. CASE pend[s].own[r] # 0
  <2> DEFINE f == Give(s, r, pend[s].own[r])
  <2>1. GiveUnit(s, r) = <<f>>
    <3>1. pend[s].own[r] > 0
      BY <1>2
    <3> QED
      BY <3>1 DEF GiveUnit
  <2>2. Volley(<<f>>, s, {}, pend[s].own[r] # All, IF pend[s].own[r] = All THEN {r} ELSE {})
    BY VolleyGive
  <2>3. Volley(<<f>>, s, {}, TRUE, {})
    <3>1. pend[s].own[r] # All
      BY <1>2 DEF All
    <3> HIDE DEF f
    <3>2. Volley(<<f>>, s, {}, pend[s].own[r] # All, {})
      BY <2>2, <3>1
    <3> QED
      BY <3>1, <3>2, VolleyWeaker
  <2>4. f \in Frame /\ f.op = "give" /\ f.s = s /\ f.r = r /\ f.amt = pend[s].own[r]
    BY GiveIs
  <2> HIDE DEF f
  <2>5. \A q \in Units : DueIn(<<f>>, s, q) = IF q = r THEN pend[s].own[r] ELSE 0
    BY <2>4, ViewOfOne DEF DueAt
  <2>6. <<f>> \in Seq(Frame)
    BY <2>4
  <2> QED
    BY <2>1, <2>3, <2>5, <2>6
<1> QED
  BY <1>1, <1>2

LEMMA VolleyOwn ==
  ASSUME NEW s \in Sessions, pend[s].own \in Bags
  PROVE  /\ Volley(GiveOwn(s), s, {}, TRUE, {})
         /\ \A q \in Units : DueIn(GiveOwn(s), s, q) = IF q \in {"ext", "ret", "cpu"} THEN pend[s].own[q] ELSE 0
<1>1. \A r \in Units : pend[s].own[r] \in Nat
  BY DEF Bags
<1>2. "ext" \in Units /\ "ret" \in Units /\ "cpu" \in Units
  BY UnitsAre
<1> DEFINE a == GiveUnit(s, "ext")
           b == GiveUnit(s, "ret")
           c == GiveUnit(s, "cpu")
<1>3. /\ Volley(a, s, {}, TRUE, {}) /\ Volley(b, s, {}, TRUE, {}) /\ Volley(c, s, {}, TRUE, {})
      /\ a \in Seq(Frame) /\ b \in Seq(Frame) /\ c \in Seq(Frame)
      /\ \A q \in Units : /\ DueIn(a, s, q) = IF q = "ext" THEN pend[s].own["ext"] ELSE 0
                          /\ DueIn(b, s, q) = IF q = "ret" THEN pend[s].own["ret"] ELSE 0
                          /\ DueIn(c, s, q) = IF q = "cpu" THEN pend[s].own["cpu"] ELSE 0
  BY <1>1, <1>2, VolleyUnit
<1> HIDE DEF a, b, c
<1>4. Volley(a \o b, s, {}, TRUE, {} \cup {})
  BY <1>3, VolleyConcat
<1>5. Volley(a \o b \o c, s, {}, TRUE, ({} \cup {}) \cup {})
  BY <1>3, <1>4, VolleyConcat
<1>6. \A q \in Units : DueIn(a \o b \o c, s, q) = DueIn(a, s, q) + DueIn(b, s, q) + DueIn(c, s, q)
  <2>1. a \o b \in Seq(Frame)
    BY <1>3, Concat
  <2> SUFFICES ASSUME NEW q \in Units
               PROVE  DueIn(a \o b \o c, s, q) = DueIn(a, s, q) + DueIn(b, s, q) + DueIn(c, s, q)
    OBVIOUS
  <2>2. DueIn(a \o b, s, q) = DueIn(a, s, q) + DueIn(b, s, q)
    BY <1>3, DueOfConcat
  <2>3. DueIn((a \o b) \o c, s, q) = DueIn(a \o b, s, q) + DueIn(c, s, q)
    <3> DEFINE d == a \o b
    <3>1. d \in Seq(Frame)
      BY <2>1
    <3> HIDE DEF d
    <3>2. DueIn(d \o c, s, q) = DueIn(d, s, q) + DueIn(c, s, q)
      BY <1>3, <3>1, DueOfConcat
    <3> QED
      BY <3>2 DEF d
  <2> QED
    BY <2>2, <2>3
<1>7. \A q \in Units : DueIn(a \o b \o c, s, q) = IF q \in {"ext", "ret", "cpu"} THEN pend[s].own[q] ELSE 0
  BY <1>1, <1>3, <1>6
<1> QED
  BY <1>5, <1>7 DEF GiveOwn, a, b, c

\* _wake, unless a loop of the same resource is running.
LEMMA VolleyWaking ==
  ASSUME world \in Worlds, NEW r \in Units \cup {"kv"}, NEW rest, NEW s
  PROVE  Volley(Waking(r, rest), s, {}, FALSE, {})
<1>1. Wake(r) \in Frame /\ ~IsThread(Wake(r)) /\ Wake(r).op # "give"
  BY WakeIs DEF IsThread, ThreadOps
<1> QED
  BY <1>1, VolleyNone, VolleyNeutral DEF Waking

-----------------------------------------------------------------------------
(* What a push does to everybody's view of the stack. *)

SameView(q, b, o) ==
  /\ OpsIn(q, o) = OpsIn(b, o) /\ (GivesIn(q, o) <=> GivesIn(b, o)) /\ ClearsIn(q, o) = ClearsIn(b, o)
  /\ LateIn(q, o) = LateIn(b, o)
  /\ \A r : DueIn(q, o, r) = DueIn(b, o, r)

After(q, b, a, s, ops, gives, clears) ==
  /\ q \in Seq(Frame) /\ Orderly(q)
  /\ OpsIn(q, s) = ops /\ (GivesIn(q, s) => gives)
  /\ ClearsIn(q, s) = clears \cup ClearsIn(b, s)
  /\ LateIn(q, s) = IF ops = {} THEN {} ELSE ClearsIn(b, s)
  /\ \A r : DueIn(q, s, r) = DueIn(a, s, r)

\* Frames of s, on a stack without any that would clash.
LEMMA Pushed ==
  ASSUME NEW b \in Seq(Frame), Orderly(b), NEW s, OpsIn(b, s) = {}, ~GivesIn(b, s),
         NEW a, NEW ops, NEW gives \in BOOLEAN, NEW clears, Volley(a, s, ops, gives, clears)
  PROVE  After(a \o b, b, a, s, ops, gives, clears)
<1> DEFINE q == a \o b
<1>1. /\ a \in Seq(Frame) /\ Orderly(a) /\ LateIn(a, s) = {} /\ OpsIn(a, s) = ops /\ ClearsIn(a, s) = clears
      /\ (GivesIn(a, s) => gives) /\ \A i \in DOMAIN a : Own(a[i], s)
  BY DEF Volley
<1>2. q \in Seq(Frame) /\ \A i \in DOMAIN a : a[i] \in Frame
  BY <1>1, Concat
<1>3. Orderly(q)
  <2>1. \A i \in DOMAIN a : IsThread(a[i]) \/ IsClear(a[i]) => a[i].s = s
    BY <1>1 DEF Own, IsClear
  <2> QED
    BY <1>1, <2>1, Stacked
<1>4. LateIn(b, s) = {} /\ \A r : DueIn(b, s, r) = 0
  BY NoneLate, NothingDue
<1>5. /\ OpsIn(q, s) = OpsIn(a, s) \cup OpsIn(b, s) /\ (GivesIn(q, s) <=> GivesIn(a, s) \/ GivesIn(b, s))
      /\ ClearsIn(q, s) = ClearsIn(a, s) \cup ClearsIn(b, s)
      /\ LateIn(q, s) = LateIn(a, s) \cup LateIn(b, s) \cup (IF OpsIn(a, s) # {} THEN ClearsIn(b, s) ELSE {})
  BY <1>1, ViewOfConcat
<1>6. \A r : DueIn(q, s, r) = DueIn(a, s, r)
  <2> SUFFICES ASSUME NEW r PROVE DueIn(q, s, r) = DueIn(a, s, r)
    OBVIOUS
  <2>1. DueIn(a, s, r) \in Nat /\ DueIn(q, s, r) = DueIn(a, s, r) + DueIn(b, s, r)
    BY <1>1, DueOfConcat
  <2> QED
    BY <1>4, <2>1
<1> QED
  BY <1>1, <1>2, <1>3, <1>4, <1>5, <1>6 DEF After

\* Frames of s are not seen by the others.
LEMMA PushedOther ==
  ASSUME NEW b \in Seq(Frame), NEW s, NEW a, NEW ops, NEW gives \in BOOLEAN, NEW clears,
         Volley(a, s, ops, gives, clears), NEW o, o # s
  PROVE  SameView(a \o b, b, o)
<1> DEFINE q == a \o b
<1>1. a \in Seq(Frame) /\ \A i \in DOMAIN a : Own(a[i], s)
  BY DEF Volley
<1>2. \A i \in DOMAIN a : a[i].s = o => ~IsThread(a[i]) /\ ~IsGive(a[i]) /\ ~IsClear(a[i])
  BY <1>1 DEF Own, IsGive, IsClear
<1>3. OpsIn(a, o) = {} /\ ~GivesIn(a, o) /\ ClearsIn(a, o) = {}
  BY <1>2 DEF OpsIn, GivesIn, ClearsIn
<1>4. LateIn(a, o) = {} /\ \A r : DueIn(a, o, r) = 0
  BY <1>1, <1>3, NoneLate, NothingDue
<1>5. /\ OpsIn(q, o) = OpsIn(a, o) \cup OpsIn(b, o) /\ (GivesIn(q, o) <=> GivesIn(a, o) \/ GivesIn(b, o))
      /\ ClearsIn(q, o) = ClearsIn(a, o) \cup ClearsIn(b, o)
      /\ LateIn(q, o) = LateIn(a, o) \cup LateIn(b, o) \cup (IF OpsIn(a, o) # {} THEN ClearsIn(b, o) ELSE {})
  BY <1>1, ViewOfConcat
<1>6. \A r : DueIn(q, o, r) = DueIn(b, o, r)
  <2> SUFFICES ASSUME NEW r PROVE DueIn(q, o, r) = DueIn(b, o, r)
    OBVIOUS
  <2>1. DueIn(b, o, r) \in Nat /\ DueIn(q, o, r) = DueIn(a, o, r) + DueIn(b, o, r)
    BY <1>1, DueOfConcat
  <2> QED
    BY <1>4, <2>1
<1> QED
  BY <1>3, <1>4, <1>5, <1>6 DEF SameView

\* The top frame and the others.
LEMMA HeadIs ==
  ASSUME NEW q \in Seq(Frame), q # <<>>
  PROVE  /\ Head(q) \in Frame /\ Tail(q) \in Seq(Frame) /\ q = <<Head(q)>> \o Tail(q)
         /\ <<Head(q)>> \in Seq(Frame)
         /\ Orderly(q) => /\ Orderly(Tail(q))
                          /\ \A j \in DOMAIN Tail(q) : ~Clash(Head(q), Tail(q)[j])
<1>1. /\ Head(q) \in Frame /\ Tail(q) \in Seq(Frame) /\ Len(Tail(q)) = Len(q) - 1
      /\ \A i \in 1 .. Len(Tail(q)) : Tail(q)[i] = q[i + 1]
  BY HeadTailProperties
<1>2. q = <<Head(q)>> \o Tail(q) /\ <<Head(q)>> \in Seq(Frame) /\ q[1] = Head(q) /\ Len(q) \in Nat \ {0}
  BY <1>1
<1>3. DOMAIN q = 1 .. Len(q) /\ DOMAIN Tail(q) = 1 .. Len(q) - 1
  BY <1>1, LenProperties
<1>4. ASSUME Orderly(q)
      PROVE  Orderly(Tail(q))
  <2> SUFFICES ASSUME NEW i \in DOMAIN Tail(q), NEW j \in DOMAIN Tail(q), i < j
               PROVE  ~Clash(Tail(q)[i], Tail(q)[j])
    BY DEF Orderly
  <2>1. i + 1 \in DOMAIN q /\ j + 1 \in DOMAIN q /\ i + 1 < j + 1 /\ Tail(q)[i] = q[i + 1] /\ Tail(q)[j] = q[j + 1]
    BY <1>1, <1>2, <1>3
  <2> QED
    BY <1>4, <2>1 DEF Orderly
<1>5. ASSUME Orderly(q), NEW j \in DOMAIN Tail(q)
      PROVE  ~Clash(Head(q), Tail(q)[j])
  <2>1. 1 \in DOMAIN q /\ j + 1 \in DOMAIN q /\ 1 < j + 1 /\ Tail(q)[j] = q[j + 1]
    BY <1>1, <1>2, <1>3
  <2> QED
    BY <1>2, <1>5, <2>1 DEF Orderly
<1> QED
  BY <1>1, <1>2, <1>4, <1>5

\* The handler of s is the top frame: nothing of s lies below but what the
\* session clears.
LEMMA TopOf ==
  ASSUME NEW q \in Seq(Frame), Orderly(q), q # <<>>, NEW s, Head(q).s = s, IsThread(Head(q))
  PROVE  /\ s \in Sessions /\ Tail(q) \in Seq(Frame) /\ Orderly(Tail(q))
         /\ OpsIn(Tail(q), s) = {} /\ ~GivesIn(Tail(q), s)
         /\ Volley(<<Head(q)>>, s, {Head(q).op}, FALSE, {})
<1> DEFINE h == Head(q)
           b == Tail(q)
<1>1. /\ h \in Frame /\ b \in Seq(Frame) /\ Orderly(b) /\ <<h>> \in Seq(Frame)
      /\ \A j \in DOMAIN b : ~Clash(h, b[j])
  BY HeadIs
<1>2. h.s = s /\ IsThread(h) /\ ~IsGive(h) /\ ~IsClear(h) /\ h.s \in Sessions
  BY <1>1, FrameIs DEF IsThread, ThreadOps, IsGive, IsClear
<1> HIDE DEF h, b
<1>3. OpsIn(b, s) = {} /\ ~GivesIn(b, s)
  BY <1>1, <1>2 DEF OpsIn, GivesIn, Clash
<1>4. Volley(<<h>>, s, {h.op}, FALSE, {})
  <2>1. \A i \in DOMAIN <<h>> : <<h>>[i] = h
    OBVIOUS
  <2>2. /\ Orderly(<<h>>) /\ LateIn(<<h>>, s) = {} /\ OpsIn(<<h>>, s) = {h.op}
        /\ ~GivesIn(<<h>>, s) /\ ClearsIn(<<h>>, s) = {}
    BY <1>1, <1>2, ViewOfOne
  <2> QED
    BY <1>1, <1>2, <2>1, <2>2 DEF Volley, Own
<1> QED
  BY <1>1, <1>2, <1>3, <1>4 DEF h, b

LEMMA HandlerOf ==
  ASSUME NEW q \in Seq(Frame), Orderly(q), q # <<>>, NEW s, Head(q).s = s, IsThread(Head(q))
  PROVE  /\ s \in Sessions /\ Tail(q) \in Seq(Frame) /\ Orderly(Tail(q))
         /\ OpsIn(q, s) = {Head(q).op} /\ ~GivesIn(q, s) /\ LateIn(q, s) = ClearsIn(q, s)
         /\ OpsIn(Tail(q), s) = {} /\ ~GivesIn(Tail(q), s) /\ ClearsIn(Tail(q), s) = ClearsIn(q, s)
         /\ \A r : DueIn(q, s, r) = 0
<1> DEFINE a == <<Head(q)>>
           b == Tail(q)
<1>1. /\ s \in Sessions /\ b \in Seq(Frame) /\ Orderly(b) /\ OpsIn(b, s) = {} /\ ~GivesIn(b, s)
      /\ Volley(a, s, {Head(q).op}, FALSE, {})
  BY TopOf
<1>2. a \in Seq(Frame) /\ ~GivesIn(a, s)
  BY <1>1 DEF Volley
<1>3. \A r : DueIn(a, s, r) = 0
  BY <1>2, NothingDue
<1>4. q = a \o b
  BY HeadIs
<1> DEFINE ops == {Head(q).op}
           no == FALSE
           none == {}
<1>5. ops # {} /\ no \in BOOLEAN /\ Volley(a, s, ops, no, none) /\ ~no /\ none = {}
  BY <1>1
<1> HIDE DEF a, b, ops, no, none
<1>6. After(a \o b, b, a, s, ops, no, none)
  BY <1>1, <1>5, Pushed
<1>7. /\ OpsIn(q, s) = ops /\ ~GivesIn(q, s) /\ ClearsIn(b, s) = ClearsIn(q, s)
      /\ LateIn(q, s) = ClearsIn(q, s) /\ \A r : DueIn(q, s, r) = 0
  BY <1>3, <1>4, <1>5, <1>6 DEF After
<1> QED
  BY <1>1, <1>7 DEF b, ops

LEMMA HandlerOther ==
  ASSUME NEW q \in Seq(Frame), Orderly(q), q # <<>>, NEW s, Head(q).s = s, IsThread(Head(q)), NEW o, o # s
  PROVE  SameView(q, Tail(q), o)
<1> DEFINE a == <<Head(q)>>
           b == Tail(q)
<1>1. b \in Seq(Frame) /\ Volley(a, s, {Head(q).op}, FALSE, {})
  BY TopOf
<1>2. q = a \o b
  BY HeadIs
<1> DEFINE ops == {Head(q).op}
           no == FALSE
           none == {}
<1>3. no \in BOOLEAN /\ Volley(a, s, ops, no, none)
  BY <1>1
<1> HIDE DEF a, b, ops, no, none
<1>4. SameView(a \o b, b, o)
  BY <1>1, <1>3, PushedOther
<1> QED
  BY <1>2, <1>4 DEF b

-----------------------------------------------------------------------------
(* The flow of a session: how its pending step, its program and its entry  *)
(* in the cache fit the calls of it that are still to be made.             *)

\* While a call of the session is to be made, it neither waits nor runs.
OpFlow(p, g, at, op) ==
  /\ p.mode \in Pausing \cup {"ready", "decode"} /\ ~p.due /\ p.own = Nothing
  /\ g.nap = "no" /\ g.joins = 0 /\ at \notin {"active", "decode"}
  /\ op \in {"try", "throttled", "react", "worked", "fetched"} => p.mode = "ready" /\ g.life = "active"
  /\ op = "chat" => p.mode \in {"off", "think", "join", "ready"} /\ g.life = "active"
  /\ op = "start" => p.mode = "off" /\ g.life = "off"
  /\ op \in {"answered", "next", "spawn", "finish"} => p.mode \in {"decode", "ready"} /\ g.life = "active"
  /\ op \in {"answered", "finish"} => p.step.kind = "chat"
  /\ op \in {"gone", "bury"} => p.mode \in {"decode", "ready"} /\ g.life \in {"done", "aborted"}
  /\ op \notin {"try", "throttled"} => p.part = <<>> /\ ~p.par

FlowOf(p, g, at, ops, gives) ==
  /\ \A op \in ops : OpFlow(p, g, at, op)
  /\ p.due => p.mode = "ready"
  /\ p.flag => p.mode = "waiting"
  /\ p.mode = "waiting" => p.want[1] # "none"
  /\ p.mode \notin {"waiting", "ready"} => p.part = <<>>
  /\ p.mode \in {"prefill", "decode"} => p.step.kind = "chat"
  /\ p.mode \in {"tool", "fetch"} => p.step.kind = p.mode
  /\ p.par => p.mode \in {"ready", "waiting", "tool"}
  /\ p.own # Nothing => p.mode \in {"tool", "fetch"}
  /\ p.mode \in Pausing => p.step.loc = 0
  /\ p.mode = "off" => g.life # "active" \/ "chat" \in ops
  /\ p.mode # "off" => g.life = "active" \/ "gone" \in ops \/ "bury" \in ops
  /\ g.nap # "no" => p.mode = "think"
  /\ p.mode = "join" => g.joins > 0 \/ "chat" \in ops
  /\ g.joins > 0 => p.mode = "join" /\ g.fanned
  /\ g.life = "off" => g.holds = Nothing /\ at = "none" /\ p.mode = "off" /\ ~g.fanned
  /\ gives => p.mode = "ready" /\ p.part = <<>> /\ p.own = Nothing /\ g.life = "active"
  /\ p.mode = "prefill" <=> at = "active"
  /\ at = "decode" => p.mode = "decode"
  /\ p.mode = "decode" => at = "decode" \/ ops # {}
  /\ g.life # "active" => at = "none" \/ "gone" \in ops

\* What the session will clear: the sandbox, while it has no step that works
\* in one, or what its step neither took nor owns.
EarlyOps == {"chat", "try", "throttled", "react", "gone", "bury"}
Vacant(p, ops, r) == r \in {"mem", "cpu"} /\ p.step.loc = 0 /\ ops \subseteq EarlyOps
Idling(p, r) == p.part = <<>> /\ p.own[r] = 0 /\ p.mode \in {"off", "think", "ready", "decode"}
ClearOf(p, g, ops, clears, late) ==
  /\ clears # {} => g.life # "off"
  /\ \A r \in clears : Vacant(p, ops, r) \/ (r \notin late /\ Idling(p, r))

\* What the step took and owns, and what of it is backed by the holders.
PartOf(p) ==
  /\ \A i \in DOMAIN p.part :
       /\ p.part[i][2] > 0
       /\ p.part[i][1] \in {"mem", "cpu"} => p.step.loc > 0
       /\ p.part[i][1] = "ext" => p.step.kind = "tool"
       /\ p.part[i][1] = "ret" => p.step.kind = "fetch"
  /\ p.par /\ p.mode # "tool" => Amount(p.part, "cpu") >= Extra(p.step) /\ Extra(p.step) > 0
  /\ p.own["slots"] = 0 /\ p.own["mem"] = 0 /\ (p.own["cpu"] > 0 => p.step.loc > 0)
BackedOf(p, g, h, due, r) ==
  /\ h >= Amount(p.part, r) + due /\ h >= g.holds[r] + Amount(p.part, r)
  /\ p.own[r] <= g.holds[r]

Flow(s) ==
  /\ FlowOf(pend[s], prog[s], kv[s].at, OpsIn(stack, s), GivesIn(stack, s))
  /\ ClearOf(pend[s], prog[s], OpsIn(stack, s), ClearsIn(stack, s), LateIn(stack, s))
Backed(s) ==
  /\ PartOf(pend[s])
  /\ \A r \in Units : BackedOf(pend[s], prog[s], held[s][r], DueIn(stack, s, r), r)
Flows == Orderly(stack) /\ \A s \in Sessions : Flow(s) /\ Backed(s)

\* The children that a parent has still to join.
Unjoined(c) == prog[c].life = "active" \/ OpsIn(stack, c) \cap {"start", "gone", "bury"} # {}
Family1(p) ==
  /\ prog[p].joins = Cardinality({c \in Kids(p) : Unjoined(c)})
  /\ ~prog[p].fanned => \A c \in Kids(p) : prog[c].life = "off" /\ OpsIn(stack, c) = {}
  /\ "spawn" \in OpsIn(stack, p) => Kids(p) # {} /\ ~prog[p].fanned
Families == \A p \in Sessions : Family1(p)
-----------------------------------------------------------------------------
(* A session that a step leaves alone, or evicts from the cache.           *)

Kept(o) ==
  /\ prog'[o] = prog[o] /\ held'[o] = held[o]
  /\ \/ pend'[o] = pend[o] /\ (kv'[o].at = kv[o].at \/ (kv[o].at = "idle" /\ kv'[o].at = "none"))
     \/ /\ kv[o].at = "decode" /\ kv'[o].at = "none"
        /\ pend'[o] = [pend[o] EXCEPT !.mode = "ready", !.due = TRUE]

\* What lies below the frames that a step of s pushes.
Below(b, s) ==
  /\ b \in Seq(Frame) /\ Orderly(b) /\ OpsIn(b, s) = {} /\ ~GivesIn(b, s)
  /\ \A o \in Sessions : o # s => SameView(b, stack, o)

\* A session with the pending step p, the program g, the holds h and its entry
\* at `at`, after frames a with these calls, gives and clears were pushed on
\* frames that will clear `below`.
Pays(s, p, g, h, at, a, ops, gives, clears, below) ==
  /\ FlowOf(p, g, at, ops, gives)
  /\ ClearOf(p, g, ops, clears \cup below, IF ops = {} THEN {} ELSE below)
  /\ PartOf(p)
  /\ \A r \in Units : BackedOf(p, g, h[r], DueIn(a, s, r), r)
Settled(s, a, ops, gives, clears, below) ==
  Pays(s, pend'[s], prog'[s], held'[s], kv'[s].at, a, ops, gives, clears, below)

LEMMA FlowWeaker ==
  ASSUME NEW p, NEW g, NEW at, NEW ops, NEW x, NEW y, y => x, FlowOf(p, g, at, ops, x)
  PROVE  FlowOf(p, g, at, ops, y)
BY DEF FlowOf

LEMMA WorldKept ==
  ASSUME world' = world
  PROVE  Sessions' = Sessions /\ Tops' = Tops /\ Frame' = Frame /\ \A s : (Kids(s))' = Kids(s)
BY DEF Sessions, Everybody, Tops, Frame, Kids

LEMMA EvictedFlow ==
  ASSUME NEW p \in PendRec, NEW q \in PendRec, NEW g, NEW ops, NEW gives \in BOOLEAN, NEW clears, NEW late,
         q = [p EXCEPT !.mode = "ready", !.due = TRUE],
         FlowOf(p, g, "decode", ops, gives), ClearOf(p, g, ops, clears, late)
  PROVE  FlowOf(q, g, "none", ops, gives) /\ ClearOf(q, g, ops, clears, late)
<1>1. /\ q.mode = "ready" /\ q.due = TRUE /\ q.step = p.step /\ q.part = p.part /\ q.own = p.own
      /\ q.par = p.par /\ q.flag = p.flag
  BY DEF PendRec
<1>2. /\ p.mode = "decode" /\ ops = {} /\ ~gives /\ ~p.par /\ ~p.flag /\ g.life = "active" /\ p.part = <<>>
      /\ p.own = Nothing /\ g.nap = "no" /\ ~(g.joins > 0)
  BY DEF FlowOf, OpFlow
<1>3. FlowOf(q, g, "none", ops, gives)
  BY <1>1, <1>2 DEF FlowOf, Pausing
<1>4. ClearOf(q, g, ops, clears, late)
  BY <1>1, <1>2 DEF ClearOf, Vacant, Idling
<1> QED
  BY <1>3, <1>4

\* A session that the step leaves alone or evicts keeps its flow.
LEMMA OtherKeeps ==
  ASSUME Typed, NEW o \in Sessions, Kept(o), pend'[o] \in PendRec, SameView(stack', stack, o), Flow(o), Backed(o)
  PROVE  Flow(o)' /\ Backed(o)'
<1>0. pend[o] \in PendRec /\ held[o] \in [Units -> Int] /\ prog[o] \in ProgRec
  BY DEF Typed
<1>1. /\ OpsIn(stack', o) = OpsIn(stack, o) /\ (GivesIn(stack', o) <=> GivesIn(stack, o))
      /\ ClearsIn(stack', o) = ClearsIn(stack, o) /\ LateIn(stack', o) = LateIn(stack, o)
      /\ \A r : DueIn(stack', o, r) = DueIn(stack, o, r)
  BY DEF SameView
<1>2. /\ FlowOf(pend[o], prog[o], kv[o].at, OpsIn(stack', o), GivesIn(stack', o))
      /\ ClearOf(pend[o], prog[o], OpsIn(stack', o), ClearsIn(stack', o), LateIn(stack', o))
      /\ PartOf(pend[o])
      /\ \A r \in Units : BackedOf(pend[o], prog[o], held[o][r], DueIn(stack', o, r), r)
  <2>1. FlowOf(pend[o], prog[o], kv[o].at, OpsIn(stack, o), GivesIn(stack, o))
    BY DEF Flow
  <2>2. FlowOf(pend[o], prog[o], kv[o].at, OpsIn(stack, o), GivesIn(stack', o))
    BY <1>1, <2>1, FlowWeaker
  <2> QED
    BY <1>1, <2>2 DEF Flow, Backed
<1>3. CASE pend'[o] = pend[o]
  <2>1. FlowOf(pend[o], prog[o], kv'[o].at, OpsIn(stack', o), GivesIn(stack', o))
    <3>1. CASE kv'[o].at = kv[o].at
      BY <1>2, <3>1
    <3>2. CASE kv[o].at = "idle" /\ kv'[o].at = "none"
      BY <1>2, <3>2 DEF FlowOf, OpFlow
    <3>3. CASE kv[o].at = "decode" /\ kv'[o].at = "none" /\ pend'[o] = [pend[o] EXCEPT !.mode = "ready", !.due = TRUE]
      <4>1. pend[o].mode = "decode"
        BY <1>2, <3>3 DEF FlowOf
      <4>2. pend'[o].mode = "ready"
        BY <1>0, <3>3 DEF PendRec
      <4> QED
        BY <1>3, <4>1, <4>2
    <3> QED
      BY <1>3, <3>1, <3>2, <3>3 DEF Kept
  <2> QED
    BY <1>2, <1>3, <2>1 DEF Kept, Flow, Backed
<1>4. CASE kv[o].at = "decode" /\ kv'[o].at = "none" /\ pend'[o] = [pend[o] EXCEPT !.mode = "ready", !.due = TRUE]
  <2>1. GivesIn(stack', o) \in BOOLEAN
    BY DEF GivesIn
  <2>2. FlowOf(pend[o], prog[o], "decode", OpsIn(stack', o), GivesIn(stack', o))
    BY <1>2, <1>4
  <2>3. /\ FlowOf(pend'[o], prog[o], "none", OpsIn(stack', o), GivesIn(stack', o))
        /\ ClearOf(pend'[o], prog[o], OpsIn(stack', o), ClearsIn(stack', o), LateIn(stack', o))
    BY <1>0, <1>2, <1>4, <2>1, <2>2, EvictedFlow
  <2>4. /\ pend'[o].part = pend[o].part /\ pend'[o].own = pend[o].own /\ pend'[o].step = pend[o].step
        /\ pend'[o].par = pend[o].par
    BY <1>0, <1>4 DEF PendRec
  <2>5. ~pend[o].par
    BY <2>2 DEF FlowOf
  <2>6. PartOf(pend'[o]) /\ \A r \in Units : BackedOf(pend'[o], prog[o], held[o][r], DueIn(stack', o, r), r)
    BY <1>2, <2>4, <2>5 DEF PartOf, BackedOf
  <2> QED
    BY <1>4, <2>3, <2>6 DEF Kept, Flow, Backed
<1> QED
  BY <1>3, <1>4 DEF Kept

LEMMA SameViews ==
  ASSUME NEW a, NEW b, NEW c, NEW o, SameView(a, b, o), SameView(b, c, o)
  PROVE  SameView(a, c, o)
BY DEF SameView

\* A step of s keeps everybody's flow.
LEMMA Keeps ==
  ASSUME Typed, Typed', Flows, world' = world, NEW s \in Sessions, NEW b, Below(b, s),
         NEW a, NEW ops, NEW gives \in BOOLEAN, NEW clears, Volley(a, s, ops, gives, clears), stack' = a \o b,
         \A o \in Sessions : o # s => Kept(o),
         Settled(s, a, ops, gives, clears, ClearsIn(b, s))
  PROVE  Flows'
<1>1. b \in Seq(Frame) /\ Orderly(b) /\ OpsIn(b, s) = {} /\ ~GivesIn(b, s)
  BY DEF Below
<1>2. After(a \o b, b, a, s, ops, gives, clears)
  BY <1>1, Pushed
<1>3. After(stack', b, a, s, ops, gives, clears)
  BY <1>2
<1>4. /\ Orderly(stack') /\ OpsIn(stack', s) = ops /\ (GivesIn(stack', s) => gives)
      /\ ClearsIn(stack', s) = clears \cup ClearsIn(b, s)
      /\ LateIn(stack', s) = (IF ops = {} THEN {} ELSE ClearsIn(b, s))
      /\ \A r : DueIn(stack', s, r) = DueIn(a, s, r)
  BY <1>3 DEF After
<1>5. Flow(s)' /\ Backed(s)'
  <2>1. FlowOf(pend'[s], prog'[s], kv'[s].at, ops, gives)
    BY DEF Settled, Pays
  <2>2. FlowOf(pend'[s], prog'[s], kv'[s].at, ops, GivesIn(stack', s))
    BY <1>4, <2>1, FlowWeaker
  <2>3. FlowOf(pend'[s], prog'[s], kv'[s].at, OpsIn(stack', s), GivesIn(stack', s))
    BY <1>4, <2>2
  <2>4. ClearOf(pend'[s], prog'[s], OpsIn(stack', s), ClearsIn(stack', s), LateIn(stack', s))
    BY <1>4 DEF Settled, Pays
  <2>5. PartOf(pend'[s]) /\ \A r \in Units : BackedOf(pend'[s], prog'[s], held'[s][r], DueIn(stack', s, r), r)
    BY <1>4 DEF Settled, Pays
  <2> QED
    BY <2>3, <2>4, <2>5 DEF Flow, Backed
<1>6. ASSUME NEW o \in Sessions, o # s
      PROVE  Flow(o)' /\ Backed(o)'
  <2>1. SameView(a \o b, b, o)
    BY <1>1, <1>6, PushedOther
  <2>2. SameView(b, stack, o)
    BY <1>6 DEF Below
  <2>3. SameView(stack', stack, o)
    <3> DEFINE q == a \o b
    <3>1. SameView(q, b, o)
      BY <2>1
    <3> HIDE DEF q
    <3>2. SameView(q, stack, o)
      BY <3>1, <2>2, SameViews
    <3> QED
      BY <3>2 DEF q
  <2>4. pend'[o] \in PendRec
    BY WorldKept DEF Typed
  <2> QED
    BY <1>6, <2>3, <2>4, OtherKeeps DEF Flows
<1> QED
  BY <1>4, <1>5, <1>6, WorldKept DEF Flows

Good == Typed /\ Flows /\ Families

\* What a step of s may not do to a family.
SameFamily(s, ops) ==
  /\ prog'[s].joins = prog[s].joins /\ prog'[s].fanned = prog[s].fanned
  /\ "spawn" \in ops => Kids(s) # {} /\ ~prog[s].fanned
  /\ \/ s \in Tops
     \/ /\ prog[s].life # "off" \/ OpsIn(stack, s) # {} \/ (prog'[s].life = "off" /\ ops = {})
        /\ (prog'[s].life = "active" \/ ops \cap {"start", "gone", "bury"} # {}) <=> Unjoined(s)

LEMMA KeepsFamilies ==
  ASSUME Typed, Families, world' = world, NEW s \in Sessions, NEW b, Below(b, s),
         NEW a, NEW ops, NEW gives \in BOOLEAN, NEW clears, Volley(a, s, ops, gives, clears), stack' = a \o b,
         \A o \in Sessions : o # s => Kept(o),
         SameFamily(s, ops)
  PROVE  Families'
<1>1. b \in Seq(Frame) /\ Orderly(b) /\ OpsIn(b, s) = {} /\ ~GivesIn(b, s)
  BY DEF Below
<1>2. After(a \o b, b, a, s, ops, gives, clears)
  BY <1>1, Pushed
<1>3. After(stack', b, a, s, ops, gives, clears)
  BY <1>2
<1>4. OpsIn(stack', s) = ops
  BY <1>3 DEF After
<1>5. ASSUME NEW o \in Sessions, o # s
      PROVE  OpsIn(stack', o) = OpsIn(stack, o) /\ prog'[o] = prog[o]
  <2>1. SameView(a \o b, b, o)
    BY <1>1, <1>5, PushedOther
  <2>2. SameView(b, stack, o)
    BY <1>5 DEF Below
  <2>3. OpsIn(a \o b, o) = OpsIn(b, o)
    BY <2>1 DEF SameView
  <2>4. OpsIn(b, o) = OpsIn(stack, o)
    BY <2>2 DEF SameView
  <2> QED
    BY <1>5, <2>3, <2>4 DEF Kept
<1>6. Sessions' = Sessions /\ \A p : (Kids(p))' = Kids(p)
  BY WorldKept
<1>7. \A o \in Sessions : prog'[o].joins = prog[o].joins /\ prog'[o].fanned = prog[o].fanned
  BY <1>5 DEF SameFamily
<1>8. ASSUME NEW p \in Sessions, NEW c \in Kids(p)
      PROVE  /\ c \in Sessions /\ (Unjoined(c)' <=> Unjoined(c))
             /\ (prog[c].life = "off" /\ OpsIn(stack, c) = {} => prog'[c].life = "off" /\ OpsIn(stack', c) = {})
  <2>1. c \in Sessions /\ c \notin Tops
    BY <1>8, WorldIs DEF Typed, Kids
  <2>2. CASE c # s
    BY <1>5, <2>1, <2>2 DEF Unjoined
  <2>3. CASE c = s
    BY <1>4, <2>1, <2>3 DEF Unjoined, SameFamily
  <2> QED
    BY <2>1, <2>2, <2>3
<1>9. ASSUME NEW p \in Sessions
      PROVE  Family1(p)'
  <2>1. {c \in Kids(p) : Unjoined(c)'} = {c \in Kids(p) : Unjoined(c)}
    BY <1>8
  <2>2. prog'[p].joins = Cardinality({c \in Kids(p) : Unjoined(c)'})
    BY <1>7, <2>1 DEF Families, Family1
  <2>3. ~prog'[p].fanned => \A c \in Kids(p) : prog'[c].life = "off" /\ OpsIn(stack', c) = {}
    BY <1>7, <1>8 DEF Families, Family1
  <2>4. "spawn" \in OpsIn(stack', p) => Kids(p) # {} /\ ~prog'[p].fanned
    <3>1. CASE p = s
      BY <1>4, <3>1 DEF SameFamily
    <3>2. CASE p # s
      BY <1>5, <3>2 DEF Families, Family1
    <3> QED
      BY <3>1, <3>2
  <2> QED
    BY <1>6, <2>2, <2>3, <2>4 DEF Family1
<1> QED
  BY <1>6, <1>9 DEF Families

\* A step of s keeps the invariant if it pays what it owes.
LEMMA StepKeeps ==
  ASSUME Good, world' = world, NEW s \in Sessions, NEW b, Below(b, s),
         NEW a, NEW ops, NEW gives \in BOOLEAN, NEW clears, Volley(a, s, ops, gives, clears), stack' = a \o b,
         prog' \in [Sessions -> ProgRec], pend' \in [Sessions -> PendRec], held' \in [Sessions -> [Units -> Int]],
         lease' \in [Sessions -> Bags], kv' \in [Sessions -> Cache], aimd' \in [cap : Nat, streak : Nat],
         \A o \in Sessions : o # s => Kept(o),
         Settled(s, a, ops, gives, clears, ClearsIn(b, s)), SameFamily(s, ops)
  PROVE  Good'
<1>1. a \o b \in Seq(Frame)
  <2>1. a \in Seq(Frame)
    BY DEF Volley
  <2>2. b \in Seq(Frame)
    BY DEF Below
  <2> QED
    BY <2>1, <2>2, Concat
<1>2. Typed'
  <2>1. stack' \in Seq(Frame)
    BY <1>1
  <2>2. world' \in Worlds
    BY DEF Good, Typed
  <2> QED
    BY <2>1, <2>2, WorldKept DEF Typed
<1>3. Typed /\ Flows /\ Families
  BY DEF Good
<1>4. Flows'
  BY <1>2, <1>3, Keeps
<1>5. Families'
  BY <1>3, KeepsFamilies
<1> QED
  BY <1>2, <1>4, <1>5 DEF Good

\* Nobody's view of the stack changes.
LEMMA ViewsKeep ==
  ASSUME Good, world' = world, stack' \in Seq(Frame), Orderly(stack'),
         \A o \in Sessions : SameView(stack', stack, o),
         prog' \in [Sessions -> ProgRec], pend' = pend, held' = held,
         lease' \in [Sessions -> Bags], kv' = kv, aimd' \in [cap : Nat, streak : Nat],
         \A o \in Sessions : prog'[o] = [prog[o] EXCEPT !.park = prog'[o].park]
  PROVE  Good'
<1>1. Typed /\ Flows /\ Families
  BY DEF Good
<1>2. Sessions' = Sessions /\ Frame' = Frame /\ \A p : (Kids(p))' = Kids(p)
  BY WorldKept
<1>3. Typed'
  BY <1>1, <1>2 DEF Typed
<1>4. ASSUME NEW o \in Sessions
      PROVE  /\ OpsIn(stack', o) = OpsIn(stack, o) /\ (GivesIn(stack', o) <=> GivesIn(stack, o))
             /\ ClearsIn(stack', o) = ClearsIn(stack, o) /\ LateIn(stack', o) = LateIn(stack, o)
             /\ \A r : DueIn(stack', o, r) = DueIn(stack, o, r)
  BY DEF SameView
<1>5. ASSUME NEW o \in Sessions
      PROVE  /\ prog'[o].life = prog[o].life /\ prog'[o].joins = prog[o].joins /\ prog'[o].fanned = prog[o].fanned
             /\ prog'[o].holds = prog[o].holds /\ prog'[o].nap = prog[o].nap
  <2>1. prog[o] \in ProgRec
    BY <1>1 DEF Typed
  <2> QED
    BY <2>1 DEF ProgRec
<1>6. ASSUME NEW o \in Sessions
      PROVE  Flow(o)' /\ Backed(o)'
  <2>1. Flow(o) /\ Backed(o)
    BY <1>1 DEF Flows
  <2>2. FlowOf(pend[o], prog[o], kv[o].at, OpsIn(stack', o), GivesIn(stack', o))
    <3>1. FlowOf(pend[o], prog[o], kv[o].at, OpsIn(stack, o), GivesIn(stack, o))
      BY <2>1 DEF Flow
    <3>2. FlowOf(pend[o], prog[o], kv[o].at, OpsIn(stack, o), GivesIn(stack', o))
      BY <1>4, <3>1, FlowWeaker
    <3> QED
      BY <1>4, <3>2
  <2>3. FlowOf(pend[o], prog'[o], kv[o].at, OpsIn(stack', o), GivesIn(stack', o))
    BY <1>5, <2>2 DEF FlowOf, OpFlow
  <2>4. ClearOf(pend[o], prog'[o], OpsIn(stack', o), ClearsIn(stack', o), LateIn(stack', o))
    <3>1. ClearOf(pend[o], prog[o], OpsIn(stack', o), ClearsIn(stack', o), LateIn(stack', o))
      BY <1>4, <2>1 DEF Flow
    <3> QED
      BY <1>5, <3>1 DEF ClearOf
  <2>5. \A r \in Units : BackedOf(pend[o], prog'[o], held[o][r], DueIn(stack', o, r), r)
    BY <1>4, <1>5, <2>1 DEF Backed, BackedOf
  <2> QED
    BY <2>1, <2>3, <2>4, <2>5 DEF Flow, Backed
<1>7. Flows'
  BY <1>2, <1>6 DEF Flows
<1>8. ASSUME NEW p \in Sessions
      PROVE  Family1(p)'
  <2>1. \A c \in Kids(p) : c \in Sessions
    BY <1>1, WorldIs DEF Typed, Kids
  <2>2. \A c \in Kids(p) : Unjoined(c)' <=> Unjoined(c)
    BY <1>4, <1>5, <2>1 DEF Unjoined
  <2>3. {c \in Kids(p) : Unjoined(c)'} = {c \in Kids(p) : Unjoined(c)}
    BY <2>2
  <2> QED
    BY <1>1, <1>2, <1>4, <1>5, <2>1, <2>3 DEF Families, Family1
<1> QED
  BY <1>2, <1>3, <1>7, <1>8 DEF Good, Families

\* What a call of s, or an event of it, finds.
At(s, ops, below) ==
  /\ s \in Sessions /\ pend[s] \in PendRec /\ prog[s] \in ProgRec /\ held[s] \in [Units -> Int] /\ kv[s] \in Cache
  /\ OpsIn(stack, s) = ops
  /\ FlowOf(pend[s], prog[s], kv[s].at, ops, FALSE)
  /\ below # {} => prog[s].life # "off"
  /\ \A r \in below : Vacant(pend[s], ops, r)
  /\ PartOf(pend[s]) /\ \A r \in Units : BackedOf(pend[s], prog[s], held[s][r], 0, r)

LEMMA ViewItself ==
  ASSUME NEW q, NEW o
  PROVE  SameView(q, q, o)
BY DEF SameView

LEMMA AtCall ==
  ASSUME Good, NEW s, stack # <<>>, Head(stack).s = s, IsThread(Head(stack))
  PROVE  Below(Tail(stack), s) /\ At(s, {Head(stack).op}, ClearsIn(Tail(stack), s))
<1>1. Typed /\ Flows /\ stack \in Seq(Frame) /\ Orderly(stack)
  BY DEF Good, Typed, Flows
<1>2. /\ s \in Sessions /\ Tail(stack) \in Seq(Frame) /\ Orderly(Tail(stack))
      /\ OpsIn(stack, s) = {Head(stack).op} /\ ~GivesIn(stack, s) /\ LateIn(stack, s) = ClearsIn(stack, s)
      /\ OpsIn(Tail(stack), s) = {} /\ ~GivesIn(Tail(stack), s) /\ ClearsIn(Tail(stack), s) = ClearsIn(stack, s)
      /\ \A r : DueIn(stack, s, r) = 0
  BY <1>1, HandlerOf
<1>3. \A o \in Sessions : o # s => SameView(Tail(stack), stack, o)
  <2> SUFFICES ASSUME NEW o \in Sessions, o # s PROVE SameView(Tail(stack), stack, o)
    OBVIOUS
  <2>1. SameView(stack, Tail(stack), o)
    BY <1>1, HandlerOther
  <2> QED
    BY <2>1 DEF SameView
<1>4. Flow(s) /\ Backed(s)
  BY <1>1, <1>2 DEF Flows
<1>5. FlowOf(pend[s], prog[s], kv[s].at, {Head(stack).op}, FALSE)
  <2>1. FlowOf(pend[s], prog[s], kv[s].at, OpsIn(stack, s), GivesIn(stack, s))
    BY <1>4 DEF Flow
  <2>2. FALSE => GivesIn(stack, s)
    OBVIOUS
  <2> DEFINE no == FALSE
  <2>3. no => GivesIn(stack, s)
    BY <2>2
  <2> HIDE DEF no
  <2>4. FlowOf(pend[s], prog[s], kv[s].at, OpsIn(stack, s), no)
    BY <2>1, <2>3, FlowWeaker
  <2> QED
    BY <1>2, <2>4 DEF no
<1>6. /\ ClearsIn(Tail(stack), s) # {} => prog[s].life # "off"
      /\ \A r \in ClearsIn(Tail(stack), s) : Vacant(pend[s], {Head(stack).op}, r)
  BY <1>2, <1>4 DEF Flow, ClearOf
<1>7. \A r \in Units : BackedOf(pend[s], prog[s], held[s][r], 0, r)
  BY <1>2, <1>4 DEF Backed
<1>8. Below(Tail(stack), s)
  BY <1>2, <1>3 DEF Below
<1> QED
  BY <1>1, <1>2, <1>4, <1>5, <1>6, <1>7, <1>8 DEF At, Typed, Backed

LEMMA AtEvent ==
  ASSUME Good, stack = <<>>, NEW s \in Sessions
  PROVE  Below(<<>>, s) /\ At(s, {}, {}) /\ ClearsIn(<<>>, s) = {}
<1>1. Typed /\ Flow(s) /\ Backed(s)
  BY DEF Good, Flows
<1>2. /\ Orderly(<<>>) /\ OpsIn(<<>>, s) = {} /\ ~GivesIn(<<>>, s) /\ ClearsIn(<<>>, s) = {} /\ LateIn(<<>>, s) = {}
      /\ \A r : DueIn(<<>>, s, r) = 0
  BY ViewOfNone
<1>3. \A o \in Sessions : o # s => SameView(<<>>, stack, o)
  BY ViewItself
<1>4. FlowOf(pend[s], prog[s], kv[s].at, {}, FALSE)
  <2> DEFINE no == FALSE
  <2>1. FlowOf(pend[s], prog[s], kv[s].at, OpsIn(stack, s), GivesIn(stack, s))
    BY <1>1 DEF Flow
  <2>2. no => GivesIn(stack, s)
    OBVIOUS
  <2> HIDE DEF no
  <2>3. FlowOf(pend[s], prog[s], kv[s].at, OpsIn(stack, s), no)
    BY <2>1, <2>2, FlowWeaker
  <2> QED
    BY <1>2, <2>3 DEF no
<1>5. \A r \in Units : BackedOf(pend[s], prog[s], held[s][r], 0, r)
  BY <1>1, <1>2 DEF Backed
<1>6. Below(<<>>, s)
  <2>1. <<>> \in Seq(Frame)
    OBVIOUS
  <2> QED
    BY <1>2, <1>3, <2>1 DEF Below
<1> QED
  BY <1>1, <1>2, <1>4, <1>5, <1>6 DEF At, Typed, Backed

LEMMA Data ==
  ASSUME Good
  PROVE  /\ world \in Worlds /\ prog \in [Sessions -> ProgRec] /\ pend \in [Sessions -> PendRec]
         /\ held \in [Sessions -> [Units -> Int]] /\ lease \in [Sessions -> Bags] /\ kv \in [Sessions -> Cache]
         /\ stack \in Seq(Frame) /\ aimd \in [cap : Nat, streak : Nat]
BY DEF Good, Typed

\* A step that changes only the pending step of s.
LEMMA PendStep ==
  ASSUME Good, world' = world, NEW s \in Sessions, NEW b, Below(b, s),
         NEW a, NEW ops, NEW gives \in BOOLEAN, NEW clears, Volley(a, s, ops, gives, clears), stack' = a \o b,
         pend' \in [Sessions -> PendRec], \A o \in Sessions : o # s => pend'[o] = pend[o],
         prog' = prog, held' = held, kv' = kv, lease' \in [Sessions -> Bags], aimd' \in [cap : Nat, streak : Nat],
         Pays(s, pend'[s], prog[s], held[s], kv[s].at, a, ops, gives, clears, ClearsIn(b, s)), SameFamily(s, ops)
  PROVE  Good'
<1>1. /\ prog' \in [Sessions -> ProgRec] /\ held' \in [Sessions -> [Units -> Int]] /\ kv' \in [Sessions -> Cache]
  BY Data
<1>2. \A o \in Sessions : o # s => Kept(o)
  BY DEF Kept
<1>3. Settled(s, a, ops, gives, clears, ClearsIn(b, s))
  BY DEF Settled
<1> QED
  BY <1>1, <1>2, <1>3, StepKeeps

-----------------------------------------------------------------------------
(* What the operators of the model yield. *)

\* A call after what the session gives back.
LEMMA VolleyEnds ==
  ASSUME NEW s \in Sessions, NEW op \in ThreadOps, NEW a, NEW g \in BOOLEAN, NEW c, Volley(a, s, {}, g, c)
  PROVE  /\ Volley(a \o <<Call(op, s)>>, s, {op}, g, c)
         /\ \A r : DueIn(a \o <<Call(op, s)>>, s, r) = DueIn(a, s, r)
<1> DEFINE d == <<Call(op, s)>>
           no == FALSE
           none == {}
           one == {op}
<1>1. Volley(d, s, one, no, none) /\ no \in BOOLEAN /\ none = {} /\ ~no
  BY VolleyCall
<1>2. a \in Seq(Frame) /\ d \in Seq(Frame) /\ ~GivesIn(d, s)
  BY <1>1 DEF Volley
<1>3. \A r : DueIn(d, s, r) = 0
  BY <1>2, NothingDue
<1> HIDE DEF d, no, none, one
<1>4. Volley(a \o d, s, one, g, c \cup none)
  BY <1>1, VolleyConcat
<1>5. Volley(a \o d, s, one, g, c)
  <2>1. c \cup none = c
    BY <1>1
  <2> QED
    BY <1>4, <2>1
<1>6. \A r : DueIn(a \o d, s, r) = DueIn(a, s, r)
  <2> SUFFICES ASSUME NEW r PROVE DueIn(a \o d, s, r) = DueIn(a, s, r)
    OBVIOUS
  <2>1. DueIn(a, s, r) \in Nat /\ DueIn(a \o d, s, r) = DueIn(a, s, r) + DueIn(d, s, r)
    BY <1>2, DueOfConcat
  <2> QED
    BY <1>3, <2>1
<1> QED
  BY <1>5, <1>6 DEF d, one

LEMMA MaxIs ==
  ASSUME NEW x \in Int
  PROVE  Max({0, x}) = IF x > 0 THEN x ELSE 0
<1>1. \E m \in {0, x} : \A y \in {0, x} : m >= y
  OBVIOUS
<1>2. Max({0, x}) \in {0, x} /\ \A y \in {0, x} : Max({0, x}) >= y
  BY <1>1 DEF Max
<1> QED
  BY <1>2

LEMMA MaxOne ==
  ASSUME NEW x \in Nat
  PROVE  Max({1, x}) \in Nat /\ (Max({1, x}) = 1 \/ Max({1, x}) = x)
<1>1. \E m \in {1, x} : \A y \in {1, x} : m >= y
  OBVIOUS
<1>2. Max({1, x}) \in {1, x}
  BY <1>1 DEF Max
<1> QED
  BY <1>2

LEMMA MinIs ==
  ASSUME NEW x \in Int, NEW y \in Int
  PROVE  Min({x, y}) \in {x, y} /\ Min({x, y}) <= x /\ Min({x, y}) <= y
<1>1. \E m \in {x, y} : \A z \in {x, y} : m <= z
  OBVIOUS
<1> QED
  BY <1>1 DEF Min

LEMMA FirstIs ==
  ASSUME NEW S \in SUBSET Units, S # {}
  PROVE  First(S) \in S
<1> DEFINE I == {i \in DOMAIN Order : Order[i] \in S}
<1>1. DOMAIN Order = 1 .. 5
  BY DEF Order
<1>2. \A r \in Units : \E i \in DOMAIN Order : Order[i] = r
  BY DEF Units, Range
<1>3. I # {} /\ I \subseteq 1 .. 5
  BY <1>1, <1>2
<1> HIDE DEF I
<1>4. \E m \in I : \A j \in I : m <= j
  <2>1. CASE 1 \in I
    BY <1>3, <2>1
  <2>2. CASE 1 \notin I /\ 2 \in I
    BY <1>3, <2>2
  <2>3. CASE 1 \notin I /\ 2 \notin I /\ 3 \in I
    BY <1>3, <2>3
  <2>4. CASE 1 \notin I /\ 2 \notin I /\ 3 \notin I /\ 4 \in I
    BY <1>3, <2>4
  <2>5. CASE 1 \notin I /\ 2 \notin I /\ 3 \notin I /\ 4 \notin I
    <3>0. \A j \in I : j \in 1 .. 5 /\ j # 1 /\ j # 2 /\ j # 3 /\ j # 4
      BY <1>3, <2>5
    <3>1. \A j \in 1 .. 5 : j # 1 /\ j # 2 /\ j # 3 /\ j # 4 => j = 5
      OBVIOUS
    <3>2. \A j \in I : j = 5
      BY <3>0, <3>1
    <3>3. \A j \in I : 5 <= j
      BY <3>2
    <3>4. \E j \in I : TRUE
      BY <1>3
    <3> QED
      BY <3>2, <3>3, <3>4
  <2> QED
    BY <2>1, <2>2, <2>3, <2>4, <2>5
<1>5. Min(I) \in I
  BY <1>4 DEF Min
<1> QED
  BY <1>5 DEF First, I

LEMMA ExtraIs ==
  ASSUME NEW st \in Steps
  PROVE  Extra(st) \in Nat /\ (Extra(st) > 0 => st.loc > 1 /\ st.kind = "tool")
BY StepIs DEF Extra

LEMMA NeedsIs ==
  ASSUME Good, NEW s \in Sessions, NEW r \in Units
  PROVE  /\ Needs(s, r) \in Nat
         /\ Needs(s, r) > 0 => /\ r \in {"mem", "cpu"} => pend[s].step.loc > 0
                               /\ r = "ext" => pend[s].step.kind = "tool"
                               /\ r = "ret" => pend[s].step.kind = "fetch"
<1>1. pend[s] \in PendRec /\ world.gb[s] \in Nat
  BY Data, WorldIs DEF IsWorld, Sessions
<1>2. pend[s].step.loc \in Nat /\ pend[s].step.ext \in Nat /\ (pend[s].step.kind # "tool" => pend[s].step.loc = 0 /\ pend[s].step.ext = 0)
  BY <1>1, PendIs, StepIs
<1> QED
  BY <1>1, <1>2, UnitsAre DEF Needs

LEMMA MissingIs ==
  ASSUME Good, NEW s \in Sessions, Missing(s) # {}
  PROVE  First(Missing(s)) \in Units /\ Needs(s, First(Missing(s))) \in Nat /\ Needs(s, First(Missing(s))) > 0
<1>1. Missing(s) \in SUBSET Units
  BY DEF Missing
<1>2. First(Missing(s)) \in Missing(s)
  BY <1>1, FirstIs
<1> QED
  BY <1>1, <1>2, NeedsIs DEF Missing

\* What has been taken of a resource.
LEMMA AmountIs ==
  ASSUME NEW part \in Parts, NEW r \in Units
  PROVE  Amount(part, r) \in Nat
<1> DEFINE F == [i \in DOMAIN part |-> IF part[i][1] = r THEN part[i][2] ELSE 0]
<1>1. IsFiniteSet(DOMAIN part) /\ \A i \in DOMAIN part : F[i] \in Nat
  BY LenProperties, FS_Interval, ElementOfSeq, SMTT(100) DEF Parts
<1> HIDE DEF F
<1>2. SumFunctionOnSet(F, DOMAIN part) \in Nat
  BY <1>1, SumNat
<1> QED
  BY <1>2 DEF Amount, F

LEMMA AmountNone ==
  ASSUME NEW part \in Parts, NEW r \in Units, \A i \in DOMAIN part : part[i][1] # r
  PROVE  Amount(part, r) = 0
<1> DEFINE F == [i \in DOMAIN part |-> IF part[i][1] = r THEN part[i][2] ELSE 0]
<1>1. IsFiniteSet(DOMAIN part)
  BY LenProperties, FS_Interval DEF Parts
<1>11. \A i \in DOMAIN part : F[i] = 0
  OBVIOUS
<1> HIDE DEF F
<1>2. SumFunctionOnSet(F, DOMAIN part) = 0
  BY <1>1, <1>11, SumZero
<1> QED
  BY <1>2 DEF Amount, F

LEMMA AmountEmpty == \A r \in Units : Amount(<<>>, r) = 0
<1>1. <<>> \in Parts /\ DOMAIN <<>> = {}
  BY DEF Parts
<1> QED
  BY <1>1, AmountNone

LEMMA AmountMore ==
  ASSUME NEW part \in Parts, NEW t \in Units, NEW n \in Nat, NEW r \in Units
  PROVE  /\ Append(part, <<t, n>>) \in Parts
         /\ Amount(Append(part, <<t, n>>), r) = Amount(part, r) + (IF t = r THEN n ELSE 0)
         /\ \A i \in DOMAIN Append(part, <<t, n>>) :
              \/ i \in DOMAIN part /\ Append(part, <<t, n>>)[i] = part[i]
              \/ Append(part, <<t, n>>)[i] = <<t, n>>
<1> DEFINE q == Append(part, <<t, n>>)
           F == [i \in DOMAIN part |-> IF part[i][1] = r THEN part[i][2] ELSE 0]
           G == [i \in DOMAIN q |-> IF q[i][1] = r THEN q[i][2] ELSE 0]
           D == DOMAIN part
           e == Len(part) + 1
<1>1. q \in Parts /\ Len(part) \in Nat /\ D = 1 .. Len(part) /\ DOMAIN q = D \cup {e} /\ e \notin D
  BY DEF Parts
<1>2. q[e] = <<t, n>> /\ \A i \in D : q[i] = part[i] /\ part[i] \in Units \X Nat
  BY ElementOfSeq DEF Parts
<1>3. /\ \A i \in D : F[i] \in Nat /\ G[i] = F[i]
      /\ G[e] = IF t = r THEN n ELSE 0
  BY <1>1, <1>2
<1>4. IsFiniteSet(D)
  BY <1>1, FS_Interval
<1>5. Amount(part, r) = SumFunctionOnSet(F, D) /\ Amount(q, r) = SumFunctionOnSet(G, D \cup {e})
  BY <1>1 DEF Amount
<1> HIDE DEF F, G, D, e, q
<1>51. (\A i \in D \cup {e} : G[i] \in Int) /\ e \notin D
  BY <1>1, <1>3
<1>6. SumFunctionOnSet(G, D \cup {e}) = G[e] + SumFunctionOnSet(G, D)
  BY <1>4, <1>51, SumAdd
<1>7. SumFunctionOnSet(F, D) = SumFunctionOnSet(G, D) /\ SumFunctionOnSet(F, D) \in Nat
  BY <1>3, <1>4, SumSame, SumNat
<1>8. Amount(q, r) = Amount(part, r) + (IF t = r THEN n ELSE 0)
  BY <1>3, <1>5, <1>6, <1>7
<1>9. \A i \in DOMAIN q : (i \in D /\ q[i] = part[i]) \/ q[i] = <<t, n>>
  BY <1>1, <1>2
<1> QED
  BY <1>1, <1>8, <1>9 DEF q, D

\* The amounts that a call or an event of s finds.
LEMMA Sizes ==
  ASSUME NEW s, NEW ops, NEW below, At(s, ops, below), NEW r \in Units
  PROVE  /\ Amount(pend[s].part, r) \in Nat
         /\ pend[s].own[r] \in Nat /\ prog[s].holds[r] \in Nat /\ held[s][r] \in Nat
         /\ held[s][r] >= prog[s].holds[r] + Amount(pend[s].part, r) /\ pend[s].own[r] <= prog[s].holds[r]
<1>1. pend[s] \in PendRec /\ prog[s] \in ProgRec /\ held[s] \in [Units -> Int]
  BY DEF At
<1>2. pend[s].part \in Parts /\ pend[s].own \in Bags /\ prog[s].holds \in Bags
  BY <1>1, PendIs, ProgIs
<1>3. /\ Amount(pend[s].part, r) \in Nat /\ pend[s].own[r] \in Nat /\ prog[s].holds[r] \in Nat
      /\ held[s][r] \in Int
  BY <1>1, <1>2, AmountIs DEF Bags
<1>4. BackedOf(pend[s], prog[s], held[s][r], 0, r)
  BY DEF At
<1> QED
  BY <1>3, <1>4 DEF BackedOf

\* _react: the step is tried again.
LEMMA RetryKeeps ==
  ASSUME Good, NEW s, s = Head(stack).s, Top("react"), Retry(s)
  PROVE  Good'
<1> DEFINE b == Tail(stack)
           p == pend[s]
           q == [p EXCEPT !.tries = p.tries + 1, !.due = TRUE]
           a == <<>>
<1>1. Below(b, s) /\ At(s, {"react"}, ClearsIn(b, s))
  BY AtCall DEF Top, IsThread, ThreadOps
<1>2. s \in Sessions /\ p \in PendRec
  BY <1>1 DEF At
<1>3. p.tries + 1 \in 0 .. SdkRetries
  BY <1>2, PendIs, EngineAssumption DEF Retry
<1>4. q \in PendRec /\ q.mode = p.mode /\ q.step = p.step /\ q.part = p.part /\ q.own = p.own /\ q.par = p.par /\ q.want = p.want /\ q.due = TRUE /\ q.flag = p.flag
  BY <1>2, <1>3 DEF PendRec
<1>5. /\ world' = world /\ prog' = prog /\ held' = held /\ kv' = kv
      /\ stack' = a \o b /\ pend' = [pend EXCEPT ![s] = q]
  BY DEF Retry, Run
<1>51. lease' \in [Sessions -> Bags] /\ aimd' \in [cap : Nat, streak : Nat]
  BY <1>2, Data DEF Retry, Run
<1>52. Volley(a, s, {}, FALSE, {}) /\ \A r \in Units : DueIn(a, s, r) = 0
  BY VolleyNone, ViewOfNone
<1> HIDE DEF a, b, p, q
<1>6. pend' \in [Sessions -> PendRec] /\ pend'[s] = q /\ \A o \in Sessions : o # s => pend'[o] = pend[o]
  BY <1>2, <1>4, <1>5, Data
<1>7. Pays(s, q, prog[s], held[s], kv[s].at, a, {}, FALSE, {}, ClearsIn(b, s))
  <2>1. FlowOf(q, prog[s], kv[s].at, {}, FALSE)
    BY <1>1, <1>4 DEF At, FlowOf, OpFlow, p, Pausing
  <2>2. ClearOf(q, prog[s], {}, {} \cup ClearsIn(b, s), {})
    BY <1>1, <1>4 DEF At, ClearOf, p, Vacant, Idling, EarlyOps
  <2>3. PartOf(q)
    BY <1>1, <1>4, ZenonT(40) DEF At, PartOf, p
  <2>4. \A r \in Units : BackedOf(q, prog[s], held[s][r], DueIn(a, s, r), r)
    <3> SUFFICES ASSUME NEW r \in Units PROVE BackedOf(q, prog[s], held[s][r], DueIn(a, s, r), r)
      OBVIOUS
    <3>1. /\ Amount(p.part, r) \in Nat /\ p.own[r] \in Nat /\ prog[s].holds[r] \in Nat /\ held[s][r] \in Nat
          /\ held[s][r] >= prog[s].holds[r] + Amount(p.part, r) /\ p.own[r] <= prog[s].holds[r]
      BY <1>1, Sizes DEF p
    <3>2. DueIn(a, s, r) = 0 /\ Amount(q.part, r) = Amount(p.part, r) /\ q.own[r] = p.own[r]
      BY <1>4, <1>52, AmountEmpty
    <3> QED
      BY <3>1, <3>2 DEF BackedOf
  <2> QED
    BY <2>1, <2>2, <2>3, <2>4 DEF Pays
<1>8. SameFamily(s, {})
  BY <1>1, <1>5 DEF SameFamily, At, FlowOf, OpFlow, Unjoined
<1> QED
  BY <1>1, <1>2, <1>5, <1>51, <1>52, <1>6, <1>7, <1>8, PendStep

\* _wait.
LEMMA WaitKeeps ==
  ASSUME Good, NEW s, s = Head(stack).s, NEW u \in Units \cup {"kv"}, NEW amt \in Nat, NEW gang \in BOOLEAN, Top("try"), Wait(s, u, amt, gang)
  PROVE  Good'
<1> DEFINE b == Tail(stack)
           p == pend[s]
           q == [p EXCEPT !.mode = "waiting", !.want = <<u, amt>>, !.gang = gang, !.flag = ~gang /\ InWaitCycle(s, u)]
           a == <<>>
<1>1. Below(b, s) /\ At(s, {"try"}, ClearsIn(b, s))
  BY AtCall DEF Top, IsThread, ThreadOps
<1>2. s \in Sessions /\ p \in PendRec
  BY <1>1 DEF At
<1>3. <<u, amt>> \in Wants /\ (~gang /\ InWaitCycle(s, u)) \in BOOLEAN /\ <<u, amt>>[1] # "none"
  BY UnitsAre DEF Wants, InWaitCycle
<1>4. q \in PendRec /\ q.mode = "waiting" /\ q.step = p.step /\ q.part = p.part /\ q.own = p.own /\ q.par = p.par /\ q.want = <<u, amt>> /\ q.due = p.due /\ q.flag = (~gang /\ InWaitCycle(s, u))
  BY <1>2, <1>3 DEF PendRec, Modes
<1>5. /\ world' = world /\ prog' = prog /\ held' = held /\ kv' = kv
      /\ stack' = a \o b /\ pend' = [pend EXCEPT ![s] = q]
  BY DEF Wait, Run
<1>51. lease' \in [Sessions -> Bags] /\ aimd' \in [cap : Nat, streak : Nat]
  BY <1>2, Data DEF Wait, Run
<1>52. Volley(a, s, {}, FALSE, {}) /\ \A r \in Units : DueIn(a, s, r) = 0
  BY VolleyNone, ViewOfNone
<1> HIDE DEF a, b, p, q
<1>6. pend' \in [Sessions -> PendRec] /\ pend'[s] = q /\ \A o \in Sessions : o # s => pend'[o] = pend[o]
  BY <1>2, <1>4, <1>5, Data
<1>7. Pays(s, q, prog[s], held[s], kv[s].at, a, {}, FALSE, {}, ClearsIn(b, s))
  <2>1. FlowOf(q, prog[s], kv[s].at, {}, FALSE)
    BY <1>1, <1>4, <1>3 DEF At, FlowOf, OpFlow, p, Pausing
  <2>2. ClearOf(q, prog[s], {}, {} \cup ClearsIn(b, s), {})
    BY <1>1, <1>4 DEF At, ClearOf, p, Vacant, Idling, EarlyOps
  <2>3. PartOf(q)
    <3>1. PartOf(p) /\ p.mode # "tool"
      BY <1>1 DEF At, FlowOf, OpFlow, p, Pausing
    <3> QED
      BY <1>4, <3>1 DEF PartOf
  <2>4. \A r \in Units : BackedOf(q, prog[s], held[s][r], DueIn(a, s, r), r)
    <3> SUFFICES ASSUME NEW r \in Units PROVE BackedOf(q, prog[s], held[s][r], DueIn(a, s, r), r)
      OBVIOUS
    <3>1. /\ Amount(p.part, r) \in Nat /\ p.own[r] \in Nat /\ prog[s].holds[r] \in Nat /\ held[s][r] \in Nat
          /\ held[s][r] >= prog[s].holds[r] + Amount(p.part, r) /\ p.own[r] <= prog[s].holds[r]
      BY <1>1, Sizes DEF p
    <3>2. DueIn(a, s, r) = 0 /\ Amount(q.part, r) = Amount(p.part, r) /\ q.own[r] = p.own[r]
      BY <1>4, <1>52, AmountEmpty
    <3> QED
      BY <3>1, <3>2 DEF BackedOf
  <2> QED
    BY <2>1, <2>2, <2>3, <2>4 DEF Pays
<1>8. SameFamily(s, {})
  BY <1>1, <1>5 DEF SameFamily, At, FlowOf, OpFlow, Unjoined
<1> QED
  BY <1>1, <1>2, <1>5, <1>51, <1>52, <1>6, <1>7, <1>8, PendStep

\* _fail.
LEMMA FailKeeps ==
  ASSUME Good, NEW s, s = Head(stack).s, NEW op \in {"try", "throttled"}, Top(op), Fail(s)
  PROVE  Good'
<1> DEFINE b == Tail(stack)
           p == pend[s]
           q == [p EXCEPT !.part = <<>>, !.par = FALSE]
           a == GiveEach(s, p.part) \o <<Call("react", s)>>
<1>1. Below(b, s) /\ At(s, {op}, ClearsIn(b, s))
  BY AtCall DEF Top, IsThread, ThreadOps
<1>2. s \in Sessions /\ p \in PendRec
  BY <1>1 DEF At
<1>3. <<>> \in Parts
  BY DEF Parts
<1>4. q \in PendRec /\ q.mode = p.mode /\ q.step = p.step /\ q.part = <<>> /\ q.own = p.own /\ q.par = FALSE /\ q.want = p.want /\ q.due = p.due /\ q.flag = p.flag
  BY <1>2, <1>3, ZenonT(40) DEF PendRec
<1>5. /\ world' = world /\ prog' = prog /\ held' = held /\ kv' = kv
      /\ stack' = a \o b /\ pend' = [pend EXCEPT ![s] = q]
  BY DEF Fail, Run
<1>51. lease' \in [Sessions -> Bags] /\ aimd' \in [cap : Nat, streak : Nat]
  BY <1>2, Data DEF Fail, Run
<1>52. Volley(a, s, {"react"}, TRUE, {}) /\ \A r \in Units : DueIn(a, s, r) = Amount(p.part, r)
  <2>1. p.part \in Parts /\ \A i \in DOMAIN p.part : p.part[i][2] > 0
    BY <1>1, <1>2, PendIs DEF At, PartOf
  <2> DEFINE e == GiveEach(s, p.part)
  <2>2. Volley(e, s, {}, TRUE, {}) /\ \A r \in Units : DueIn(e, s, r) = Amount(p.part, r)
    BY <1>2, <2>1, VolleyEach
  <2>3. "react" \in ThreadOps
    BY DEF ThreadOps
  <2> HIDE DEF e, p
  <2>4. /\ Volley(e \o <<Call("react", s)>>, s, {"react"}, TRUE, {})
        /\ \A r : DueIn(e \o <<Call("react", s)>>, s, r) = DueIn(e, s, r)
    BY <1>2, <2>2, <2>3, VolleyEnds, ZenonT(40)
  <2> QED
    BY <2>2, <2>4 DEF e
<1> HIDE DEF a, b, p, q
<1>6. pend' \in [Sessions -> PendRec] /\ pend'[s] = q /\ \A o \in Sessions : o # s => pend'[o] = pend[o]
  BY <1>2, <1>4, <1>5, Data
<1>7. Pays(s, q, prog[s], held[s], kv[s].at, a, {"react"}, TRUE, {}, ClearsIn(b, s))
  <2>1. FlowOf(q, prog[s], kv[s].at, {"react"}, TRUE)
    BY <1>1, <1>4 DEF At, FlowOf, OpFlow, p, Pausing
  <2>2. ClearOf(q, prog[s], {"react"}, {} \cup ClearsIn(b, s), ClearsIn(b, s))
    BY <1>1, <1>4, SMTT(100) DEF At, ClearOf, p, Vacant, Idling, EarlyOps
  <2>3. PartOf(q)
    BY <1>1, <1>4, SMTT(100) DEF At, PartOf, p
  <2>4. \A r \in Units : BackedOf(q, prog[s], held[s][r], DueIn(a, s, r), r)
    <3> SUFFICES ASSUME NEW r \in Units PROVE BackedOf(q, prog[s], held[s][r], DueIn(a, s, r), r)
      OBVIOUS
    <3>1. /\ Amount(p.part, r) \in Nat /\ p.own[r] \in Nat /\ prog[s].holds[r] \in Nat /\ held[s][r] \in Nat
          /\ held[s][r] >= prog[s].holds[r] + Amount(p.part, r) /\ p.own[r] <= prog[s].holds[r]
      BY <1>1, Sizes DEF p
    <3>2. DueIn(a, s, r) = Amount(p.part, r) /\ Amount(q.part, r) = 0 /\ q.own[r] = p.own[r]
      BY <1>4, <1>52, AmountEmpty
    <3> QED
      BY <3>1, <3>2 DEF BackedOf
  <2> QED
    BY <2>1, <2>2, <2>3, <2>4 DEF Pays
<1>8. SameFamily(s, {"react"})
  BY <1>1, <1>5 DEF SameFamily, At, FlowOf, OpFlow, Unjoined
<1> QED
  BY <1>1, <1>2, <1>5, <1>51, <1>52, <1>6, <1>7, <1>8, PendStep

\* A gate pauses the step.
LEMMA PauseKeeps ==
  ASSUME Good, NEW s, s = Head(stack).s, Top("try"), Pause(s)
  PROVE  Good'
<1> DEFINE b == Tail(stack)
           p == pend[s]
           q == [p EXCEPT !.part = <<>>, !.par = FALSE, !.due = TRUE]
           a == GiveEach(s, p.part)
<1>1. Below(b, s) /\ At(s, {"try"}, ClearsIn(b, s))
  BY AtCall DEF Top, IsThread, ThreadOps
<1>2. s \in Sessions /\ p \in PendRec
  BY <1>1 DEF At
<1>3. <<>> \in Parts
  BY DEF Parts
<1>4. q \in PendRec /\ q.mode = p.mode /\ q.step = p.step /\ q.part = <<>> /\ q.own = p.own /\ q.par = FALSE /\ q.want = p.want /\ q.due = TRUE /\ q.flag = p.flag
  BY <1>2, <1>3 DEF PendRec
<1>5. /\ world' = world /\ prog' = prog /\ held' = held /\ kv' = kv
      /\ stack' = a \o b /\ pend' = [pend EXCEPT ![s] = q]
  BY DEF Pause, Run
<1>51. lease' \in [Sessions -> Bags] /\ aimd' \in [cap : Nat, streak : Nat]
  BY <1>2, Data DEF Pause, Run
<1>52. Volley(a, s, {}, TRUE, {}) /\ \A r \in Units : DueIn(a, s, r) = Amount(p.part, r)
  <2>1. p.part \in Parts /\ \A i \in DOMAIN p.part : p.part[i][2] > 0
    BY <1>1, <1>2, PendIs DEF At, PartOf
  <2> DEFINE e == GiveEach(s, p.part)
  <2>2. Volley(e, s, {}, TRUE, {}) /\ \A r \in Units : DueIn(e, s, r) = Amount(p.part, r)
    BY <1>2, <2>1, VolleyEach
  <2> QED
    BY <2>2
<1> HIDE DEF a, b, p, q
<1>6. pend' \in [Sessions -> PendRec] /\ pend'[s] = q /\ \A o \in Sessions : o # s => pend'[o] = pend[o]
  BY <1>2, <1>4, <1>5, Data
<1>7. Pays(s, q, prog[s], held[s], kv[s].at, a, {}, TRUE, {}, ClearsIn(b, s))
  <2>1. FlowOf(q, prog[s], kv[s].at, {}, TRUE)
    BY <1>1, <1>4 DEF At, FlowOf, OpFlow, p, Pausing
  <2>2. ClearOf(q, prog[s], {}, {} \cup ClearsIn(b, s), {})
    BY <1>1, <1>4, SMTT(100) DEF At, ClearOf, p, Vacant, Idling, EarlyOps
  <2>3. PartOf(q)
    BY <1>1, <1>4, SMTT(100) DEF At, PartOf, p
  <2>4. \A r \in Units : BackedOf(q, prog[s], held[s][r], DueIn(a, s, r), r)
    <3> SUFFICES ASSUME NEW r \in Units PROVE BackedOf(q, prog[s], held[s][r], DueIn(a, s, r), r)
      OBVIOUS
    <3>1. /\ Amount(p.part, r) \in Nat /\ p.own[r] \in Nat /\ prog[s].holds[r] \in Nat /\ held[s][r] \in Nat
          /\ held[s][r] >= prog[s].holds[r] + Amount(p.part, r) /\ p.own[r] <= prog[s].holds[r]
      BY <1>1, Sizes DEF p
    <3>2. DueIn(a, s, r) = Amount(p.part, r) /\ Amount(q.part, r) = 0 /\ q.own[r] = p.own[r]
      BY <1>4, <1>52, AmountEmpty
    <3> QED
      BY <3>1, <3>2 DEF BackedOf
  <2> QED
    BY <2>1, <2>2, <2>3, <2>4 DEF Pays
<1>8. SameFamily(s, {})
  BY <1>1, <1>5 DEF SameFamily, At, FlowOf, OpFlow, Unjoined
<1> QED
  BY <1>1, <1>2, <1>5, <1>51, <1>52, <1>6, <1>7, <1>8, PendStep

-----------------------------------------------------------------------------
(* Leases are made of units. *)

LEMMA LeasedIs ==
  ASSUME Good, NEW r \in Units
  PROVE  Leased(r) \in Nat
<1> DEFINE f == [o \in Sessions |-> lease[o][r]]
<1>1. IsFiniteSet(Sessions)
  BY Data, SessionsFinite
<1>2. \A o \in Sessions : f[o] \in Nat
  BY Data DEF Bags
<1> HIDE DEF f
<1>3. SumFunctionOnSet(f, Sessions) \in Nat
  BY <1>1, <1>2, SumNat
<1> QED
  BY <1>3 DEF Leased, f

LEMMA FittingIs ==
  ASSUME Good, NEW offer \in Bags
  PROVE  Fitting(offer) \in Bags
<1> SUFFICES ASSUME NEW r \in Units
             PROVE  Min({offer[r], Max({0, world.cap[r] - Leased(r)})}) \in Nat
  BY DEF Fitting, Bags
<1>1. offer[r] \in Nat /\ world.cap[r] \in Nat /\ Leased(r) \in Nat
  BY Data, WorldIs, LeasedIs DEF IsWorld, Bags
<1> DEFINE x == world.cap[r] - Leased(r)
           m == Max({0, x})
<1>2. x \in Int
  BY <1>1
<1> HIDE DEF x
<1>3. m \in Nat
  BY <1>2, MaxIs
<1> DEFINE y == offer[r]
<1>31. y \in Nat /\ y \in Int /\ m \in Int
  BY <1>1, <1>3
<1> HIDE DEF m, y
<1>4. Min({y, m}) \in {y, m}
  BY <1>31, MinIs
<1>5. Min({y, m}) \in Nat
  BY <1>31, <1>3, <1>4
<1> QED
  BY <1>5 DEF m, x, y

LEMMA ReplaceTyped ==
  ASSUME Good, NEW s \in Sessions, NEW group \in Nat, NEW joining, Replace(s, group, joining)
  PROVE  lease' \in [Sessions -> Bags]
<1> DEFINE A == [Nothing EXCEPT !["cpu"] = group]
           B == [Nothing EXCEPT !["slots"] = Cardinality(Kids(s)), !["cpu"] = Cardinality(Kids(s)),
                                !["mem"] = SumFunctionOnSet(world.gb, Kids(s))]
<1>1. PICK l \in Offers(s, group, joining) : lease' = [lease EXCEPT ![s] = l]
  BY DEF Replace
<1>2. IsFiniteSet(Kids(s)) /\ Kids(s) \subseteq Sessions
  BY Data, WorldIs, FS_EmptySet DEF Kids
<1>3. Cardinality(Kids(s)) \in Nat
  BY <1>2, FS_CardinalityType
<1>4. SumFunctionOnSet(world.gb, Kids(s)) \in Nat
  <2>1. \A c \in Kids(s) : world.gb[c] \in Nat
    BY <1>2, Data, WorldIs DEF IsWorld, Sessions
  <2> QED
    BY <1>2, <2>1, SumNat
<1>5. A \in Bags /\ B \in Bags
  BY <1>3, <1>4, BagOf DEF Bags
<1> HIDE DEF A, B
<1>6. Fitting(A) \in Bags /\ Fitting(B) \in Bags /\ Nothing \in Bags
  BY <1>5, FittingIs, BagOf
<1>7. l \in {Nothing, Fitting(A), Fitting(B)}
  BY <1>1 DEF Offers, A, B
<1>8. l \in Bags
  BY <1>6, <1>7
<1> QED
  BY <1>1, <1>8, Data

-----------------------------------------------------------------------------
(* _ready: the next step of s, from a chat, a retry, a tool or a fetch. *)

LEMMA ReadyPays ==
  ASSUME Good, NEW s, NEW op \in {"chat", "react", "next", "fetched"}, NEW below, At(s, {op}, below),
         NEW step \in Steps, NEW rest \in Seq(Works), step.loc = 0 \/ op = "next",
         NEW g \in ProgRec, g.life = prog[s].life, g.holds = prog[s].holds, g.nap = prog[s].nap,
         g.joins = prog[s].joins, g.fanned = prog[s].fanned
  PROVE  /\ [NoPending("ready") EXCEPT !.step = step, !.rest = rest] \in PendRec
         /\ Pays(s, [NoPending("ready") EXCEPT !.step = step, !.rest = rest], g, held[s], kv[s].at,
                 <<Call("try", s)>>, {"try"}, FALSE, {}, below)
<1> DEFINE n == NoPending("ready")
           q == [n EXCEPT !.step = step, !.rest = rest]
           p == pend[s]
           a == <<Call("try", s)>>
<1>1. /\ n \in PendRec /\ n.mode = "ready" /\ n.part = <<>> /\ n.own = Nothing
      /\ n.par = FALSE /\ n.due = FALSE /\ n.flag = FALSE /\ n.gang = FALSE
  BY NewPending DEF Modes
<1>2. s \in Sessions /\ p \in PendRec /\ FlowOf(p, prog[s], kv[s].at, {op}, FALSE) /\ \A r \in below : Vacant(p, {op}, r)
  BY DEF At
<1>21. below # {} => prog[s].life # "off"
  BY DEF At
<1> HIDE DEF n
<1>3. /\ q \in PendRec /\ q.mode = "ready" /\ q.step = step /\ q.part = <<>> /\ q.own = Nothing
      /\ q.par = FALSE /\ q.due = FALSE /\ q.flag = FALSE
  BY <1>1 DEF PendRec
<1>4. \A r \in Units : DueIn(a, s, r) = 0
  <2>1. Volley(a, s, {"try"}, FALSE, {})
    BY <1>2, VolleyCall DEF ThreadOps
  <2> HIDE DEF a
  <2>2. a \in Seq(Frame) /\ ~GivesIn(a, s)
    BY <2>1 DEF Volley
  <2> QED
    BY <2>2, NothingDue
<1> HIDE DEF q, p, a
<1>5. /\ prog[s].life = "active" /\ prog[s].nap = "no" /\ prog[s].joins = 0 /\ kv[s].at \notin {"active", "decode"}
  BY <1>2 DEF FlowOf, OpFlow
<1>6. FlowOf(q, g, kv[s].at, {"try"}, FALSE)
  BY <1>3, <1>5 DEF FlowOf, OpFlow, Pausing
<1>7. ClearOf(q, g, {"try"}, {} \cup below, below)
  <2>1. ASSUME NEW r \in below
        PROVE  Vacant(q, {"try"}, r)
    <3>1. Vacant(p, {op}, r)
      BY <1>2
    <3> QED
      BY <1>3, <3>1 DEF Vacant, EarlyOps
  <2> QED
    BY <1>21, <2>1 DEF ClearOf
<1>8. PartOf(q)
  <2>1. DOMAIN <<>> = {} /\ Nothing["slots"] = 0 /\ Nothing["mem"] = 0 /\ Nothing["cpu"] = 0
    BY BagOf, UnitsAre
  <2> QED
    BY <1>3, <2>1 DEF PartOf
<1>9. \A r \in Units : BackedOf(q, g, held[s][r], DueIn(a, s, r), r)
  <2> SUFFICES ASSUME NEW r \in Units PROVE BackedOf(q, g, held[s][r], DueIn(a, s, r), r)
    OBVIOUS
  <2>1. /\ Amount(p.part, r) \in Nat /\ prog[s].holds[r] \in Nat /\ held[s][r] \in Nat
        /\ held[s][r] >= prog[s].holds[r] + Amount(p.part, r)
    BY Sizes DEF p
  <2>2. DueIn(a, s, r) = 0 /\ Amount(q.part, r) = 0 /\ q.own[r] = 0
    BY <1>3, <1>4, AmountEmpty, BagOf
  <2> QED
    BY <2>1, <2>2 DEF BackedOf
<1>10. Pays(s, q, g, held[s], kv[s].at, a, {"try"}, FALSE, {}, below)
  BY <1>6, <1>7, <1>8, <1>9 DEF Pays
<1> QED
  BY <1>3, <1>10 DEF q, n, a

LEMMA ReadyKeeps ==
  ASSUME Good, NEW s, s = Head(stack).s, NEW op \in {"chat", "react", "next", "fetched"}, Top(op),
         NEW step \in Steps, NEW rest \in Seq(Works), step.loc = 0 \/ op = "next", Ready(s, step, rest),
         NEW g \in ProgRec, prog' = [prog EXCEPT ![s] = g],
         g.life = prog[s].life, g.holds = prog[s].holds, g.nap = prog[s].nap,
         g.joins = prog[s].joins, g.fanned = prog[s].fanned
  PROVE  Good'
<1> DEFINE b == Tail(stack)
           q == [NoPending("ready") EXCEPT !.step = step, !.rest = rest]
           a == <<Call("try", s)>>
<1>1. Below(b, s) /\ At(s, {op}, ClearsIn(b, s))
  BY AtCall DEF Top, IsThread, ThreadOps
<1>2. s \in Sessions
  BY <1>1 DEF At
<1>3. /\ world' = world /\ held' = held /\ kv' = kv /\ aimd' = aimd
      /\ stack' = a \o b /\ pend' = [pend EXCEPT ![s] = q]
  BY DEF Ready, Run
<1>4. Replace(s, step.loc, FALSE) /\ step.loc \in Nat
  BY StepIs DEF Ready
<1>5. lease' \in [Sessions -> Bags]
  BY <1>2, <1>4, ReplaceTyped
<1>6. Volley(a, s, {"try"}, FALSE, {})
  BY <1>2, VolleyCall DEF ThreadOps
<1> HIDE DEF b
<1>7. q \in PendRec /\ Pays(s, q, g, held[s], kv[s].at, a, {"try"}, FALSE, {}, ClearsIn(b, s))
  BY <1>1, ReadyPays, ZenonT(40)
<1> HIDE DEF q, a
<1>8. /\ pend' \in [Sessions -> PendRec] /\ prog' \in [Sessions -> ProgRec] /\ held' \in [Sessions -> [Units -> Int]]
      /\ kv' \in [Sessions -> Cache] /\ aimd' \in [cap : Nat, streak : Nat]
      /\ pend'[s] = q /\ prog'[s] = g
      /\ \A o \in Sessions : o # s => pend'[o] = pend[o] /\ prog'[o] = prog[o]
  BY <1>2, <1>3, <1>7, Data
<1>9. \A o \in Sessions : o # s => Kept(o)
  BY <1>3, <1>8 DEF Kept
<1>10. Settled(s, a, {"try"}, FALSE, {}, ClearsIn(b, s))
  BY <1>3, <1>7, <1>8 DEF Settled
<1>11. SameFamily(s, {"try"})
  BY <1>1, <1>8 DEF SameFamily, At, FlowOf, OpFlow, Unjoined
<1> QED
  BY <1>1, <1>2, <1>3, <1>5, <1>6, <1>8, <1>9, <1>10, <1>11, StepKeeps

LEMMA SameProgram ==
  ASSUME Good, NEW s \in Sessions, prog' = prog
  PROVE  prog[s] \in ProgRec /\ prog' = [prog EXCEPT ![s] = prog[s]]
BY Data

LEMMA WorldOuts ==
  ASSUME Good
  PROVE  world.outs \subseteq Nat /\ \A l \in world.tools : l \in Seq(Works)
<1>1. IsWorld(world)
  BY Data, WorldIs
<1>2. world.tools \subseteq Seq(ToolSteps) /\ world.outs \subseteq Nat
  BY <1>1 DEF IsWorld
<1>3. \A l \in Seq(ToolSteps) : l \in Seq(Works)
  BY DEF Works
<1> QED
  BY <1>2, <1>3

LEMMA ReadyChatKeeps ==
  ASSUME Good, ReadyChat
  PROVE  Good'
<1> DEFINE s == Head(stack).s
<1>0. Top("chat") /\ prog' = prog
  BY DEF ReadyChat
<1>1. s \in Sessions
  BY <1>0, AtCall DEF Top, IsThread, ThreadOps, At
<1>2. prog[s] \in ProgRec /\ prog' = [prog EXCEPT ![s] = prog[s]]
  BY <1>0, <1>1, SameProgram
<1>3. CASE Ready(s, Fetch, <<>>)
  <2>1. Fetch \in Steps /\ <<>> \in Seq(Works) /\ Fetch.loc = 0
    BY FetchOf, WorkIs
  <2> HIDE DEF s
  <2> QED
    BY <1>0, <1>2, <1>3, <2>1, ReadyKeeps DEF s
<1>4. ASSUME NEW out \in world.outs, Ready(s, Chat(<<>>, out), <<>>)
      PROVE  Good'
  <2>1. Chat(<<>>, out) \in Steps /\ <<>> \in Seq(Works) /\ Chat(<<>>, out).loc = 0
    <3>1. out \in Nat /\ <<>> \in Seq(Works)
      BY WorldOuts
    <3> QED
      BY <3>1, ChatOf
  <2> QED
    BY <1>0, <1>2, <1>4, <2>1, ReadyKeeps
<1> QED
  BY <1>3, <1>4 DEF ReadyChat

LEMMA FetchReturnsKeeps ==
  ASSUME Good, FetchReturns
  PROVE  Good'
<1> DEFINE s == Head(stack).s
<1>0. Top("fetched") /\ prog' = prog
  BY DEF FetchReturns
<1>1. s \in Sessions
  BY <1>0, AtCall DEF Top, IsThread, ThreadOps, At
<1>2. prog[s] \in ProgRec /\ prog' = [prog EXCEPT ![s] = prog[s]]
  BY <1>0, <1>1, SameProgram
<1>3. PICK out \in world.outs : Ready(s, Chat(<<>>, out), <<>>)
  BY DEF FetchReturns
<1>4. Chat(<<>>, out) \in Steps /\ <<>> \in Seq(Works) /\ Chat(<<>>, out).loc = 0
  <2>1. out \in Nat /\ <<>> \in Seq(Works)
    BY WorldOuts
  <2> QED
    BY <2>1, ChatOf
<1> QED
  BY <1>0, <1>2, <1>3, <1>4, ReadyKeeps

\* Think again, then redo the failed step.
LEMMA ReplanKeeps ==
  ASSUME Good, NEW s, s = Head(stack).s, Top("react"), Replan(s)
  PROVE  Good'
<1> DEFINE redo == IF IsChat(s) THEN <<>> ELSE <<pend[s].step>> \o pend[s].rest
           g == Failed(s)
<1>1. s \in Sessions /\ pend[s] \in PendRec /\ prog[s] \in ProgRec
  BY AtCall DEF Top, IsThread, ThreadOps, At
<1>2. PICK out \in world.outs : Ready(s, Chat(redo, out), <<>>) /\ prog' = [prog EXCEPT ![s] = Failed(s)]
  BY DEF Replan
<1>3. out \in Nat /\ <<>> \in Seq(Works)
  BY WorldOuts
<1>4. redo \in Seq(Works)
  <2>1. pend[s].step \in Steps /\ pend[s].rest \in Seq(Works)
    BY <1>1, PendIs
  <2>2. CASE IsChat(s)
    BY <1>3, <2>2
  <2>3. CASE ~IsChat(s)
    <3>1. pend[s].step \in Works
      BY <2>1, <2>3, StepIs DEF IsChat
    <3>2. <<pend[s].step>> \in Seq(Works)
      BY <3>1
    <3> QED
      BY <2>1, <2>3, <3>2
  <2> QED
    BY <2>2, <2>3
<1> HIDE DEF redo
<1>5. Chat(redo, out) \in Steps /\ Chat(redo, out).loc = 0
  BY <1>3, <1>4, ChatOf
<1>6. /\ g \in ProgRec /\ g.life = prog[s].life /\ g.holds = prog[s].holds /\ g.nap = prog[s].nap
      /\ g.joins = prog[s].joins /\ g.fanned = prog[s].fanned
  BY <1>1 DEF Failed, ProgRec
<1> HIDE DEF g
<1>7. prog' = [prog EXCEPT ![s] = g]
  BY <1>2 DEF g
<1> QED
  BY <1>2, <1>3, <1>5, <1>6, <1>7, ReadyKeeps

LEMMA CallVolley ==
  ASSUME NEW s \in Sessions, NEW op \in ThreadOps
  PROVE  Volley(<<Call(op, s)>>, s, {op}, FALSE, {}) /\ \A r : DueIn(<<Call(op, s)>>, s, r) = 0
<1> DEFINE a == <<Call(op, s)>>
<1>1. Volley(a, s, {op}, FALSE, {})
  BY VolleyCall
<1> HIDE DEF a
<1>2. a \in Seq(Frame) /\ ~GivesIn(a, s)
  BY <1>1 DEF Volley
<1>3. \A r : DueIn(a, s, r) = 0
  BY <1>2, NothingDue
<1> QED
  BY <1>1, <1>3 DEF a

\* The list of tools is done: the next chat.
LEMMA RestDone ==
  ASSUME Good, NEW s, s = Head(stack).s, Top("next"), pend' = [pend EXCEPT ![s] = NoPending("ready")], Run(<<Call("chat", s)>>), UNCHANGED <<world, prog, held, lease, kv, aimd>>
  PROVE  Good'
<1> DEFINE b == Tail(stack)
           p == pend[s]
           q == NoPending("ready")
           a == <<Call("chat", s)>>
<1>1. Below(b, s) /\ At(s, {"next"}, ClearsIn(b, s))
  BY AtCall DEF Top, IsThread, ThreadOps
<1>2. s \in Sessions /\ p \in PendRec
  BY <1>1 DEF At
<1>4. q \in PendRec /\ q.mode = "ready" /\ q.step = Fetch /\ q.part = <<>> /\ q.own = Nothing /\ q.par = FALSE /\ q.due = FALSE /\ q.flag = FALSE
  BY NewPending DEF Modes
<1>5. /\ world' = world /\ prog' = prog /\ held' = held /\ kv' = kv
      /\ stack' = a \o b /\ pend' = [pend EXCEPT ![s] = q]
  BY DEF Run
<1>51. lease' \in [Sessions -> Bags] /\ aimd' \in [cap : Nat, streak : Nat]
  BY <1>2, Data DEF Run
<1>52. Volley(a, s, {"chat"}, FALSE, {}) /\ \A r \in Units : DueIn(a, s, r) = 0
  BY <1>2, CallVolley DEF ThreadOps
<1> HIDE DEF a, b, p, q
<1>6. pend' \in [Sessions -> PendRec] /\ pend'[s] = q /\ \A o \in Sessions : o # s => pend'[o] = pend[o]
  BY <1>2, <1>4, <1>5, Data
<1>7. Pays(s, q, prog[s], held[s], kv[s].at, a, {"chat"}, FALSE, {}, ClearsIn(b, s))
  <2>1. FlowOf(q, prog[s], kv[s].at, {"chat"}, FALSE)
    BY <1>1, <1>4 DEF At, FlowOf, OpFlow, p, Pausing
  <2>2. ClearOf(q, prog[s], {"chat"}, {} \cup ClearsIn(b, s), ClearsIn(b, s))
    BY <1>1, <1>4 DEF At, ClearOf, p, Vacant, Idling, EarlyOps
  <2>3. PartOf(q)
    <3>1. DOMAIN <<>> = {} /\ Nothing["slots"] = 0 /\ Nothing["mem"] = 0 /\ Nothing["cpu"] = 0
      BY BagOf, UnitsAre
    <3> QED
      BY <1>4, <3>1 DEF PartOf
  <2>4. \A r \in Units : BackedOf(q, prog[s], held[s][r], DueIn(a, s, r), r)
    <3> SUFFICES ASSUME NEW r \in Units PROVE BackedOf(q, prog[s], held[s][r], DueIn(a, s, r), r)
      OBVIOUS
    <3>1. /\ Amount(p.part, r) \in Nat /\ p.own[r] \in Nat /\ prog[s].holds[r] \in Nat /\ held[s][r] \in Nat
          /\ held[s][r] >= prog[s].holds[r] + Amount(p.part, r) /\ p.own[r] <= prog[s].holds[r]
      BY <1>1, Sizes DEF p
    <3>2. DueIn(a, s, r) = 0 /\ Amount(q.part, r) = 0 /\ q.own[r] = 0
      BY <1>4, <1>52, AmountEmpty, BagOf, SMTT(100)
    <3> QED
      BY <3>1, <3>2 DEF BackedOf
  <2> QED
    BY <2>1, <2>2, <2>3, <2>4 DEF Pays
<1>8. SameFamily(s, {"chat"})
  BY <1>1, <1>5 DEF SameFamily, At, FlowOf, OpFlow, Unjoined
<1> QED
  BY <1>1, <1>2, <1>5, <1>51, <1>52, <1>6, <1>7, <1>8, PendStep

LEMMA ProceedKeeps ==
  ASSUME Good, Proceed
  PROVE  Good'
<1> DEFINE s == Head(stack).s
           rest == pend[s].rest
<1>0. Top("next")
  BY DEF Proceed
<1>1. s \in Sessions /\ pend[s] \in PendRec
  BY <1>0, AtCall DEF Top, IsThread, ThreadOps, At
<1>2. rest \in Seq(Works)
  BY <1>1, PendIs
<1>3. CASE rest # <<>>
  <2>1. Ready(s, Head(rest), Tail(rest)) /\ prog' = prog
    BY <1>3 DEF Proceed
  <2>2. Head(rest) \in Works /\ Tail(rest) \in Seq(Works)
    BY <1>2, <1>3
  <2>3. Head(rest) \in Steps
    BY <2>2, WorkIs
  <2>4. prog[s] \in ProgRec /\ prog' = [prog EXCEPT ![s] = prog[s]]
    BY <1>1, <2>1, SameProgram
  <2> HIDE DEF s, rest
  <2> QED
    BY <1>0, <2>1, <2>2, <2>3, <2>4, ReadyKeeps DEF s
<1>4. CASE rest = <<>>
  <2>1. /\ pend' = [pend EXCEPT ![s] = NoPending("ready")] /\ Run(<<Call("chat", s)>>)
        /\ UNCHANGED <<world, prog, held, lease, kv, aimd>>
    BY <1>4 DEF Proceed
  <2> HIDE DEF s, rest
  <2> QED
    BY <1>0, <2>1, RestDone DEF s
<1> QED
  BY <1>3, <1>4

LEMMA JoinsNat ==
  ASSUME Good, NEW s \in Sessions
  PROVE  prog[s].joins \in Nat
<1> DEFINE K == {c \in Kids(s) : Unjoined(c)}
<1>1. IsFiniteSet(Kids(s))
  BY Data, WorldIs, FS_EmptySet DEF Kids
<1>2. IsFiniteSet(K)
  BY <1>1, FS_Subset
<1>3. Cardinality(K) \in Nat
  BY <1>2, FS_CardinalityType
<1> QED
  BY <1>3 DEF Good, Families, Family1

\* on_external_429.
LEMMA ThrottleKeeps ==
  ASSUME Good, NEW s, s = Head(stack).s, Top("try"), Throttle(s)
  PROVE  Good'
<1> DEFINE b == Tail(stack)
           p == pend[s]
           q == pend[s]
           a == <<Call("throttled", s)>>
<1>1. Below(b, s) /\ At(s, {"try"}, ClearsIn(b, s))
  BY AtCall DEF Top, IsThread, ThreadOps
<1>2. s \in Sessions /\ p \in PendRec
  BY <1>1 DEF At
<1>3. Fewer \in [cap : Nat, streak : Nat]
  <2>1. aimd.cap \div 2 \in Nat
    BY Data
  <2>2. Max({1, aimd.cap \div 2}) \in Nat
    <3> DEFINE x == aimd.cap \div 2
    <3> HIDE DEF x
    <3> QED
      BY <2>1, MaxOne DEF x
  <2> QED
    BY <2>2 DEF Fewer
<1>4. q \in PendRec /\ q.mode = p.mode /\ q.step = p.step /\ q.part = p.part /\ q.own = p.own /\ q.par = p.par /\ q.want = p.want /\ q.due = p.due /\ q.flag = p.flag
  BY <1>2
<1>5. /\ world' = world /\ prog' = prog /\ held' = held /\ kv' = kv
      /\ stack' = a \o b /\ pend' = [pend EXCEPT ![s] = q]
  BY Data, <1>2 DEF Throttle, Run
<1>51. lease' \in [Sessions -> Bags] /\ aimd' \in [cap : Nat, streak : Nat]
  BY <1>2, Data, <1>3 DEF Throttle, Run
<1>52. Volley(a, s, {"throttled"}, FALSE, {}) /\ \A r \in Units : DueIn(a, s, r) = 0
  BY <1>2, CallVolley DEF ThreadOps
<1> HIDE DEF a, b, p, q
<1>6. pend' \in [Sessions -> PendRec] /\ pend'[s] = q /\ \A o \in Sessions : o # s => pend'[o] = pend[o]
  BY <1>2, <1>4, <1>5, Data
<1>7. Pays(s, q, prog[s], held[s], kv[s].at, a, {"throttled"}, FALSE, {}, ClearsIn(b, s))
  <2>1. FlowOf(q, prog[s], kv[s].at, {"throttled"}, FALSE)
    BY <1>1, <1>4, SMTT(100) DEF At, FlowOf, OpFlow, p, Pausing
  <2>2. ClearOf(q, prog[s], {"throttled"}, {} \cup ClearsIn(b, s), ClearsIn(b, s))
    BY <1>1, <1>4, SMTT(100) DEF At, ClearOf, p, Vacant, Idling, EarlyOps
  <2>3. PartOf(q)
    BY <1>1, <1>4, ZenonT(40) DEF At, PartOf, p
  <2>4. \A r \in Units : BackedOf(q, prog[s], held[s][r], DueIn(a, s, r), r)
    <3> SUFFICES ASSUME NEW r \in Units PROVE BackedOf(q, prog[s], held[s][r], DueIn(a, s, r), r)
      OBVIOUS
    <3>1. /\ Amount(p.part, r) \in Nat /\ p.own[r] \in Nat /\ prog[s].holds[r] \in Nat /\ held[s][r] \in Nat
          /\ held[s][r] >= prog[s].holds[r] + Amount(p.part, r) /\ p.own[r] <= prog[s].holds[r]
      BY <1>1, Sizes DEF p
    <3>2. DueIn(a, s, r) = 0 /\ Amount(q.part, r) = Amount(p.part, r) /\ q.own[r] = p.own[r]
      BY <1>4, <1>52, AmountEmpty
    <3> QED
      BY <3>1, <3>2 DEF BackedOf
  <2> QED
    BY <2>1, <2>2, <2>3, <2>4 DEF Pays
<1>8. SameFamily(s, {"throttled"})
  BY <1>1, <1>5 DEF SameFamily, At, FlowOf, OpFlow, Unjoined
<1> QED
  BY <1>1, <1>2, <1>5, <1>51, <1>52, <1>6, <1>7, <1>8, PendStep

LEMMA TryFails ==
  ASSUME Good, NEW s, s = Head(stack).s, Top("try"), Refuse(s)
  PROVE  Good'
<1>1. Fail(s) /\ "try" \in {"try", "throttled"}
  BY DEF Refuse
<1> QED
  BY <1>1, FailKeeps

LEMMA ThrottledKeeps ==
  ASSUME Good, Throttled
  PROVE  Good'
<1>1. Top("throttled") /\ Fail(Head(stack).s) /\ "throttled" \in {"try", "throttled"}
  BY DEF Throttled
<1> QED
  BY <1>1, FailKeeps

\* TOOL_END, after the step's units went back.
LEMMA ToolReturnsAt ==
  ASSUME Good, NEW s, s = Head(stack).s, Top("worked"), ToolReturns
  PROVE  Good'
<1> DEFINE b == Tail(stack)
           p == pend[s]
           q == pend[s]
           a == <<Call("next", s)>>
<1>1. Below(b, s) /\ At(s, {"worked"}, ClearsIn(b, s))
  BY AtCall DEF Top, IsThread, ThreadOps
<1>2. s \in Sessions /\ p \in PendRec
  BY <1>1 DEF At
<1>3. lease' \in [Sessions -> Bags]
  <2> DEFINE n == IF pend[s].rest = <<>> THEN 0 ELSE Head(pend[s].rest).loc
  <2>1. n \in Nat
    <3>1. pend[s].rest \in Seq(Works)
      BY <1>2, PendIs
    <3>2. pend[s].rest # <<>> => Head(pend[s].rest) \in Works
      BY <3>1
    <3> QED
      BY <3>2, WorkIs
  <2>2. Replace(s, n, FALSE)
    BY DEF ToolReturns
  <2> HIDE DEF n
  <2> QED
    BY <1>2, <2>1, <2>2, ReplaceTyped
<1>4. q \in PendRec /\ q.mode = p.mode /\ q.step = p.step /\ q.part = p.part /\ q.own = p.own /\ q.par = p.par /\ q.want = p.want /\ q.due = p.due /\ q.flag = p.flag
  BY <1>2
<1>5. /\ world' = world /\ prog' = prog /\ held' = held /\ kv' = kv
      /\ stack' = a \o b /\ pend' = [pend EXCEPT ![s] = q]
  BY Data, <1>2 DEF ToolReturns, Run
<1>51. lease' \in [Sessions -> Bags] /\ aimd' \in [cap : Nat, streak : Nat]
  BY <1>2, Data, <1>3 DEF ToolReturns, Run
<1>52. Volley(a, s, {"next"}, FALSE, {}) /\ \A r \in Units : DueIn(a, s, r) = 0
  BY <1>2, CallVolley DEF ThreadOps
<1> HIDE DEF a, b, p, q
<1>6. pend' \in [Sessions -> PendRec] /\ pend'[s] = q /\ \A o \in Sessions : o # s => pend'[o] = pend[o]
  BY <1>2, <1>4, <1>5, Data
<1>7. Pays(s, q, prog[s], held[s], kv[s].at, a, {"next"}, FALSE, {}, ClearsIn(b, s))
  <2>1. FlowOf(q, prog[s], kv[s].at, {"next"}, FALSE)
    BY <1>1, <1>4, SMTT(100) DEF At, FlowOf, OpFlow, p, Pausing
  <2>2. ClearOf(q, prog[s], {"next"}, {} \cup ClearsIn(b, s), ClearsIn(b, s))
    BY <1>1, <1>4, SMTT(100) DEF At, ClearOf, p, Vacant, Idling, EarlyOps
  <2>3. PartOf(q)
    BY <1>1, <1>4, ZenonT(40) DEF At, PartOf, p
  <2>4. \A r \in Units : BackedOf(q, prog[s], held[s][r], DueIn(a, s, r), r)
    <3> SUFFICES ASSUME NEW r \in Units PROVE BackedOf(q, prog[s], held[s][r], DueIn(a, s, r), r)
      OBVIOUS
    <3>1. /\ Amount(p.part, r) \in Nat /\ p.own[r] \in Nat /\ prog[s].holds[r] \in Nat /\ held[s][r] \in Nat
          /\ held[s][r] >= prog[s].holds[r] + Amount(p.part, r) /\ p.own[r] <= prog[s].holds[r]
      BY <1>1, Sizes DEF p
    <3>2. DueIn(a, s, r) = 0 /\ Amount(q.part, r) = Amount(p.part, r) /\ q.own[r] = p.own[r]
      BY <1>4, <1>52, AmountEmpty
    <3> QED
      BY <3>1, <3>2 DEF BackedOf
  <2> QED
    BY <2>1, <2>2, <2>3, <2>4 DEF Pays
<1>8. SameFamily(s, {"next"})
  BY <1>1, <1>5 DEF SameFamily, At, FlowOf, OpFlow, Unjoined
<1> QED
  BY <1>1, <1>2, <1>5, <1>51, <1>52, <1>6, <1>7, <1>8, PendStep

LEMMA ToolReturnsKeeps ==
  ASSUME Good, ToolReturns
  PROVE  Good'
<1>1. Top("worked")
  BY DEF ToolReturns
<1> QED
  BY <1>1, ToolReturnsAt

\* A session that waits has no call on the stack.
LEMMA AtWaiter ==
  ASSUME Good, NEW s \in Sessions, Waiting(s)
  PROVE  Below(stack, s) /\ At(s, {}, ClearsIn(stack, s))
<1>1. Typed /\ Flow(s) /\ Backed(s) /\ Orderly(stack) /\ stack \in Seq(Frame)
  BY DEF Good, Flows, Typed
<1>2. pend[s].mode = "waiting"
  BY DEF Waiting
<1>3. OpsIn(stack, s) = {} /\ ~GivesIn(stack, s)
  BY <1>1, <1>2 DEF Flow, FlowOf, OpFlow, Pausing
<1>4. LateIn(stack, s) = {} /\ \A r : DueIn(stack, s, r) = 0
  BY <1>1, <1>3, NoneLate, NothingDue
<1>5. /\ ClearsIn(stack, s) # {} => prog[s].life # "off"
      /\ \A r \in ClearsIn(stack, s) : Vacant(pend[s], {}, r)
  BY <1>1, <1>2, <1>3, <1>4 DEF Flow, ClearOf, Idling
<1>6. Below(stack, s)
  BY <1>1, <1>3, ViewItself DEF Below
<1>7. FlowOf(pend[s], prog[s], kv[s].at, {}, FALSE)
  <2> DEFINE no == FALSE
  <2>1. FlowOf(pend[s], prog[s], kv[s].at, OpsIn(stack, s), GivesIn(stack, s))
    BY <1>1 DEF Flow
  <2>2. no => GivesIn(stack, s)
    OBVIOUS
  <2> HIDE DEF no
  <2>3. FlowOf(pend[s], prog[s], kv[s].at, OpsIn(stack, s), no)
    BY <2>1, <2>2, FlowWeaker
  <2> QED
    BY <1>3, <2>3 DEF no
<1>8. \A r \in Units : BackedOf(pend[s], prog[s], held[s][r], 0, r)
  BY <1>1, <1>4 DEF Backed
<1> QED
  BY <1>1, <1>3, <1>5, <1>6, <1>7, <1>8 DEF At, Typed, Backed

\* _close_wait.
LEMMA UnwaitKeeps ==
  ASSUME Good, NEW s \in Sessions, Waiting(s), Unwait(s, stack)
  PROVE  Good'
<1> DEFINE b == stack
           p == pend[s]
           q == [p EXCEPT !.mode = "ready", !.want = <<"none", 0>>, !.gang = FALSE, !.flag = FALSE]
           a == <<Call("try", s)>>
<1>1. Below(b, s) /\ At(s, {}, ClearsIn(b, s))
  BY AtWaiter
<1>2. s \in Sessions /\ p \in PendRec
  BY <1>1 DEF At
<1>3. p.mode = "waiting" /\ <<"none", 0>> \in Wants /\ prog[s].joins \in Nat
  BY JoinsNat DEF Waiting, Wants
<1>4. q \in PendRec /\ q.mode = "ready" /\ q.step = p.step /\ q.part = p.part /\ q.own = p.own /\ q.par = p.par /\ q.due = p.due /\ q.flag = FALSE
  BY <1>2, <1>3 DEF PendRec, Modes
<1>5. /\ world' = world /\ prog' = prog /\ held' = held /\ kv' = kv
      /\ stack' = a \o b /\ pend' = [pend EXCEPT ![s] = q]
  BY DEF Unwait
<1>51. lease' \in [Sessions -> Bags] /\ aimd' \in [cap : Nat, streak : Nat]
  BY <1>2, Data DEF Unwait
<1>52. Volley(a, s, {"try"}, FALSE, {}) /\ \A r \in Units : DueIn(a, s, r) = 0
  BY <1>2, CallVolley DEF ThreadOps
<1> HIDE DEF a, b, p, q
<1>6. pend' \in [Sessions -> PendRec] /\ pend'[s] = q /\ \A o \in Sessions : o # s => pend'[o] = pend[o]
  BY <1>2, <1>4, <1>5, Data
<1>7. Pays(s, q, prog[s], held[s], kv[s].at, a, {"try"}, FALSE, {}, ClearsIn(b, s))
  <2>1. FlowOf(q, prog[s], kv[s].at, {"try"}, FALSE)
    BY <1>1, <1>4, <1>3 DEF At, FlowOf, OpFlow, p, Pausing
  <2>2. ClearOf(q, prog[s], {"try"}, {} \cup ClearsIn(b, s), ClearsIn(b, s))
    BY <1>1, <1>4 DEF At, ClearOf, p, Vacant, Idling, EarlyOps
  <2>3. PartOf(q)
    BY <1>1, <1>3, <1>4 DEF At, PartOf, p
  <2>4. \A r \in Units : BackedOf(q, prog[s], held[s][r], DueIn(a, s, r), r)
    <3> SUFFICES ASSUME NEW r \in Units PROVE BackedOf(q, prog[s], held[s][r], DueIn(a, s, r), r)
      OBVIOUS
    <3>1. /\ Amount(p.part, r) \in Nat /\ p.own[r] \in Nat /\ prog[s].holds[r] \in Nat /\ held[s][r] \in Nat
          /\ held[s][r] >= prog[s].holds[r] + Amount(p.part, r) /\ p.own[r] <= prog[s].holds[r]
      BY <1>1, Sizes DEF p
    <3>2. DueIn(a, s, r) = 0 /\ Amount(q.part, r) = Amount(p.part, r) /\ q.own[r] = p.own[r]
      BY <1>4, <1>52, AmountEmpty
    <3> QED
      BY <3>1, <3>2 DEF BackedOf
  <2> QED
    BY <2>1, <2>2, <2>3, <2>4 DEF Pays
<1>8. SameFamily(s, {"try"})
  BY <1>1, <1>5, <1>3 DEF SameFamily, At, FlowOf, OpFlow, Unjoined, p
<1> QED
  BY <1>1, <1>2, <1>5, <1>51, <1>52, <1>6, <1>7, <1>8, PendStep

LEMMA CallsOnly == \A f : <<f>> \o <<>> = <<f>>
OBVIOUS

\* TRY_RUN.
LEMMA DueTryKeeps ==
  ASSUME Good, NEW s \in Sessions, UNCHANGED <<world, aimd>>, DueTry(s)
  PROVE  Good'
<1> DEFINE b == <<>>
           p == pend[s]
           q == [p EXCEPT !.due = FALSE]
           a == <<Call("try", s)>>
<1>1. Below(b, s) /\ At(s, {}, ClearsIn(b, s))
  BY AtEvent DEF Handle, AtRest, DueTry
<1>2. s \in Sessions /\ p \in PendRec
  BY <1>1 DEF At
<1>3. prog[s].joins \in Nat /\ ClearsIn(b, s) = {}
  BY JoinsNat, ViewOfNone
<1>31. p.due
  BY DEF DueTry
<1>4. q \in PendRec /\ q.mode = p.mode /\ q.step = p.step /\ q.part = p.part /\ q.own = p.own /\ q.par = p.par /\ q.want = p.want /\ q.due = FALSE /\ q.flag = p.flag
  BY <1>2 DEF PendRec
<1>5. /\ world' = world /\ prog' = prog /\ held' = held /\ kv' = kv
      /\ stack' = a \o b /\ pend' = [pend EXCEPT ![s] = q]
  BY CallsOnly, <1>2 DEF DueTry, Handle
<1>51. lease' \in [Sessions -> Bags] /\ aimd' \in [cap : Nat, streak : Nat]
  BY <1>2, Data DEF DueTry, Handle
<1>52. Volley(a, s, {"try"}, FALSE, {}) /\ \A r \in Units : DueIn(a, s, r) = 0
  BY <1>2, CallVolley DEF ThreadOps
<1> HIDE DEF a, b, p, q
<1>6. pend' \in [Sessions -> PendRec] /\ pend'[s] = q /\ \A o \in Sessions : o # s => pend'[o] = pend[o]
  BY <1>2, <1>4, <1>5, Data
<1>7. Pays(s, q, prog[s], held[s], kv[s].at, a, {"try"}, FALSE, {}, ClearsIn(b, s))
  <2>1. FlowOf(q, prog[s], kv[s].at, {"try"}, FALSE)
    BY <1>1, <1>4, <1>3, <1>31 DEF At, FlowOf, OpFlow, p, Pausing
  <2>2. ClearOf(q, prog[s], {"try"}, {} \cup ClearsIn(b, s), ClearsIn(b, s))
    BY <1>1, <1>4, <1>3 DEF At, ClearOf, p, Vacant, Idling, EarlyOps
  <2>3. PartOf(q)
    BY <1>1, <1>4 DEF At, PartOf, p
  <2>4. \A r \in Units : BackedOf(q, prog[s], held[s][r], DueIn(a, s, r), r)
    <3> SUFFICES ASSUME NEW r \in Units PROVE BackedOf(q, prog[s], held[s][r], DueIn(a, s, r), r)
      OBVIOUS
    <3>1. /\ Amount(p.part, r) \in Nat /\ p.own[r] \in Nat /\ prog[s].holds[r] \in Nat /\ held[s][r] \in Nat
          /\ held[s][r] >= prog[s].holds[r] + Amount(p.part, r) /\ p.own[r] <= prog[s].holds[r]
      BY <1>1, Sizes DEF p
    <3>2. DueIn(a, s, r) = 0 /\ Amount(q.part, r) = Amount(p.part, r) /\ q.own[r] = p.own[r]
      BY <1>4, <1>52, AmountEmpty
    <3> QED
      BY <3>1, <3>2 DEF BackedOf
  <2> QED
    BY <2>1, <2>2, <2>3, <2>4 DEF Pays
<1>8. SameFamily(s, {"try"})
  BY <1>1, <1>5, <1>31 DEF SameFamily, At, FlowOf, OpFlow, Unjoined, p
<1> QED
  BY <1>1, <1>2, <1>5, <1>51, <1>52, <1>6, <1>7, <1>8, PendStep

\* The think time is over.
LEMMA RequestStartKeeps ==
  ASSUME Good, NEW s \in Sessions, UNCHANGED <<world, aimd>>, RequestStart(s)
  PROVE  Good'
<1> DEFINE b == <<>>
           p == pend[s]
           q == pend[s]
           a == <<Call("chat", s)>>
<1>1. Below(b, s) /\ At(s, {}, ClearsIn(b, s))
  BY AtEvent DEF Handle, AtRest, RequestStart
<1>2. s \in Sessions /\ p \in PendRec
  BY <1>1 DEF At
<1>3. prog[s].joins \in Nat /\ ClearsIn(b, s) = {}
  BY JoinsNat, ViewOfNone
<1>31. p.mode = "think" /\ prog[s].nap = "no"
  BY DEF RequestStart
<1>4. q \in PendRec /\ q.mode = p.mode /\ q.step = p.step /\ q.part = p.part /\ q.own = p.own /\ q.par = p.par /\ q.want = p.want /\ q.due = p.due /\ q.flag = p.flag
  BY <1>2
<1>5. /\ world' = world /\ prog' = prog /\ held' = held /\ kv' = kv
      /\ stack' = a \o b /\ pend' = [pend EXCEPT ![s] = q]
  BY CallsOnly, Data, <1>2 DEF RequestStart, Handle
<1>51. lease' \in [Sessions -> Bags] /\ aimd' \in [cap : Nat, streak : Nat]
  BY <1>2, Data DEF RequestStart, Handle
<1>52. Volley(a, s, {"chat"}, FALSE, {}) /\ \A r \in Units : DueIn(a, s, r) = 0
  BY <1>2, CallVolley DEF ThreadOps
<1> HIDE DEF a, b, p, q
<1>6. pend' \in [Sessions -> PendRec] /\ pend'[s] = q /\ \A o \in Sessions : o # s => pend'[o] = pend[o]
  BY <1>2, <1>4, <1>5, Data
<1>7. Pays(s, q, prog[s], held[s], kv[s].at, a, {"chat"}, FALSE, {}, ClearsIn(b, s))
  <2>1. FlowOf(q, prog[s], kv[s].at, {"chat"}, FALSE)
    BY <1>1, <1>4, <1>3, <1>31 DEF At, FlowOf, OpFlow, p, Pausing
  <2>2. ClearOf(q, prog[s], {"chat"}, {} \cup ClearsIn(b, s), ClearsIn(b, s))
    BY <1>1, <1>4, <1>3 DEF At, ClearOf, p, Vacant, Idling, EarlyOps
  <2>3. PartOf(q)
    BY <1>1, <1>4 DEF At, PartOf, p
  <2>4. \A r \in Units : BackedOf(q, prog[s], held[s][r], DueIn(a, s, r), r)
    <3> SUFFICES ASSUME NEW r \in Units PROVE BackedOf(q, prog[s], held[s][r], DueIn(a, s, r), r)
      OBVIOUS
    <3>1. /\ Amount(p.part, r) \in Nat /\ p.own[r] \in Nat /\ prog[s].holds[r] \in Nat /\ held[s][r] \in Nat
          /\ held[s][r] >= prog[s].holds[r] + Amount(p.part, r) /\ p.own[r] <= prog[s].holds[r]
      BY <1>1, Sizes DEF p
    <3>2. DueIn(a, s, r) = 0 /\ Amount(q.part, r) = Amount(p.part, r) /\ q.own[r] = p.own[r]
      BY <1>4, <1>52, AmountEmpty
    <3> QED
      BY <3>1, <3>2 DEF BackedOf
  <2> QED
    BY <2>1, <2>2, <2>3, <2>4 DEF Pays
<1>8. SameFamily(s, {"chat"})
  BY <1>1, <1>5, <1>31 DEF SameFamily, At, FlowOf, OpFlow, Unjoined, p
<1> QED
  BY <1>1, <1>2, <1>5, <1>51, <1>52, <1>6, <1>7, <1>8, PendStep

\* TOOL_END, RETRIEVAL_END: the step's units go back.
LEMMA StepEndKeeps ==
  ASSUME Good, NEW s \in Sessions, UNCHANGED <<world, aimd>>, NEW mode \in {"tool", "fetch"}, NEW op \in {"worked", "react", "fetched"}, NEW frames,
         Volley(frames, s, {op}, TRUE, {}),
         \A r \in Units : DueIn(frames, s, r) = IF r \in {"ext", "ret", "cpu"} THEN pend[s].own[r] ELSE 0,
         StepEnd(s, mode, frames)
  PROVE  Good'
<1> DEFINE b == <<>>
           p == pend[s]
           q == [p EXCEPT !.own = Nothing, !.par = FALSE, !.mode = "ready"]
           a == frames
<1>1. Below(b, s) /\ At(s, {}, ClearsIn(b, s))
  BY AtEvent DEF Handle, AtRest, StepEnd
<1>2. s \in Sessions /\ p \in PendRec
  BY <1>1 DEF At
<1>3. prog[s].joins \in Nat /\ ClearsIn(b, s) = {}
  BY JoinsNat, ViewOfNone
<1>31. p.mode = mode /\ Nothing \in Bags
  BY BagOf DEF StepEnd
<1>32. a \o <<>> = a
  <2>1. a \in Seq(Frame)
    BY DEF Volley
  <2> HIDE DEF a
  <2> QED
    BY <2>1
<1>4. q \in PendRec /\ q.mode = "ready" /\ q.step = p.step /\ q.part = p.part /\ q.own = Nothing /\ q.par = FALSE /\ q.want = p.want /\ q.due = p.due /\ q.flag = p.flag
  BY <1>2, <1>31 DEF PendRec, Modes
<1>5. /\ world' = world /\ prog' = prog /\ held' = held /\ kv' = kv
      /\ stack' = a \o b /\ pend' = [pend EXCEPT ![s] = q]
  BY <1>32, <1>2 DEF StepEnd, Handle
<1>51. lease' \in [Sessions -> Bags] /\ aimd' \in [cap : Nat, streak : Nat]
  BY <1>2, Data DEF StepEnd, Handle
<1>52. Volley(a, s, {op}, TRUE, {}) /\ \A r \in Units : DueIn(a, s, r) = (IF r \in {"ext", "ret", "cpu"} THEN p.own[r] ELSE 0)
  OBVIOUS
<1> HIDE DEF a, b, p, q
<1>6. pend' \in [Sessions -> PendRec] /\ pend'[s] = q /\ \A o \in Sessions : o # s => pend'[o] = pend[o]
  BY <1>2, <1>4, <1>5, Data
<1>7. Pays(s, q, prog[s], held[s], kv[s].at, a, {op}, TRUE, {}, ClearsIn(b, s))
  <2>1. FlowOf(q, prog[s], kv[s].at, {op}, TRUE)
    BY <1>1, <1>4, <1>3, <1>31 DEF At, FlowOf, OpFlow, p, Pausing
  <2>2. ClearOf(q, prog[s], {op}, {} \cup ClearsIn(b, s), ClearsIn(b, s))
    BY <1>1, <1>4, <1>3 DEF At, ClearOf, p, Vacant, Idling, EarlyOps
  <2>3. PartOf(q)
    <3>1. p.part = <<>> /\ DOMAIN <<>> = {} /\ Nothing["slots"] = 0 /\ Nothing["mem"] = 0 /\ Nothing["cpu"] = 0
      BY <1>1, <1>31, BagOf, UnitsAre DEF At, FlowOf, p
    <3> QED
      BY <1>4, <3>1 DEF PartOf
  <2>4. \A r \in Units : BackedOf(q, prog[s], held[s][r], DueIn(a, s, r), r)
    <3> SUFFICES ASSUME NEW r \in Units PROVE BackedOf(q, prog[s], held[s][r], DueIn(a, s, r), r)
      OBVIOUS
    <3>1. /\ Amount(p.part, r) \in Nat /\ p.own[r] \in Nat /\ prog[s].holds[r] \in Nat /\ held[s][r] \in Nat
          /\ held[s][r] >= prog[s].holds[r] + Amount(p.part, r) /\ p.own[r] <= prog[s].holds[r]
      BY <1>1, Sizes DEF p
    <3>2. DueIn(a, s, r) = (IF r \in {"ext", "ret", "cpu"} THEN p.own[r] ELSE 0) /\ Amount(q.part, r) = Amount(p.part, r) /\ q.own[r] = 0
      BY <1>4, <1>52, AmountEmpty, BagOf
    <3> QED
      BY <3>1, <3>2 DEF BackedOf
  <2> QED
    BY <2>1, <2>2, <2>3, <2>4 DEF Pays
<1>8. SameFamily(s, {op})
  BY <1>1, <1>5, <1>31 DEF SameFamily, At, FlowOf, OpFlow, Unjoined, p
<1> QED
  BY <1>1, <1>2, <1>5, <1>51, <1>52, <1>6, <1>7, <1>8, PendStep

LEMMA VolleyTwo ==
  ASSUME NEW s, NEW a, NEW b, Volley(a, s, {}, TRUE, {}), Volley(b, s, {}, TRUE, {})
  PROVE  Volley(a \o b, s, {}, TRUE, {}) /\ \A r : DueIn(a \o b, s, r) = DueIn(a, s, r) + DueIn(b, s, r)
<1> DEFINE yes == TRUE
           none == {}
<1>1. Volley(a, s, none, yes, none) /\ Volley(b, s, none, yes, none) /\ yes \in BOOLEAN /\ none = {}
  OBVIOUS
<1> HIDE DEF yes, none
<1>2. Volley(a \o b, s, none, yes, none \cup none)
  BY <1>1, VolleyConcat
<1>3. none \cup none = none
  OBVIOUS
<1>4. Volley(a \o b, s, none, yes, none)
  BY <1>2, <1>3
<1>5. a \in Seq(Frame) /\ b \in Seq(Frame)
  BY DEF Volley
<1>6. \A r : DueIn(a \o b, s, r) = DueIn(a, s, r) + DueIn(b, s, r)
  BY <1>5, DueOfConcat
<1> QED
  BY <1>4, <1>6 DEF yes, none

LEMMA ToolEndVolley ==
  ASSUME NEW s \in Sessions, pend[s].own \in Bags, NEW count, count = <<>> \/ count = <<Call("counted", s)>>,
         NEW op \in ThreadOps
  PROVE  /\ Volley(GiveUnit(s, "ext") \o count \o GiveUnit(s, "ret") \o GiveUnit(s, "cpu") \o <<Call(op, s)>>,
                   s, {op}, TRUE, {})
         /\ \A r \in Units : DueIn(GiveUnit(s, "ext") \o count \o GiveUnit(s, "ret") \o GiveUnit(s, "cpu")
                                   \o <<Call(op, s)>>, s, r)
                             = IF r \in {"ext", "ret", "cpu"} THEN pend[s].own[r] ELSE 0
<1> DEFINE a == GiveUnit(s, "ext")
           b == GiveUnit(s, "ret")
           c == GiveUnit(s, "cpu")
           own == pend[s].own
<1>1. (\A r \in Units : own[r] \in Nat) /\ "ext" \in Units /\ "ret" \in Units /\ "cpu" \in Units
  BY UnitsAre DEF Bags
<1>2. /\ Volley(a, s, {}, TRUE, {}) /\ Volley(b, s, {}, TRUE, {}) /\ Volley(c, s, {}, TRUE, {})
      /\ \A q \in Units : /\ DueIn(a, s, q) = IF q = "ext" THEN own["ext"] ELSE 0
                          /\ DueIn(b, s, q) = IF q = "ret" THEN own["ret"] ELSE 0
                          /\ DueIn(c, s, q) = IF q = "cpu" THEN own["cpu"] ELSE 0
  BY <1>1, VolleyUnit
<1>3. Volley(count, s, {}, TRUE, {}) /\ \A r : DueIn(count, s, r) = 0
  <2>1. Volley(<<>>, s, {}, FALSE, {}) /\ \A r : DueIn(<<>>, s, r) = 0
    BY VolleyNone, ViewOfNone
  <2> DEFINE f == Call("counted", s)
             k == <<f>>
  <2>2. f \in Frame /\ f.op = "counted"
    BY CallIs
  <2> HIDE DEF f
  <2>3. ~IsThread(f) /\ f.op # "give"
    BY <2>2 DEF IsThread, ThreadOps
  <2>4. Volley(k, s, {}, FALSE, {})
    BY <2>2, <2>3, VolleyNeutral
  <2>5. k \in Seq(Frame) /\ ~GivesIn(k, s)
    BY <2>4 DEF Volley
  <2> HIDE DEF k
  <2>6. \A r : DueIn(k, s, r) = 0
    BY <2>5, NothingDue
  <2>7. Volley(<<>>, s, {}, TRUE, {}) /\ Volley(k, s, {}, TRUE, {})
    <3> DEFINE no == FALSE
               yes == TRUE
    <3>1. Volley(<<>>, s, {}, no, {}) /\ Volley(k, s, {}, no, {}) /\ (no => yes)
      BY <2>1, <2>4
    <3> HIDE DEF no, yes
    <3>2. Volley(<<>>, s, {}, yes, {}) /\ Volley(k, s, {}, yes, {})
      BY <3>1, VolleyWeaker
    <3> QED
      BY <3>2 DEF yes
  <2>8. count = <<>> \/ count = k
    BY DEF f, k
  <2> QED
    BY <2>1, <2>6, <2>7, <2>8
<1> HIDE DEF a, b, c, own
<1> DEFINE d == a \o count
           e == d \o b
           h == e \o c
<1>30. Volley(a, s, {}, TRUE, {}) /\ Volley(count, s, {}, TRUE, {}) /\ Volley(b, s, {}, TRUE, {}) /\ Volley(c, s, {}, TRUE, {})
  BY <1>2, <1>3
<1>31. Volley(a, s, {}, TRUE, {}) /\ Volley(count, s, {}, TRUE, {})
  BY <1>30
<1>4. Volley(d, s, {}, TRUE, {})
  BY <1>31, VolleyTwo
<1>41. \A r : DueIn(d, s, r) = DueIn(a, s, r) + DueIn(count, s, r)
  <2> SUFFICES ASSUME NEW r PROVE DueIn(d, s, r) = DueIn(a, s, r) + DueIn(count, s, r)
    OBVIOUS
  <2>1. a \in Seq(Frame) /\ count \in Seq(Frame)
    BY <1>31 DEF Volley
  <2> QED
    BY <2>1, DueOfConcat
<1> HIDE DEF d
<1>5. Volley(e, s, {}, TRUE, {})
  BY <1>30, <1>4, VolleyTwo
<1>51. \A r : DueIn(e, s, r) = DueIn(d, s, r) + DueIn(b, s, r)
  BY <1>30, <1>4, VolleyTwo, ZenonT(40)
<1> HIDE DEF e
<1>6. Volley(h, s, {}, TRUE, {})
  BY <1>30, <1>5, VolleyTwo
<1>61. \A r : DueIn(h, s, r) = DueIn(e, s, r) + DueIn(c, s, r)
  BY <1>30, <1>5, VolleyTwo, ZenonT(40)
<1> HIDE DEF h
<1>7. Volley(h \o <<Call(op, s)>>, s, {op}, TRUE, {}) /\ \A r : DueIn(h \o <<Call(op, s)>>, s, r) = DueIn(h, s, r)
  BY <1>6, VolleyEnds
<1>8. \A r \in Units : DueIn(h, s, r) = IF r \in {"ext", "ret", "cpu"} THEN own[r] ELSE 0
  <2> SUFFICES ASSUME NEW r \in Units PROVE DueIn(h, s, r) = IF r \in {"ext", "ret", "cpu"} THEN own[r] ELSE 0
    OBVIOUS
  <2>1. DueIn(h, s, r) = DueIn(a, s, r) + 0 + DueIn(b, s, r) + DueIn(c, s, r)
    BY <1>3, <1>41, <1>51, <1>61
  <2> QED
    BY <1>1, <1>2, <2>1
<1> QED
  BY <1>7, <1>8 DEF h, e, d, a, b, c, own

LEMMA OwnVolley ==
  ASSUME NEW s \in Sessions, pend[s].own \in Bags, NEW op \in ThreadOps
  PROVE  /\ Volley(GiveOwn(s) \o <<Call(op, s)>>, s, {op}, TRUE, {})
         /\ \A r \in Units : DueIn(GiveOwn(s) \o <<Call(op, s)>>, s, r)
                             = IF r \in {"ext", "ret", "cpu"} THEN pend[s].own[r] ELSE 0
<1> DEFINE a == GiveOwn(s)
           own == pend[s].own
<1>1. Volley(a, s, {}, TRUE, {}) /\ \A r \in Units : DueIn(a, s, r) = IF r \in {"ext", "ret", "cpu"} THEN own[r] ELSE 0
  BY VolleyOwn
<1> HIDE DEF a, own
<1>11. Volley(a, s, {}, TRUE, {})
  BY <1>1
<1>2. Volley(a \o <<Call(op, s)>>, s, {op}, TRUE, {}) /\ \A r : DueIn(a \o <<Call(op, s)>>, s, r) = DueIn(a, s, r)
  BY <1>11, VolleyEnds
<1> QED
  BY <1>1, <1>2 DEF a, own

LEMMA OwnBag ==
  ASSUME Good, NEW s \in Sessions
  PROVE  pend[s].own \in Bags /\ {"worked", "react", "fetched"} \subseteq ThreadOps
<1>1. pend[s] \in PendRec
  BY Data
<1> QED
  BY <1>1, PendIs DEF ThreadOps

LEMMA ToolEndKeeps ==
  ASSUME Good, NEW s \in Sessions, UNCHANGED <<world, aimd>>, ToolEnd(s)
  PROVE  Good'
<1> DEFINE count == IF Calls(s) THEN <<Call("counted", s)>> ELSE <<>>
           frames == GiveUnit(s, "ext") \o count \o GiveUnit(s, "ret") \o GiveUnit(s, "cpu") \o <<Call("worked", s)>>
           own == pend[s].own
<1>1. StepEnd(s, "tool", frames)
  BY DEF ToolEnd
<1>2. count = <<>> \/ count = <<Call("counted", s)>>
  OBVIOUS
<1> HIDE DEF count
<1>3. own \in Bags /\ "worked" \in ThreadOps
  BY OwnBag
<1>4. /\ Volley(frames, s, {"worked"}, TRUE, {})
      /\ \A r \in Units : DueIn(frames, s, r) = IF r \in {"ext", "ret", "cpu"} THEN pend[s].own[r] ELSE 0
  BY <1>2, <1>3, ToolEndVolley
<1> HIDE DEF frames
<1> QED
  BY <1>1, <1>4, StepEndKeeps, ZenonT(40)

LEMMA ToolLimitKeeps ==
  ASSUME Good, NEW s \in Sessions, UNCHANGED <<world, aimd>>, ToolLimit(s)
  PROVE  Good'
<1> DEFINE frames == GiveOwn(s) \o <<Call("react", s)>>
<1>1. StepEnd(s, "tool", frames)
  BY DEF ToolLimit
<1>2. pend[s].own \in Bags /\ "react" \in ThreadOps
  BY OwnBag
<1>3. /\ Volley(frames, s, {"react"}, TRUE, {})
      /\ \A r \in Units : DueIn(frames, s, r) = IF r \in {"ext", "ret", "cpu"} THEN pend[s].own[r] ELSE 0
  BY <1>2, OwnVolley
<1> HIDE DEF frames
<1> QED
  BY <1>1, <1>3, StepEndKeeps, ZenonT(40)

LEMMA FetchEndKeeps ==
  ASSUME Good, NEW s \in Sessions, UNCHANGED <<world, aimd>>, FetchEnd(s)
  PROVE  Good'
<1> DEFINE frames == GiveOwn(s) \o <<Call("fetched", s)>>
<1>1. StepEnd(s, "fetch", frames)
  BY DEF FetchEnd
<1>2. pend[s].own \in Bags /\ "fetched" \in ThreadOps
  BY OwnBag
<1>3. /\ Volley(frames, s, {"fetched"}, TRUE, {})
      /\ \A r \in Units : DueIn(frames, s, r) = IF r \in {"ext", "ret", "cpu"} THEN pend[s].own[r] ELSE 0
  BY <1>2, OwnVolley
<1> HIDE DEF frames
<1> QED
  BY <1>1, <1>3, StepEndKeeps, ZenonT(40)

-----------------------------------------------------------------------------
(* Frames that are no session's: wakes, and what only counts. *)

Neutral(a) == a \in Seq(Frame) /\ \A i \in DOMAIN a : ~IsThread(a[i]) /\ a[i].op # "give"

LEMMA NeutralNone == Neutral(<<>>)
BY DEF Neutral

LEMMA NeutralOne ==
  ASSUME NEW f \in Frame, f.op \in {"lapse", "wake", "joinpark", "counted"}
  PROVE  Neutral(<<f>>)
<1>1. <<f>> \in Seq(Frame) /\ \A i \in DOMAIN <<f>> : <<f>>[i] = f
  OBVIOUS
<1>2. ~IsThread(f) /\ f.op # "give"
  BY DEF IsThread, ThreadOps
<1> QED
  BY <1>1, <1>2 DEF Neutral

LEMMA NeutralView ==
  ASSUME NEW a, Neutral(a), NEW b \in Seq(Frame), Orderly(b)
  PROVE  a \o b \in Seq(Frame) /\ Orderly(a \o b) /\ \A o : SameView(a \o b, b, o)
<1>1. a \in Seq(Frame) /\ \A i \in DOMAIN a : ~IsThread(a[i]) /\ a[i].op # "give"
  BY DEF Neutral
<1>2. \A i \in DOMAIN a : ~IsThread(a[i]) /\ ~IsGive(a[i]) /\ ~IsClear(a[i])
  BY <1>1 DEF IsGive, IsClear
<1>3. Orderly(a)
  BY <1>2 DEF Orderly, Clash
<1>4. Orderly(a \o b)
  BY <1>1, <1>2, <1>3, Stacked
<1>5. ASSUME NEW o
      PROVE  SameView(a \o b, b, o)
  <2>1. OpsIn(a, o) = {} /\ ~GivesIn(a, o) /\ ClearsIn(a, o) = {} /\ LateIn(a, o) = {}
    BY <1>2 DEF OpsIn, GivesIn, ClearsIn, LateIn
  <2>2. /\ OpsIn(a \o b, o) = OpsIn(b, o) /\ (GivesIn(a \o b, o) <=> GivesIn(b, o))
        /\ ClearsIn(a \o b, o) = ClearsIn(b, o) /\ LateIn(a \o b, o) = LateIn(b, o)
    <3>1. /\ OpsIn(a \o b, o) = OpsIn(a, o) \cup OpsIn(b, o)
          /\ GivesIn(a \o b, o) <=> GivesIn(a, o) \/ GivesIn(b, o)
          /\ ClearsIn(a \o b, o) = ClearsIn(a, o) \cup ClearsIn(b, o)
          /\ LateIn(a \o b, o) = LateIn(a, o) \cup LateIn(b, o) \cup (IF OpsIn(a, o) # {} THEN ClearsIn(b, o) ELSE {})
      BY <1>1, ViewOfConcat
    <3> QED
      BY <2>1, <3>1
  <2>3. \A r : DueIn(a \o b, o, r) = DueIn(b, o, r)
    <3> SUFFICES ASSUME NEW r PROVE DueIn(a \o b, o, r) = DueIn(b, o, r)
      OBVIOUS
    <3>1. DueIn(a, o, r) = 0
      BY <1>1, <2>1, NothingDue
    <3>2. DueIn(b, o, r) \in Nat /\ DueIn(a \o b, o, r) = DueIn(a, o, r) + DueIn(b, o, r)
      BY <1>1, DueOfConcat
    <3> QED
      BY <3>1, <3>2
  <2> QED
    BY <2>2, <2>3 DEF SameView
<1>6. a \o b \in Seq(Frame)
  BY <1>1, Concat
<1> QED
  BY <1>4, <1>5, <1>6

LEMMA NeutralTwo ==
  ASSUME NEW a, NEW b, Neutral(a), Neutral(b)
  PROVE  Neutral(a \o b)
<1> DEFINE c == a \o b
<1>1. /\ a \in Seq(Frame) /\ \A i \in DOMAIN a : ~IsThread(a[i]) /\ a[i].op # "give"
      /\ b \in Seq(Frame) /\ \A i \in DOMAIN b : ~IsThread(b[i]) /\ b[i].op # "give"
  BY DEF Neutral
<1>2. /\ c \in Seq(Frame)
      /\ \A k \in DOMAIN c : (k \in DOMAIN a /\ c[k] = a[k]) \/ (k > Len(a) /\ k - Len(a) \in DOMAIN b /\ c[k] = b[k - Len(a)])
  BY <1>1, Concat
<1> HIDE DEF c
<1>3. Neutral(c)
  BY <1>1, <1>2 DEF Neutral
<1> QED
  BY <1>3 DEF c

LEMMA NeutralKeeps ==
  ASSUME Good, world' = world, NEW a, NEW b \in Seq(Frame), NEW c, Neutral(a), Neutral(c), Orderly(b),
         stack = c \o b, stack' = a \o b,
         prog' \in [Sessions -> ProgRec], pend' = pend, held' = held,
         lease' \in [Sessions -> Bags], kv' = kv, aimd' \in [cap : Nat, streak : Nat],
         \A o \in Sessions : prog'[o] = [prog[o] EXCEPT !.park = prog'[o].park]
  PROVE  Good'
<1>1. a \o b \in Seq(Frame) /\ Orderly(a \o b) /\ \A o : SameView(a \o b, b, o)
  BY NeutralView
<1>2. \A o : SameView(c \o b, b, o)
  BY NeutralView
<1>3. \A o : SameView(a \o b, c \o b, o)
  BY <1>1, <1>2 DEF SameView
<1> DEFINE x == a \o b
           y == c \o b
<1>4. x \in Seq(Frame) /\ Orderly(x) /\ (\A o : SameView(x, y, o)) /\ stack' = x /\ stack = y
  BY <1>1, <1>3
<1> HIDE DEF x, y
<1>5. stack' \in Seq(Frame) /\ Orderly(stack') /\ \A o \in Sessions : SameView(stack', stack, o)
  BY <1>4
<1> QED
  BY <1>5, ViewsKeep

LEMMA SameParks ==
  ASSUME Good, prog' = prog
  PROVE  prog' \in [Sessions -> ProgRec] /\ \A o \in Sessions : prog'[o] = [prog[o] EXCEPT !.park = prog'[o].park]
<1>1. prog \in [Sessions -> ProgRec]
  BY Data
<1>2. \A o \in Sessions : prog[o] = [prog[o] EXCEPT !.park = prog[o].park]
  BY <1>1 DEF ProgRec
<1> QED
  BY <1>1, <1>2

\* The top frame is neutral.
LEMMA NeutralTop ==
  ASSUME Good, stack # <<>>, Head(stack).op \in {"lapse", "wake", "joinpark", "counted"}
  PROVE  /\ Head(stack) \in Frame /\ Tail(stack) \in Seq(Frame) /\ Orderly(Tail(stack)) /\ Neutral(<<Head(stack)>>)
         /\ stack = <<Head(stack)>> \o Tail(stack)
<1>1. stack \in Seq(Frame) /\ Orderly(stack)
  BY Data DEF Good, Flows
<1>2. /\ Head(stack) \in Frame /\ Tail(stack) \in Seq(Frame) /\ stack = <<Head(stack)>> \o Tail(stack)
      /\ Orderly(Tail(stack))
  BY <1>1, HeadIs
<1> QED
  BY <1>2, NeutralOne

LEMMA JoinParkKeeps ==
  ASSUME Good, JoinPark
  PROVE  Good'
<1> DEFINE h == Head(stack)
           b == Tail(stack)
           c == <<h>>
           n == IF prog[h.s].holds["mem"] > 0 THEN prog[h.s].park + 1 ELSE prog[h.s].park
<1>1. h \in Frame /\ b \in Seq(Frame) /\ Orderly(b) /\ Neutral(c) /\ stack = c \o b
  BY NeutralTop DEF JoinPark, Top
<1>2. h.s \in Sessions
  BY <1>1, FrameIs
<1>3. /\ stack' = <<>> \o b /\ prog' = [prog EXCEPT ![h.s].park = n]
      /\ world' = world /\ pend' = pend /\ held' = held /\ lease' = lease /\ kv' = kv /\ aimd' = aimd
  BY DEF JoinPark, Run
<1>4. prog \in [Sessions -> ProgRec] /\ prog[h.s].park \in Nat
  BY <1>2, Data, ProgIs
<1>5. n \in Nat
  BY <1>4
<1> HIDE DEF h, b, c, n
<1>6. \A o \in Sessions : /\ prog'[o] \in ProgRec
                          /\ prog'[o] = [prog[o] EXCEPT !.park = prog'[o].park]
  BY <1>2, <1>3, <1>4, <1>5 DEF ProgRec
<1>61. prog' = [o \in Sessions |-> prog'[o]]
  BY <1>3, <1>4
<1>7. prog' \in [Sessions -> ProgRec]
  BY <1>6, <1>61
<1> QED
  BY <1>1, <1>3, <1>6, <1>7, Data, NeutralNone, NeutralKeeps

LEMMA CallCountedKeeps ==
  ASSUME Good, CallCounted
  PROVE  Good'
<1> DEFINE h == Head(stack)
           b == Tail(stack)
           c == <<h>>
<1>1. b \in Seq(Frame) /\ Orderly(b) /\ Neutral(c) /\ stack = c \o b
  BY NeutralTop DEF CallCounted, Top
<1>3. /\ stack' = <<>> \o b /\ prog' = prog /\ aimd' = More
      /\ world' = world /\ pend' = pend /\ held' = held /\ lease' = lease /\ kv' = kv
  BY DEF CallCounted, Run
<1>4. More \in [cap : Nat, streak : Nat]
  <2>1. aimd \in [cap : Nat, streak : Nat] /\ world.cap["ext"] \in Nat
    BY Data, WorldIs, UnitsAre DEF IsWorld
  <2> DEFINE x == world.cap["ext"]
             y == aimd.cap + 1
  <2>2. x \in Nat /\ y \in Nat /\ x \in Int /\ y \in Int
    BY <2>1
  <2> HIDE DEF x, y
  <2>3. Min({x, y}) \in {x, y}
    BY <2>2, MinIs
  <2>4. Min({x, y}) \in Nat
    BY <2>2, <2>3
  <2> QED
    BY <2>1, <2>4 DEF More, x, y
<1> HIDE DEF h, b, c
<1>5. aimd' \in [cap : Nat, streak : Nat]
  BY <1>3, <1>4
<1> QED
  BY <1>1, <1>3, <1>5, Data, NeutralNone, SameParks, NeutralKeeps

LEMMA WakeGangKeeps ==
  ASSUME Good, WakeGang
  PROVE  Good'
<1> DEFINE h == Head(stack)
           b == Tail(stack)
           c == <<h>>
           k == [h EXCEPT !.op = "wake"]
           a == <<k>>
<1>1. CASE LapsedGangs(h.r) # {}
  <2>1. PICK s \in LapsedGangs(h.r) : Unwait(s, stack)
    BY <1>1 DEF WakeGang
  <2>2. s \in Sessions /\ Waiting(s)
    BY DEF LapsedGangs, Waiters
  <2> QED
    BY <2>1, <2>2, UnwaitKeeps
<1>2. CASE LapsedGangs(h.r) = {}
  <2>1. h \in Frame /\ b \in Seq(Frame) /\ Orderly(b) /\ Neutral(c) /\ stack = c \o b
    BY NeutralTop DEF WakeGang, Top
  <2>2. /\ stack' = a \o b /\ prog' = prog /\ aimd' = aimd
        /\ world' = world /\ pend' = pend /\ held' = held /\ lease' = lease /\ kv' = kv
    BY <1>2 DEF WakeGang, Run
  <2> HIDE DEF h, b, c
  <2>3. k \in Frame /\ k.op = "wake"
    BY <2>1 DEF Frame
  <2> HIDE DEF k
  <2>4. Neutral(a)
    BY <2>3, NeutralOne
  <2> HIDE DEF a
  <2> QED
    BY <2>1, <2>2, <2>4, Data, SameParks, NeutralKeeps
<1> QED
  BY <1>1, <1>2

LEMMA WakeBestKeeps ==
  ASSUME Good, WakeBest
  PROVE  Good'
<1> DEFINE h == Head(stack)
           b == Tail(stack)
           c == <<h>>
<1>1. CASE FittingWaiters(h.r) # {}
  <2>1. PICK s \in FittingWaiters(h.r) : Unwait(s, stack)
    BY <1>1 DEF WakeBest
  <2>2. s \in Sessions /\ Waiting(s)
    BY DEF FittingWaiters, Waiters
  <2> QED
    BY <2>1, <2>2, UnwaitKeeps
<1>2. CASE FittingWaiters(h.r) = {}
  <2>1. b \in Seq(Frame) /\ Orderly(b) /\ Neutral(c) /\ stack = c \o b
    BY NeutralTop DEF WakeBest, Top
  <2>2. /\ stack' = <<>> \o b /\ prog' = prog /\ aimd' = aimd
        /\ world' = world /\ pend' = pend /\ held' = held /\ lease' = lease /\ kv' = kv
    BY <1>2 DEF WakeBest, Run
  <2> HIDE DEF h, b, c
  <2> QED
    BY <2>1, <2>2, Data, NeutralNone, SameParks, NeutralKeeps
<1> QED
  BY <1>1, <1>2

\* LEASE_EXPIRE.
LEMMA ExpireKeeps ==
  ASSUME Good, NEW s \in Sessions, UNCHANGED <<world, aimd>>, Expire(s)
  PROVE  Good'
<1> DEFINE ended == {r \in Units : lease[s][r] > 0}
           w == Wake(First(ended))
           a == <<w>>
<1>1. ended \in SUBSET Units /\ ended # {}
  BY DEF Expire
<1>2. /\ stack = <<>> /\ stack' = a /\ lease' = [lease EXCEPT ![s] = Nothing]
      /\ prog' = prog /\ pend' = pend /\ held' = held /\ kv' = kv
  BY DEF Expire, Handle, AtRest
<1> HIDE DEF ended
<1>3. First(ended) \in Units
  BY <1>1, FirstIs
<1>4. w \in Frame /\ w.op = "lapse"
  BY <1>3, Data, WakeIs
<1> HIDE DEF w
<1>5. Neutral(a) /\ a \in Seq(Frame)
  BY <1>4, NeutralOne
<1> HIDE DEF a
<1>6. stack = <<>> \o <<>> /\ stack' = a \o <<>> /\ <<>> \in Seq(Frame) /\ Orderly(<<>>)
  BY <1>2, <1>5, ViewOfNone
<1>7. lease' \in [Sessions -> Bags] /\ aimd' \in [cap : Nat, streak : Nat]
  BY <1>2, Data, BagOf
<1> QED
  BY <1>2, <1>5, <1>6, <1>7, NeutralNone, SameParks, NeutralKeeps

LEMMA SixWakes ==
  ASSUME world \in Worlds
  PROVE  Neutral(<<Wake("slots"), Wake("mem"), Wake("cpu"), Wake("ext"), Wake("ret"), Wake("kv")>>)
<1> DEFINE a == <<Wake("slots"), Wake("mem"), Wake("cpu"), Wake("ext"), Wake("ret"), Wake("kv")>>
<1>1. \A r \in {"slots", "mem", "cpu", "ext", "ret", "kv"} : Wake(r) \in Frame /\ Wake(r).op = "lapse"
  BY WakeIs, UnitsAre
<1>2. \A i \in DOMAIN a : \E r \in {"slots", "mem", "cpu", "ext", "ret", "kv"} : a[i] = Wake(r)
  OBVIOUS
<1>3. a \in Seq(Frame)
  BY <1>1
<1> HIDE DEF a
<1>4. \A i \in DOMAIN a : a[i].op = "lapse"
  BY <1>1, <1>2
<1>5. Neutral(a)
  BY <1>3, <1>4 DEF Neutral, IsThread, ThreadOps
<1> QED
  BY <1>5 DEF a

\* A forecast arrives.
LEMMA ReannotateKeeps ==
  ASSUME Good, NEW s \in Sessions, UNCHANGED <<world, aimd>>, Reannotate(s)
  PROVE  Good'
<1> DEFINE a == <<Wake("slots"), Wake("mem"), Wake("cpu"), Wake("ext"), Wake("ret"), Wake("kv")>>
           n == IF HasStep(s) THEN pend[s].step.loc ELSE 0
<1>1. n \in Nat
  <2>1. pend[s] \in PendRec
    BY Data
  <2>2. pend[s].step \in Steps
    BY <2>1, PendIs
  <2> QED
    BY <2>2, StepIs
<1>2. Neutral(a)
  BY Data, SixWakes
<1>3. /\ stack = <<>> /\ stack' = a /\ Replace(s, n, pend[s].mode = "join")
      /\ prog' = prog /\ pend' = pend /\ held' = held /\ kv' = kv
  BY DEF Reannotate, Handle, AtRest
<1> HIDE DEF a, n
<1>4. lease' \in [Sessions -> Bags]
  BY <1>1, <1>3, ReplaceTyped
<1>5. a \in Seq(Frame)
  BY <1>2 DEF Neutral
<1>6. stack = <<>> \o <<>> /\ stack' = a \o <<>> /\ <<>> \in Seq(Frame) /\ Orderly(<<>>)
  BY <1>3, <1>5, ViewOfNone
<1>7. aimd' \in [cap : Nat, streak : Nat]
  BY Data
<1> QED
  BY <1>2, <1>3, <1>4, <1>6, <1>7, NeutralNone, SameParks, NeutralKeeps

\* A sub-agent starts.
LEMMA StartKidAt ==
  ASSUME Good, NEW s, s = Head(stack).s, Top("start"), StartKid
  PROVE  Good'
<1> DEFINE b == Tail(stack)
           p == pend[s]
           q == pend[s]
           o == prog[s]
           g == [o EXCEPT !.life = "active"]
           a == <<Call("chat", s)>>
<1>1. Below(b, s) /\ At(s, {"start"}, ClearsIn(b, s))
  BY AtCall DEF Top, IsThread, ThreadOps
<1>2. s \in Sessions /\ p \in PendRec /\ o \in ProgRec
  BY <1>1 DEF At
<1>4. q \in PendRec /\ q.mode = p.mode /\ q.step = p.step /\ q.part = p.part /\ q.own = p.own /\ q.par = p.par /\ q.want = p.want /\ q.due = p.due /\ q.flag = p.flag
  BY <1>2
<1>40. g \in ProgRec /\ g.life = "active" /\ g.joins = o.joins /\ g.fanned = o.fanned /\ g.holds = o.holds /\ g.nap = o.nap
  BY <1>2 DEF ProgRec
<1>5. /\ world' = world /\ stack' = a \o b /\ pend' = [pend EXCEPT ![s] = q] /\ prog' = [prog EXCEPT ![s] = g]
  BY <1>2, Data DEF StartKid, Run
<1>51. lease' \in [Sessions -> Bags] /\ aimd' \in [cap : Nat, streak : Nat]
  BY <1>2, Data DEF StartKid, Run
<1>52. Volley(a, s, {"chat"}, FALSE, {}) /\ \A r \in Units : DueIn(a, s, r) = 0
  BY <1>2, CallVolley DEF ThreadOps
<1>53. held' \in [Sessions -> [Units -> Int]] /\ (\A r \in Units : held'[s][r] = held[s][r]) /\ \A x \in Sessions : x # s => held'[x] = held[x]
  BY Data DEF StartKid, Run
<1>54. kv' \in [Sessions -> Cache] /\ kv'[s].at = kv[s].at /\ \A x \in Sessions : x # s => kv'[x] = kv[x]
  BY Data DEF StartKid, Run
<1> HIDE DEF a, b, p, q, o, g
<1>6. /\ pend' \in [Sessions -> PendRec] /\ pend'[s] = q /\ \A x \in Sessions : x # s => pend'[x] = pend[x]
      /\ prog' \in [Sessions -> ProgRec] /\ prog'[s] = g /\ \A x \in Sessions : x # s => prog'[x] = prog[x]
  BY <1>2, <1>4, <1>40, <1>5, Data
<1>61. \A x \in Sessions : x # s => Kept(x)
  BY <1>6, <1>53, <1>54 DEF Kept
<1>7. Pays(s, q, g, held'[s], kv'[s].at, a, {"chat"}, FALSE, {}, ClearsIn(b, s))
  <2>1. FlowOf(q, g, kv'[s].at, {"chat"}, FALSE)
    BY <1>1, <1>4, <1>40, <1>54 DEF At, FlowOf, OpFlow, p, o, Pausing
  <2>2. ClearOf(q, g, {"chat"}, {} \cup ClearsIn(b, s), ClearsIn(b, s))
    BY <1>1, <1>4, <1>40, SMTT(100) DEF At, FlowOf, OpFlow, ClearOf, p, o, Vacant, Idling, EarlyOps, Pausing
  <2>3. PartOf(q)
    BY <1>1, <1>4, ZenonT(40) DEF At, PartOf, p
  <2>4. \A r \in Units : BackedOf(q, g, held'[s][r], DueIn(a, s, r), r)
    <3> SUFFICES ASSUME NEW r \in Units PROVE BackedOf(q, g, held'[s][r], DueIn(a, s, r), r)
      OBVIOUS
    <3>1. /\ Amount(p.part, r) \in Nat /\ p.own[r] \in Nat /\ o.holds[r] \in Nat /\ held[s][r] \in Nat
          /\ held[s][r] >= o.holds[r] + Amount(p.part, r) /\ p.own[r] <= o.holds[r]
      BY <1>1, Sizes DEF p, o
    <3>2. /\ DueIn(a, s, r) = 0 /\ Amount(q.part, r) = Amount(p.part, r) /\ q.own[r] = p.own[r]
          /\ g.holds[r] = o.holds[r] /\ held'[s][r] = held[s][r]
      BY <1>4, <1>40, <1>52, <1>53, AmountEmpty
    <3> QED
      BY <3>1, <3>2 DEF BackedOf
  <2> QED
    BY <2>1, <2>2, <2>3, <2>4 DEF Pays
<1>71. Settled(s, a, {"chat"}, FALSE, {}, ClearsIn(b, s))
  BY <1>6, <1>7 DEF Settled
<1>8. SameFamily(s, {"chat"})
  BY <1>1, <1>40, <1>6 DEF SameFamily, At, FlowOf, OpFlow, Unjoined, o
<1> QED
  BY <1>1, <1>2, <1>5, <1>51, <1>52, <1>53, <1>54, <1>6, <1>61, <1>71, <1>8, StepKeeps

\* A session arrives.
LEMMA ArriveAt ==
  ASSUME Good, NEW s \in Sessions, UNCHANGED <<world, aimd>>, Arrive(s)
  PROVE  Good'
<1> DEFINE b == <<>>
           p == pend[s]
           q == pend[s]
           o == prog[s]
           g == [o EXCEPT !.life = "active"]
           a == <<Call("chat", s)>>
<1>1. Below(b, s) /\ At(s, {}, ClearsIn(b, s))
  BY AtEvent DEF Arrive, Handle, AtRest
<1>2. s \in Sessions /\ p \in PendRec /\ o \in ProgRec
  BY <1>1 DEF At
<1>3. o.joins \in Nat /\ ClearsIn(b, s) = {} /\ o.life = "off" /\ s \in Tops
  BY JoinsNat, ViewOfNone DEF Arrive
<1>4. q \in PendRec /\ q.mode = p.mode /\ q.step = p.step /\ q.part = p.part /\ q.own = p.own /\ q.par = p.par /\ q.want = p.want /\ q.due = p.due /\ q.flag = p.flag
  BY <1>2
<1>40. g \in ProgRec /\ g.life = "active" /\ g.joins = o.joins /\ g.fanned = o.fanned /\ g.holds = o.holds /\ g.nap = o.nap
  BY <1>2 DEF ProgRec
<1>5. /\ world' = world /\ stack' = a \o b /\ pend' = [pend EXCEPT ![s] = q] /\ prog' = [prog EXCEPT ![s] = g]
  BY <1>2, CallsOnly, Data DEF Arrive, Handle
<1>51. lease' \in [Sessions -> Bags] /\ aimd' \in [cap : Nat, streak : Nat]
  BY <1>2, Data DEF Arrive, Handle
<1>52. Volley(a, s, {"chat"}, FALSE, {}) /\ \A r \in Units : DueIn(a, s, r) = 0
  BY <1>2, CallVolley DEF ThreadOps
<1>53. held' \in [Sessions -> [Units -> Int]] /\ (\A r \in Units : held'[s][r] = held[s][r]) /\ \A x \in Sessions : x # s => held'[x] = held[x]
  BY Data DEF Arrive, Handle
<1>54. kv' \in [Sessions -> Cache] /\ kv'[s].at = kv[s].at /\ \A x \in Sessions : x # s => kv'[x] = kv[x]
  BY Data DEF Arrive, Handle
<1> HIDE DEF a, b, p, q, o, g
<1>6. /\ pend' \in [Sessions -> PendRec] /\ pend'[s] = q /\ \A x \in Sessions : x # s => pend'[x] = pend[x]
      /\ prog' \in [Sessions -> ProgRec] /\ prog'[s] = g /\ \A x \in Sessions : x # s => prog'[x] = prog[x]
  BY <1>2, <1>4, <1>40, <1>5, Data
<1>61. \A x \in Sessions : x # s => Kept(x)
  BY <1>6, <1>53, <1>54 DEF Kept
<1>7. Pays(s, q, g, held'[s], kv'[s].at, a, {"chat"}, FALSE, {}, ClearsIn(b, s))
  <2>1. FlowOf(q, g, kv'[s].at, {"chat"}, FALSE)
    BY <1>1, <1>4, <1>40, <1>54, <1>3 DEF At, FlowOf, OpFlow, p, o, Pausing
  <2>2. ClearOf(q, g, {"chat"}, {} \cup ClearsIn(b, s), ClearsIn(b, s))
    BY <1>1, <1>4, <1>40, <1>3 DEF At, FlowOf, OpFlow, ClearOf, p, o, Vacant, Idling, EarlyOps, Pausing
  <2>3. PartOf(q)
    BY <1>1, <1>4 DEF At, PartOf, p
  <2>4. \A r \in Units : BackedOf(q, g, held'[s][r], DueIn(a, s, r), r)
    <3> SUFFICES ASSUME NEW r \in Units PROVE BackedOf(q, g, held'[s][r], DueIn(a, s, r), r)
      OBVIOUS
    <3>1. /\ Amount(p.part, r) \in Nat /\ p.own[r] \in Nat /\ o.holds[r] \in Nat /\ held[s][r] \in Nat
          /\ held[s][r] >= o.holds[r] + Amount(p.part, r) /\ p.own[r] <= o.holds[r]
      BY <1>1, Sizes DEF p, o
    <3>2. /\ DueIn(a, s, r) = 0 /\ Amount(q.part, r) = Amount(p.part, r) /\ q.own[r] = p.own[r]
          /\ g.holds[r] = o.holds[r] /\ held'[s][r] = held[s][r]
      BY <1>4, <1>40, <1>52, <1>53, AmountEmpty
    <3> QED
      BY <3>1, <3>2 DEF BackedOf
  <2> QED
    BY <2>1, <2>2, <2>3, <2>4 DEF Pays
<1>71. Settled(s, a, {"chat"}, FALSE, {}, ClearsIn(b, s))
  BY <1>6, <1>7 DEF Settled
<1>8. SameFamily(s, {"chat"})
  BY <1>1, <1>40, <1>6, <1>3 DEF SameFamily, At, FlowOf, OpFlow, Unjoined, o
<1> QED
  BY <1>1, <1>2, <1>5, <1>51, <1>52, <1>53, <1>54, <1>6, <1>61, <1>71, <1>8, StepKeeps

\* _end_session, after the holds went back.
LEMMA GoneAt ==
  ASSUME Good, NEW s, s = Head(stack).s, Top("gone"), Gone
  PROVE  Good'
<1> DEFINE b == Tail(stack)
           p == pend[s]
           q == pend[s]
           o == prog[s]
           g == prog[s]
           a == Waking("kv", Tail(stack)) \o <<Call("bury", s)>>
<1>1. Below(b, s) /\ At(s, {"gone"}, ClearsIn(b, s))
  BY AtCall DEF Top, IsThread, ThreadOps
<1>2. s \in Sessions /\ p \in PendRec /\ o \in ProgRec
  BY <1>1 DEF At
<1>4. q \in PendRec /\ q.mode = p.mode /\ q.step = p.step /\ q.part = p.part /\ q.own = p.own /\ q.par = p.par /\ q.want = p.want /\ q.due = p.due /\ q.flag = p.flag
  BY <1>2
<1>40. g \in ProgRec /\ g.life = o.life /\ g.joins = o.joins /\ g.fanned = o.fanned /\ g.holds = o.holds /\ g.nap = o.nap
  BY <1>2
<1>5. /\ world' = world /\ stack' = a \o b /\ pend' = [pend EXCEPT ![s] = q] /\ prog' = [prog EXCEPT ![s] = g]
  BY <1>2, Data DEF Gone, Run
<1>51. lease' \in [Sessions -> Bags] /\ aimd' \in [cap : Nat, streak : Nat]
  BY <1>2, Data, BagOf DEF Gone, Run
<1>52. Volley(a, s, {"bury"}, FALSE, {}) /\ \A r \in Units : DueIn(a, s, r) = 0
  <2> DEFINE e == Waking("kv", Tail(stack))
  <2>1. Volley(e, s, {}, FALSE, {})
    BY Data, VolleyWaking
  <2>2. "bury" \in ThreadOps
    BY DEF ThreadOps
  <2>3. e \in Seq(Frame) /\ ~GivesIn(e, s)
    BY <2>1 DEF Volley
  <2> HIDE DEF e
  <2>4. \A r : DueIn(e, s, r) = 0
    BY <2>3, NothingDue
  <2>5. /\ Volley(e \o <<Call("bury", s)>>, s, {"bury"}, FALSE, {})
        /\ \A r : DueIn(e \o <<Call("bury", s)>>, s, r) = DueIn(e, s, r)
    BY <1>2, <2>1, <2>2, VolleyEnds, ZenonT(40)
  <2> QED
    BY <2>4, <2>5 DEF e
<1>53. held' \in [Sessions -> [Units -> Int]] /\ (\A r \in Units : held'[s][r] = held[s][r]) /\ \A x \in Sessions : x # s => held'[x] = held[x]
  BY Data DEF Gone, Run
<1>54. kv' \in [Sessions -> Cache] /\ kv'[s].at = "none" /\ \A x \in Sessions : x # s => kv'[x] = kv[x]
  <2>1. NoEntry \in Cache /\ NoEntry.at = "none"
    BY DEF NoEntry, Cache
  <2>2. kv' = [kv EXCEPT ![s] = NoEntry]
    BY DEF Gone, Drop
  <2> QED
    BY <1>2, <2>1, <2>2, Data
<1> HIDE DEF a, b, p, q, o, g
<1>6. /\ pend' \in [Sessions -> PendRec] /\ pend'[s] = q /\ \A x \in Sessions : x # s => pend'[x] = pend[x]
      /\ prog' \in [Sessions -> ProgRec] /\ prog'[s] = g /\ \A x \in Sessions : x # s => prog'[x] = prog[x]
  BY <1>2, <1>4, <1>40, <1>5, Data
<1>61. \A x \in Sessions : x # s => Kept(x)
  BY <1>6, <1>53, <1>54 DEF Kept
<1>7. Pays(s, q, g, held'[s], kv'[s].at, a, {"bury"}, FALSE, {}, ClearsIn(b, s))
  <2>1. FlowOf(q, g, kv'[s].at, {"bury"}, FALSE)
    <3>1. FlowOf(p, o, kv[s].at, {"gone"}, FALSE)
      BY <1>1 DEF At, p, o
    <3>2. OpFlow(p, o, kv[s].at, "gone")
      BY Zenon, <3>1 DEF FlowOf
    <3>3. OpFlow(q, g, kv'[s].at, "bury")
      BY <1>4, <1>40, <1>54, <3>2 DEF OpFlow, Pausing
    <3> QED
      BY <1>4, <1>40, <1>54, <3>1, <3>2, <3>3, SMTT(100) DEF FlowOf, OpFlow
  <2>2. ClearOf(q, g, {"bury"}, {} \cup ClearsIn(b, s), ClearsIn(b, s))
    BY <1>1, <1>4, <1>40, SMTT(100) DEF At, FlowOf, OpFlow, ClearOf, p, o, Vacant, Idling, EarlyOps, Pausing
  <2>3. PartOf(q)
    BY <1>1, <1>4 DEF At, PartOf, p
  <2>4. \A r \in Units : BackedOf(q, g, held'[s][r], DueIn(a, s, r), r)
    <3> SUFFICES ASSUME NEW r \in Units PROVE BackedOf(q, g, held'[s][r], DueIn(a, s, r), r)
      OBVIOUS
    <3>1. /\ Amount(p.part, r) \in Nat /\ p.own[r] \in Nat /\ o.holds[r] \in Nat /\ held[s][r] \in Nat
          /\ held[s][r] >= o.holds[r] + Amount(p.part, r) /\ p.own[r] <= o.holds[r]
      BY <1>1, Sizes DEF p, o
    <3>2. /\ DueIn(a, s, r) = 0 /\ Amount(q.part, r) = Amount(p.part, r) /\ q.own[r] = p.own[r]
          /\ g.holds[r] = o.holds[r] /\ held'[s][r] = held[s][r]
      BY <1>4, <1>40, <1>52, <1>53, AmountEmpty
    <3> QED
      BY <3>1, <3>2 DEF BackedOf
  <2> QED
    BY <2>1, <2>2, <2>3, <2>4 DEF Pays
<1>71. Settled(s, a, {"bury"}, FALSE, {}, ClearsIn(b, s))
  BY <1>6, <1>7 DEF Settled
<1>8. SameFamily(s, {"bury"})
  BY <1>1, <1>40, <1>6 DEF SameFamily, At, FlowOf, OpFlow, Unjoined, o
<1> QED
  BY <1>1, <1>2, <1>5, <1>51, <1>52, <1>53, <1>54, <1>6, <1>61, <1>71, <1>8, StepKeeps

\* CHAT_END: the prefix stays, idle.
LEMMA ChatEndAt ==
  ASSUME Good, NEW s \in Sessions, UNCHANGED <<world, aimd>>, ChatEnd(s)
  PROVE  Good'
<1> DEFINE b == <<>>
           p == pend[s]
           q == pend[s]
           o == prog[s]
           g == prog[s]
           a == <<Wake("kv")>> \o <<Call("answered", s)>>
<1>1. Below(b, s) /\ At(s, {}, ClearsIn(b, s))
  BY AtEvent DEF ChatEnd, Handle, AtRest
<1>2. s \in Sessions /\ p \in PendRec /\ o \in ProgRec
  BY <1>1 DEF At
<1>3. o.joins \in Nat /\ ClearsIn(b, s) = {} /\ p.mode = "decode"
  BY JoinsNat, ViewOfNone DEF ChatEnd
<1>4. q \in PendRec /\ q.mode = p.mode /\ q.step = p.step /\ q.part = p.part /\ q.own = p.own /\ q.par = p.par /\ q.want = p.want /\ q.due = p.due /\ q.flag = p.flag
  BY <1>2
<1>40. g \in ProgRec /\ g.life = o.life /\ g.joins = o.joins /\ g.fanned = o.fanned /\ g.holds = o.holds /\ g.nap = o.nap
  BY <1>2
<1>5. /\ world' = world /\ stack' = a \o b /\ pend' = [pend EXCEPT ![s] = q] /\ prog' = [prog EXCEPT ![s] = g]
  BY <1>2, Data DEF ChatEnd, Handle
<1>51. lease' \in [Sessions -> Bags] /\ aimd' \in [cap : Nat, streak : Nat]
  BY <1>2, Data DEF ChatEnd, Handle
<1>52. Volley(a, s, {"answered"}, FALSE, {}) /\ \A r \in Units : DueIn(a, s, r) = 0
  <2> DEFINE f == Wake("kv")
             e == <<f>>
  <2>0. f \in Frame /\ f.op = "lapse"
    BY Data, WakeIs
  <2> HIDE DEF f
  <2>01. ~IsThread(f) /\ f.op # "give"
    BY <2>0 DEF IsThread, ThreadOps
  <2>1. Volley(e, s, {}, FALSE, {})
    BY <2>0, <2>01, VolleyNeutral
  <2>2. "answered" \in ThreadOps
    BY DEF ThreadOps
  <2>3. e \in Seq(Frame) /\ ~GivesIn(e, s)
    BY <2>1 DEF Volley
  <2> HIDE DEF e
  <2>4. \A r : DueIn(e, s, r) = 0
    BY <2>3, NothingDue
  <2>5. /\ Volley(e \o <<Call("answered", s)>>, s, {"answered"}, FALSE, {})
        /\ \A r : DueIn(e \o <<Call("answered", s)>>, s, r) = DueIn(e, s, r)
    BY <1>2, <2>1, <2>2, VolleyEnds, ZenonT(40)
  <2> QED
    BY <2>4, <2>5 DEF e, f
<1>53. held' \in [Sessions -> [Units -> Int]] /\ (\A r \in Units : held'[s][r] = held[s][r]) /\ \A x \in Sessions : x # s => held'[x] = held[x]
  BY Data DEF ChatEnd, Handle
<1>54. kv' \in [Sessions -> Cache] /\ kv'[s].at = "idle" /\ \A x \in Sessions : x # s => kv'[x] = kv[x]
  <2>1. kv[s] \in Cache /\ [kv[s] EXCEPT !.at = "idle"] \in Cache /\ [kv[s] EXCEPT !.at = "idle"].at = "idle"
    BY <1>2, Data DEF Cache
  <2>2. kv' = [kv EXCEPT ![s] = [kv[s] EXCEPT !.at = "idle"]]
    BY DEF ChatEnd, EndDecode
  <2> QED
    BY <1>2, <2>1, <2>2, Data
<1> HIDE DEF a, b, p, q, o, g
<1>6. /\ pend' \in [Sessions -> PendRec] /\ pend'[s] = q /\ \A x \in Sessions : x # s => pend'[x] = pend[x]
      /\ prog' \in [Sessions -> ProgRec] /\ prog'[s] = g /\ \A x \in Sessions : x # s => prog'[x] = prog[x]
  BY <1>2, <1>4, <1>40, <1>5, Data
<1>61. \A x \in Sessions : x # s => Kept(x)
  BY <1>6, <1>53, <1>54 DEF Kept
<1>7. Pays(s, q, g, held'[s], kv'[s].at, a, {"answered"}, FALSE, {}, ClearsIn(b, s))
  <2>1. FlowOf(q, g, kv'[s].at, {"answered"}, FALSE)
    BY <1>1, <1>4, <1>40, <1>54, <1>3 DEF At, FlowOf, OpFlow, p, o, Pausing
  <2>2. ClearOf(q, g, {"answered"}, {} \cup ClearsIn(b, s), ClearsIn(b, s))
    BY <1>1, <1>4, <1>40, <1>3 DEF At, FlowOf, OpFlow, ClearOf, p, o, Vacant, Idling, EarlyOps, Pausing
  <2>3. PartOf(q)
    BY <1>1, <1>4 DEF At, PartOf, p
  <2>4. \A r \in Units : BackedOf(q, g, held'[s][r], DueIn(a, s, r), r)
    <3> SUFFICES ASSUME NEW r \in Units PROVE BackedOf(q, g, held'[s][r], DueIn(a, s, r), r)
      OBVIOUS
    <3>1. /\ Amount(p.part, r) \in Nat /\ p.own[r] \in Nat /\ o.holds[r] \in Nat /\ held[s][r] \in Nat
          /\ held[s][r] >= o.holds[r] + Amount(p.part, r) /\ p.own[r] <= o.holds[r]
      BY <1>1, Sizes DEF p, o
    <3>2. /\ DueIn(a, s, r) = 0 /\ Amount(q.part, r) = Amount(p.part, r) /\ q.own[r] = p.own[r]
          /\ g.holds[r] = o.holds[r] /\ held'[s][r] = held[s][r]
      BY <1>4, <1>40, <1>52, <1>53, AmountEmpty
    <3> QED
      BY <3>1, <3>2 DEF BackedOf
  <2> QED
    BY <2>1, <2>2, <2>3, <2>4 DEF Pays
<1>71. Settled(s, a, {"answered"}, FALSE, {}, ClearsIn(b, s))
  BY <1>6, <1>7 DEF Settled
<1>8. SameFamily(s, {"answered"})
  BY <1>1, <1>40, <1>6, <1>3 DEF SameFamily, At, FlowOf, OpFlow, Unjoined, o, p
<1> QED
  BY <1>1, <1>2, <1>5, <1>51, <1>52, <1>53, <1>54, <1>6, <1>61, <1>71, <1>8, StepKeeps

LEMMA ParkedVolley ==
  ASSUME NEW s \in Sessions
  PROVE  /\ Volley(<<Give(s, "mem", All), Give(s, "cpu", All)>>, s, {}, FALSE, {"mem", "cpu"})
         /\ \A r : DueIn(<<Give(s, "mem", All), Give(s, "cpu", All)>>, s, r) = 0
<1> DEFINE a == <<Give(s, "mem", All)>>
           b == <<Give(s, "cpu", All)>>
           no == FALSE
           none == {}
           m == {"mem"}
           n == {"cpu"}
<1>1. "mem" \in Units /\ "cpu" \in Units
  BY UnitsAre
<1>2. Volley(a, s, none, no, m) /\ Volley(b, s, none, no, n)
  <2>1. /\ Volley(<<Give(s, "mem", 0)>>, s, {}, 0 # All, IF 0 = All THEN {"mem"} ELSE {})
        /\ Volley(<<Give(s, "cpu", 0)>>, s, {}, 0 # All, IF 0 = All THEN {"cpu"} ELSE {})
    BY <1>1, VolleyGive
  <2> QED
    BY <2>1 DEF All
<1>3. <<Give(s, "mem", All), Give(s, "cpu", All)>> = a \o b
  OBVIOUS
<1>4. no \in BOOLEAN /\ ~no /\ none = {}
  OBVIOUS
<1> HIDE DEF a, b, no, none, m, n
<1>5. Volley(a \o b, s, none, no, m \cup n)
  BY <1>2, <1>4, VolleyConcat
<1> DEFINE c == a \o b
<1>6. c \in Seq(Frame) /\ ~GivesIn(c, s)
  BY <1>4, <1>5 DEF Volley
<1> HIDE DEF c
<1>7. \A r : DueIn(c, s, r) = 0
  BY <1>6, NothingDue
<1>8. m \cup n = {"mem", "cpu"}
  BY DEF m, n
<1> QED
  BY <1>3, <1>5, <1>7, <1>8 DEF c, no, none

LEMMA CallsTwo == (\A f, h : <<f, h>> \o <<>> = <<f, h>>) /\ <<>> \o <<>> = <<>>
OBVIOUS

\* A sandbox is parked by its timer.
LEMMA ParkCold ==
  ASSUME Good, NEW s \in Sessions, UNCHANGED <<world, aimd>>, Park(s), (~HasStep(s) /\ prog[s].holds["mem"] > 0)
  PROVE  Good'
<1> DEFINE b == <<>>
           p == pend[s]
           q == pend[s]
           o == prog[s]
           g == [o EXCEPT !.park = o.park - 1]
           a == <<Give(s, "mem", All), Give(s, "cpu", All)>>
<1>1. Below(b, s) /\ At(s, {}, ClearsIn(b, s))
  BY AtEvent DEF Park, Parked, Handle, AtRest
<1>2. s \in Sessions /\ p \in PendRec /\ o \in ProgRec
  BY <1>1 DEF At
<1>3. ClearsIn(b, s) = {}
  BY ViewOfNone
<1>31. prog[s].park > 0
  BY DEF Park
<1>32. ~HasStep(s) /\ p.mode \in Pausing /\ o.life # "off" /\ p.step.loc = 0
  <2>1. p.mode \in Pausing
    BY DEF HasStep
  <2>2. o.life # "off"
    <3>1. Nothing["mem"] = 0
      BY BagOf, UnitsAre
    <3> QED
      BY <1>1, <3>1 DEF At, FlowOf
  <2> QED
    BY <1>1, <2>1, <2>2 DEF At, FlowOf
<1>4. q \in PendRec /\ q.mode = p.mode /\ q.step = p.step /\ q.part = p.part /\ q.own = p.own /\ q.par = p.par /\ q.want = p.want /\ q.due = p.due /\ q.flag = p.flag
  BY <1>2
<1>40. g \in ProgRec /\ g.life = o.life /\ g.joins = o.joins /\ g.fanned = o.fanned /\ g.holds = o.holds /\ g.nap = o.nap
  BY <1>2, <1>31 DEF ProgRec, Parkings
<1>5. /\ world' = world /\ stack' = a \o b /\ pend' = [pend EXCEPT ![s] = q] /\ prog' = [prog EXCEPT ![s] = g]
  BY <1>2, CallsTwo, Data DEF Park, Handle, Parked
<1>51. lease' \in [Sessions -> Bags] /\ aimd' \in [cap : Nat, streak : Nat]
  BY <1>2, Data DEF Park, Handle, Parked
<1>52. Volley(a, s, {}, FALSE, {"mem", "cpu"}) /\ \A r \in Units : DueIn(a, s, r) = 0
  BY <1>2, ParkedVolley
<1>53. held' \in [Sessions -> [Units -> Int]] /\ (\A r \in Units : held'[s][r] = held[s][r]) /\ \A x \in Sessions : x # s => held'[x] = held[x]
  BY Data DEF Park, Handle, Parked
<1>54. kv' \in [Sessions -> Cache] /\ kv'[s].at = kv[s].at /\ \A x \in Sessions : x # s => kv'[x] = kv[x]
  BY Data DEF Park, Handle, Parked
<1> HIDE DEF a, b, p, q, o, g
<1>6. /\ pend' \in [Sessions -> PendRec] /\ pend'[s] = q /\ \A x \in Sessions : x # s => pend'[x] = pend[x]
      /\ prog' \in [Sessions -> ProgRec] /\ prog'[s] = g /\ \A x \in Sessions : x # s => prog'[x] = prog[x]
  BY <1>2, <1>4, <1>40, <1>5, Data
<1>61. \A x \in Sessions : x # s => Kept(x)
  BY <1>6, <1>53, <1>54 DEF Kept
<1>7. Pays(s, q, g, held'[s], kv'[s].at, a, {}, FALSE, {"mem", "cpu"}, ClearsIn(b, s))
  <2>1. FlowOf(q, g, kv'[s].at, {}, FALSE)
    BY <1>1, <1>31, <1>4, <1>40, <1>54 DEF At, FlowOf, OpFlow, p, o, Pausing, Parkings
  <2>2. ClearOf(q, g, {}, {"mem", "cpu"} \cup ClearsIn(b, s), {})
    BY <1>3, <1>32, <1>4, <1>40 DEF ClearOf, Vacant
  <2>3. PartOf(q)
    BY <1>1, <1>4 DEF At, PartOf, p
  <2>4. \A r \in Units : BackedOf(q, g, held'[s][r], DueIn(a, s, r), r)
    <3> SUFFICES ASSUME NEW r \in Units PROVE BackedOf(q, g, held'[s][r], DueIn(a, s, r), r)
      OBVIOUS
    <3>1. /\ Amount(p.part, r) \in Nat /\ p.own[r] \in Nat /\ o.holds[r] \in Nat /\ held[s][r] \in Nat
          /\ held[s][r] >= o.holds[r] + Amount(p.part, r) /\ p.own[r] <= o.holds[r]
      BY <1>1, Sizes DEF p, o
    <3>2. /\ DueIn(a, s, r) = 0 /\ Amount(q.part, r) = Amount(p.part, r) /\ q.own[r] = p.own[r]
          /\ g.holds[r] = o.holds[r] /\ held'[s][r] = held[s][r]
      BY <1>4, <1>40, <1>52, <1>53, AmountEmpty
    <3> QED
      BY <3>1, <3>2 DEF BackedOf
  <2> QED
    BY <2>1, <2>2, <2>3, <2>4 DEF Pays
<1>71. Settled(s, a, {}, FALSE, {"mem", "cpu"}, ClearsIn(b, s))
  BY <1>6, <1>7 DEF Settled
<1>8. SameFamily(s, {})
  BY <1>1, <1>40, <1>6 DEF SameFamily, At, FlowOf, OpFlow, Unjoined, o
<1> QED
  BY <1>1, <1>2, <1>5, <1>51, <1>52, <1>53, <1>54, <1>6, <1>61, <1>71, <1>8, StepKeeps

\* A sandbox is parked by its timer.
LEMMA ParkWarm ==
  ASSUME Good, NEW s \in Sessions, UNCHANGED <<world, aimd>>, Park(s), ~(~HasStep(s) /\ prog[s].holds["mem"] > 0)
  PROVE  Good'
<1> DEFINE b == <<>>
           p == pend[s]
           q == pend[s]
           o == prog[s]
           g == [o EXCEPT !.park = o.park - 1]
           a == <<>>
<1>1. Below(b, s) /\ At(s, {}, ClearsIn(b, s))
  BY AtEvent DEF Park, Parked, Handle, AtRest
<1>2. s \in Sessions /\ p \in PendRec /\ o \in ProgRec
  BY <1>1 DEF At
<1>3. ClearsIn(b, s) = {}
  BY ViewOfNone
<1>31. prog[s].park > 0
  BY DEF Park
<1>4. q \in PendRec /\ q.mode = p.mode /\ q.step = p.step /\ q.part = p.part /\ q.own = p.own /\ q.par = p.par /\ q.want = p.want /\ q.due = p.due /\ q.flag = p.flag
  BY <1>2
<1>40. g \in ProgRec /\ g.life = o.life /\ g.joins = o.joins /\ g.fanned = o.fanned /\ g.holds = o.holds /\ g.nap = o.nap
  BY <1>2, <1>31 DEF ProgRec, Parkings
<1>5. /\ world' = world /\ stack' = a \o b /\ pend' = [pend EXCEPT ![s] = q] /\ prog' = [prog EXCEPT ![s] = g]
  BY <1>2, CallsTwo, Data DEF Park, Handle, Parked
<1>51. lease' \in [Sessions -> Bags] /\ aimd' \in [cap : Nat, streak : Nat]
  BY <1>2, Data DEF Park, Handle, Parked
<1>52. Volley(a, s, {}, FALSE, {}) /\ \A r \in Units : DueIn(a, s, r) = 0
  BY VolleyNone, ViewOfNone
<1>53. held' \in [Sessions -> [Units -> Int]] /\ (\A r \in Units : held'[s][r] = held[s][r]) /\ \A x \in Sessions : x # s => held'[x] = held[x]
  BY Data DEF Park, Handle, Parked
<1>54. kv' \in [Sessions -> Cache] /\ kv'[s].at = kv[s].at /\ \A x \in Sessions : x # s => kv'[x] = kv[x]
  BY Data DEF Park, Handle, Parked
<1> HIDE DEF a, b, p, q, o, g
<1>6. /\ pend' \in [Sessions -> PendRec] /\ pend'[s] = q /\ \A x \in Sessions : x # s => pend'[x] = pend[x]
      /\ prog' \in [Sessions -> ProgRec] /\ prog'[s] = g /\ \A x \in Sessions : x # s => prog'[x] = prog[x]
  BY <1>2, <1>4, <1>40, <1>5, Data
<1>61. \A x \in Sessions : x # s => Kept(x)
  BY <1>6, <1>53, <1>54 DEF Kept
<1>7. Pays(s, q, g, held'[s], kv'[s].at, a, {}, FALSE, {}, ClearsIn(b, s))
  <2>1. FlowOf(q, g, kv'[s].at, {}, FALSE)
    BY <1>1, <1>31, <1>4, <1>40, <1>54 DEF At, FlowOf, OpFlow, p, o, Pausing, Parkings
  <2>2. ClearOf(q, g, {}, {} \cup ClearsIn(b, s), {})
    BY <1>1, <1>4, <1>40, <1>3 DEF At, FlowOf, OpFlow, ClearOf, p, o, Vacant, Idling, EarlyOps, Pausing
  <2>3. PartOf(q)
    BY <1>1, <1>4 DEF At, PartOf, p
  <2>4. \A r \in Units : BackedOf(q, g, held'[s][r], DueIn(a, s, r), r)
    <3> SUFFICES ASSUME NEW r \in Units PROVE BackedOf(q, g, held'[s][r], DueIn(a, s, r), r)
      OBVIOUS
    <3>1. /\ Amount(p.part, r) \in Nat /\ p.own[r] \in Nat /\ o.holds[r] \in Nat /\ held[s][r] \in Nat
          /\ held[s][r] >= o.holds[r] + Amount(p.part, r) /\ p.own[r] <= o.holds[r]
      BY <1>1, Sizes DEF p, o
    <3>2. /\ DueIn(a, s, r) = 0 /\ Amount(q.part, r) = Amount(p.part, r) /\ q.own[r] = p.own[r]
          /\ g.holds[r] = o.holds[r] /\ held'[s][r] = held[s][r]
      BY <1>4, <1>40, <1>52, <1>53, AmountEmpty
    <3> QED
      BY <3>1, <3>2 DEF BackedOf
  <2> QED
    BY <2>1, <2>2, <2>3, <2>4 DEF Pays
<1>71. Settled(s, a, {}, FALSE, {}, ClearsIn(b, s))
  BY <1>6, <1>7 DEF Settled
<1>8. SameFamily(s, {})
  BY <1>1, <1>40, <1>6 DEF SameFamily, At, FlowOf, OpFlow, Unjoined, o
<1> QED
  BY <1>1, <1>2, <1>5, <1>51, <1>52, <1>53, <1>54, <1>6, <1>61, <1>71, <1>8, StepKeeps

\* An idle sandbox is parked.
LEMMA ParkIdleCold ==
  ASSUME Good, NEW s \in Sessions, UNCHANGED <<world, aimd>>, ParkIdle(s), (~HasStep(s) /\ prog[s].holds["mem"] > 0)
  PROVE  Good'
<1> DEFINE b == <<>>
           p == pend[s]
           q == pend[s]
           o == prog[s]
           g == [o EXCEPT !.nap = IF o.nap = "park" THEN "no" ELSE "warm"]
           a == <<Give(s, "mem", All), Give(s, "cpu", All)>>
<1>1. Below(b, s) /\ At(s, {}, ClearsIn(b, s))
  BY AtEvent DEF ParkIdle, Parked, Handle, AtRest
<1>2. s \in Sessions /\ p \in PendRec /\ o \in ProgRec
  BY <1>1 DEF At
<1>3. ClearsIn(b, s) = {}
  BY ViewOfNone
<1>31. prog[s].nap \in Parkings
  BY DEF ParkIdle
<1>32. ~HasStep(s) /\ p.mode \in Pausing /\ o.life # "off" /\ p.step.loc = 0
  <2>1. p.mode \in Pausing
    BY DEF HasStep
  <2>2. o.life # "off"
    <3>1. Nothing["mem"] = 0
      BY BagOf, UnitsAre
    <3> QED
      BY <1>1, <3>1 DEF At, FlowOf
  <2> QED
    BY <1>1, <2>1, <2>2 DEF At, FlowOf
<1>4. q \in PendRec /\ q.mode = p.mode /\ q.step = p.step /\ q.part = p.part /\ q.own = p.own /\ q.par = p.par /\ q.want = p.want /\ q.due = p.due /\ q.flag = p.flag
  BY <1>2
<1>40. g \in ProgRec /\ g.life = o.life /\ g.joins = o.joins /\ g.fanned = o.fanned /\ g.holds = o.holds /\ g.nap = (IF o.nap = "park" THEN "no" ELSE "warm")
  BY <1>2, <1>31 DEF ProgRec, Parkings
<1>5. /\ world' = world /\ stack' = a \o b /\ pend' = [pend EXCEPT ![s] = q] /\ prog' = [prog EXCEPT ![s] = g]
  BY <1>2, CallsTwo, Data DEF ParkIdle, Handle, Parked
<1>51. lease' \in [Sessions -> Bags] /\ aimd' \in [cap : Nat, streak : Nat]
  BY <1>2, Data DEF ParkIdle, Handle, Parked
<1>52. Volley(a, s, {}, FALSE, {"mem", "cpu"}) /\ \A r \in Units : DueIn(a, s, r) = 0
  BY <1>2, ParkedVolley
<1>53. held' \in [Sessions -> [Units -> Int]] /\ (\A r \in Units : held'[s][r] = held[s][r]) /\ \A x \in Sessions : x # s => held'[x] = held[x]
  BY Data DEF ParkIdle, Handle, Parked
<1>54. kv' \in [Sessions -> Cache] /\ kv'[s].at = kv[s].at /\ \A x \in Sessions : x # s => kv'[x] = kv[x]
  BY Data DEF ParkIdle, Handle, Parked
<1> HIDE DEF a, b, p, q, o, g
<1>6. /\ pend' \in [Sessions -> PendRec] /\ pend'[s] = q /\ \A x \in Sessions : x # s => pend'[x] = pend[x]
      /\ prog' \in [Sessions -> ProgRec] /\ prog'[s] = g /\ \A x \in Sessions : x # s => prog'[x] = prog[x]
  BY <1>2, <1>4, <1>40, <1>5, Data
<1>61. \A x \in Sessions : x # s => Kept(x)
  BY <1>6, <1>53, <1>54 DEF Kept
<1>7. Pays(s, q, g, held'[s], kv'[s].at, a, {}, FALSE, {"mem", "cpu"}, ClearsIn(b, s))
  <2>1. FlowOf(q, g, kv'[s].at, {}, FALSE)
    BY <1>1, <1>31, <1>4, <1>40, <1>54 DEF At, FlowOf, OpFlow, p, o, Pausing, Parkings
  <2>2. ClearOf(q, g, {}, {"mem", "cpu"} \cup ClearsIn(b, s), {})
    BY <1>3, <1>32, <1>4, <1>40 DEF ClearOf, Vacant
  <2>3. PartOf(q)
    BY <1>1, <1>4 DEF At, PartOf, p
  <2>4. \A r \in Units : BackedOf(q, g, held'[s][r], DueIn(a, s, r), r)
    <3> SUFFICES ASSUME NEW r \in Units PROVE BackedOf(q, g, held'[s][r], DueIn(a, s, r), r)
      OBVIOUS
    <3>1. /\ Amount(p.part, r) \in Nat /\ p.own[r] \in Nat /\ o.holds[r] \in Nat /\ held[s][r] \in Nat
          /\ held[s][r] >= o.holds[r] + Amount(p.part, r) /\ p.own[r] <= o.holds[r]
      BY <1>1, Sizes DEF p, o
    <3>2. /\ DueIn(a, s, r) = 0 /\ Amount(q.part, r) = Amount(p.part, r) /\ q.own[r] = p.own[r]
          /\ g.holds[r] = o.holds[r] /\ held'[s][r] = held[s][r]
      BY <1>4, <1>40, <1>52, <1>53, AmountEmpty
    <3> QED
      BY <3>1, <3>2 DEF BackedOf
  <2> QED
    BY <2>1, <2>2, <2>3, <2>4 DEF Pays
<1>71. Settled(s, a, {}, FALSE, {"mem", "cpu"}, ClearsIn(b, s))
  BY <1>6, <1>7 DEF Settled
<1>8. SameFamily(s, {})
  BY <1>1, <1>40, <1>6 DEF SameFamily, At, FlowOf, OpFlow, Unjoined, o
<1> QED
  BY <1>1, <1>2, <1>5, <1>51, <1>52, <1>53, <1>54, <1>6, <1>61, <1>71, <1>8, StepKeeps

\* An idle sandbox is parked.
LEMMA ParkIdleWarm ==
  ASSUME Good, NEW s \in Sessions, UNCHANGED <<world, aimd>>, ParkIdle(s), ~(~HasStep(s) /\ prog[s].holds["mem"] > 0)
  PROVE  Good'
<1> DEFINE b == <<>>
           p == pend[s]
           q == pend[s]
           o == prog[s]
           g == [o EXCEPT !.nap = IF o.nap = "park" THEN "no" ELSE "warm"]
           a == <<>>
<1>1. Below(b, s) /\ At(s, {}, ClearsIn(b, s))
  BY AtEvent DEF ParkIdle, Parked, Handle, AtRest
<1>2. s \in Sessions /\ p \in PendRec /\ o \in ProgRec
  BY <1>1 DEF At
<1>3. ClearsIn(b, s) = {}
  BY ViewOfNone
<1>31. prog[s].nap \in Parkings
  BY DEF ParkIdle
<1>4. q \in PendRec /\ q.mode = p.mode /\ q.step = p.step /\ q.part = p.part /\ q.own = p.own /\ q.par = p.par /\ q.want = p.want /\ q.due = p.due /\ q.flag = p.flag
  BY <1>2
<1>40. g \in ProgRec /\ g.life = o.life /\ g.joins = o.joins /\ g.fanned = o.fanned /\ g.holds = o.holds /\ g.nap = (IF o.nap = "park" THEN "no" ELSE "warm")
  BY <1>2, <1>31 DEF ProgRec, Parkings
<1>5. /\ world' = world /\ stack' = a \o b /\ pend' = [pend EXCEPT ![s] = q] /\ prog' = [prog EXCEPT ![s] = g]
  BY <1>2, CallsTwo, Data DEF ParkIdle, Handle, Parked
<1>51. lease' \in [Sessions -> Bags] /\ aimd' \in [cap : Nat, streak : Nat]
  BY <1>2, Data DEF ParkIdle, Handle, Parked
<1>52. Volley(a, s, {}, FALSE, {}) /\ \A r \in Units : DueIn(a, s, r) = 0
  BY VolleyNone, ViewOfNone
<1>53. held' \in [Sessions -> [Units -> Int]] /\ (\A r \in Units : held'[s][r] = held[s][r]) /\ \A x \in Sessions : x # s => held'[x] = held[x]
  BY Data DEF ParkIdle, Handle, Parked
<1>54. kv' \in [Sessions -> Cache] /\ kv'[s].at = kv[s].at /\ \A x \in Sessions : x # s => kv'[x] = kv[x]
  BY Data DEF ParkIdle, Handle, Parked
<1> HIDE DEF a, b, p, q, o, g
<1>6. /\ pend' \in [Sessions -> PendRec] /\ pend'[s] = q /\ \A x \in Sessions : x # s => pend'[x] = pend[x]
      /\ prog' \in [Sessions -> ProgRec] /\ prog'[s] = g /\ \A x \in Sessions : x # s => prog'[x] = prog[x]
  BY <1>2, <1>4, <1>40, <1>5, Data
<1>61. \A x \in Sessions : x # s => Kept(x)
  BY <1>6, <1>53, <1>54 DEF Kept
<1>7. Pays(s, q, g, held'[s], kv'[s].at, a, {}, FALSE, {}, ClearsIn(b, s))
  <2>1. FlowOf(q, g, kv'[s].at, {}, FALSE)
    BY <1>1, <1>31, <1>4, <1>40, <1>54 DEF At, FlowOf, OpFlow, p, o, Pausing, Parkings
  <2>2. ClearOf(q, g, {}, {} \cup ClearsIn(b, s), {})
    BY <1>1, <1>4, <1>40, <1>3 DEF At, FlowOf, OpFlow, ClearOf, p, o, Vacant, Idling, EarlyOps, Pausing
  <2>3. PartOf(q)
    BY <1>1, <1>4 DEF At, PartOf, p
  <2>4. \A r \in Units : BackedOf(q, g, held'[s][r], DueIn(a, s, r), r)
    <3> SUFFICES ASSUME NEW r \in Units PROVE BackedOf(q, g, held'[s][r], DueIn(a, s, r), r)
      OBVIOUS
    <3>1. /\ Amount(p.part, r) \in Nat /\ p.own[r] \in Nat /\ o.holds[r] \in Nat /\ held[s][r] \in Nat
          /\ held[s][r] >= o.holds[r] + Amount(p.part, r) /\ p.own[r] <= o.holds[r]
      BY <1>1, Sizes DEF p, o
    <3>2. /\ DueIn(a, s, r) = 0 /\ Amount(q.part, r) = Amount(p.part, r) /\ q.own[r] = p.own[r]
          /\ g.holds[r] = o.holds[r] /\ held'[s][r] = held[s][r]
      BY <1>4, <1>40, <1>52, <1>53, AmountEmpty
    <3> QED
      BY <3>1, <3>2 DEF BackedOf
  <2> QED
    BY <2>1, <2>2, <2>3, <2>4 DEF Pays
<1>71. Settled(s, a, {}, FALSE, {}, ClearsIn(b, s))
  BY <1>6, <1>7 DEF Settled
<1>8. SameFamily(s, {})
  BY <1>1, <1>40, <1>6 DEF SameFamily, At, FlowOf, OpFlow, Unjoined, o
<1> QED
  BY <1>1, <1>2, <1>5, <1>51, <1>52, <1>53, <1>54, <1>6, <1>61, <1>71, <1>8, StepKeeps

LEMMA ParkKeeps ==
  ASSUME Good, NEW s \in Sessions, UNCHANGED <<world, aimd>>, Park(s) \/ ParkIdle(s)
  PROVE  Good'
BY ParkCold, ParkWarm, ParkIdleCold, ParkIdleWarm

\* No room to warm a sandbox.
LEMMA PrewarmNot ==
  ASSUME Good, NEW s \in Sessions, UNCHANGED <<world, aimd>>, prog[s].nap = "warm", Handle(<<>>), prog' = [prog EXCEPT ![s].nap = "no"], UNCHANGED <<held, pend, lease, kv>>
  PROVE  Good'
<1> DEFINE b == <<>>
           p == pend[s]
           q == pend[s]
           o == prog[s]
           g == [o EXCEPT !.nap = "no"]
           a == <<>>
<1>1. Below(b, s) /\ At(s, {}, ClearsIn(b, s))
  BY AtEvent DEF Handle, AtRest
<1>2. s \in Sessions /\ p \in PendRec /\ o \in ProgRec
  BY <1>1 DEF At
<1>3. ClearsIn(b, s) = {}
  BY ViewOfNone
<1>4. q \in PendRec /\ q.mode = p.mode /\ q.step = p.step /\ q.part = p.part /\ q.own = p.own /\ q.par = p.par /\ q.want = p.want /\ q.due = p.due /\ q.flag = p.flag
  BY <1>2
<1>40. g \in ProgRec /\ g.life = o.life /\ g.joins = o.joins /\ g.fanned = o.fanned /\ g.holds = o.holds /\ g.nap = "no"
  BY <1>2 DEF ProgRec
<1>5. /\ world' = world /\ stack' = a \o b /\ pend' = [pend EXCEPT ![s] = q] /\ prog' = [prog EXCEPT ![s] = g]
  BY <1>2, CallsTwo, Data DEF Handle
<1>51. lease' \in [Sessions -> Bags] /\ aimd' \in [cap : Nat, streak : Nat]
  BY <1>2, Data DEF Handle
<1>52. Volley(a, s, {}, FALSE, {}) /\ \A r \in Units : DueIn(a, s, r) = 0
  BY VolleyNone, ViewOfNone
<1>53. held' \in [Sessions -> [Units -> Int]] /\ (\A r \in Units : held'[s][r] = held[s][r]) /\ \A x \in Sessions : x # s => held'[x] = held[x]
  BY Data DEF Handle
<1>54. kv' \in [Sessions -> Cache] /\ kv'[s].at = kv[s].at /\ \A x \in Sessions : x # s => kv'[x] = kv[x]
  BY Data DEF Handle
<1> HIDE DEF a, b, p, q, o, g
<1>6. /\ pend' \in [Sessions -> PendRec] /\ pend'[s] = q /\ \A x \in Sessions : x # s => pend'[x] = pend[x]
      /\ prog' \in [Sessions -> ProgRec] /\ prog'[s] = g /\ \A x \in Sessions : x # s => prog'[x] = prog[x]
  BY <1>2, <1>4, <1>40, <1>5, Data, ZenonT(40)
<1>61. \A x \in Sessions : x # s => Kept(x)
  BY <1>6, <1>53, <1>54 DEF Kept
<1>7. Pays(s, q, g, held'[s], kv'[s].at, a, {}, FALSE, {}, ClearsIn(b, s))
  <2>1. FlowOf(q, g, kv'[s].at, {}, FALSE)
    BY <1>1, <1>4, <1>40, <1>54 DEF At, FlowOf, OpFlow, p, o, Pausing
  <2>2. ClearOf(q, g, {}, {} \cup ClearsIn(b, s), {})
    BY <1>1, <1>4, <1>40, <1>3 DEF At, FlowOf, OpFlow, ClearOf, p, o, Vacant, Idling, EarlyOps, Pausing
  <2>3. PartOf(q)
    BY <1>1, <1>4 DEF At, PartOf, p
  <2>4. \A r \in Units : BackedOf(q, g, held'[s][r], DueIn(a, s, r), r)
    <3> SUFFICES ASSUME NEW r \in Units PROVE BackedOf(q, g, held'[s][r], DueIn(a, s, r), r)
      OBVIOUS
    <3>1. /\ Amount(p.part, r) \in Nat /\ p.own[r] \in Nat /\ o.holds[r] \in Nat /\ held[s][r] \in Nat
          /\ held[s][r] >= o.holds[r] + Amount(p.part, r) /\ p.own[r] <= o.holds[r]
      BY <1>1, Sizes DEF p, o
    <3>2. /\ DueIn(a, s, r) = 0 /\ Amount(q.part, r) = Amount(p.part, r) /\ q.own[r] = p.own[r]
          /\ g.holds[r] = o.holds[r] /\ held'[s][r] = held[s][r]
      BY <1>4, <1>40, <1>52, <1>53, AmountEmpty
    <3> QED
      BY <3>1, <3>2 DEF BackedOf
  <2> QED
    BY <2>1, <2>2, <2>3, <2>4 DEF Pays
<1>71. Settled(s, a, {}, FALSE, {}, ClearsIn(b, s))
  BY <1>6, <1>7 DEF Settled
<1>8. SameFamily(s, {})
  BY <1>1, <1>40, <1>6 DEF SameFamily, At, FlowOf, OpFlow, Unjoined, o
<1> QED
  BY <1>1, <1>2, <1>5, <1>51, <1>52, <1>53, <1>54, <1>6, <1>61, <1>71, <1>8, StepKeeps

\* A parked sandbox comes back.
LEMMA PrewarmDone ==
  ASSUME Good, NEW s \in Sessions, UNCHANGED <<world, aimd>>, prog[s].nap = "warm", Handle(<<>>), NEW park \in PrewarmHolds,
         held' = [held EXCEPT ![s] = [held[s] EXCEPT !["mem"] = held[s]["mem"] + world.gb[s], !["cpu"] = held[s]["cpu"] + 1]], prog[s].holds["mem"] = 0,
         prog' = [prog EXCEPT ![s] = [prog[s] EXCEPT !.holds = [prog[s].holds EXCEPT !["mem"] = world.gb[s], !["cpu"] = 1], !.nap = "no", !.park = prog[s].park + park]],
         UNCHANGED <<pend, lease, kv>>
  PROVE  Good'
<1> DEFINE b == <<>>
           p == pend[s]
           q == pend[s]
           o == prog[s]
           g == [o EXCEPT !.holds = [o.holds EXCEPT !["mem"] = world.gb[s], !["cpu"] = 1], !.nap = "no", !.park = o.park + park]
           a == <<>>
<1>1. Below(b, s) /\ At(s, {}, ClearsIn(b, s))
  BY AtEvent DEF Handle, AtRest
<1>2. s \in Sessions /\ p \in PendRec /\ o \in ProgRec
  BY <1>1 DEF At
<1>3. ClearsIn(b, s) = {} /\ o.nap = "warm" /\ o.holds["mem"] = 0
  BY ViewOfNone
<1>31. world.gb[s] \in Nat /\ "mem" \in Units /\ "cpu" \in Units /\ o.holds \in Bags
  BY <1>2, Data, WorldIs, UnitsAre, ProgIs DEF IsWorld, Sessions
<1>32. [o.holds EXCEPT !["mem"] = world.gb[s], !["cpu"] = 1] \in Bags
  BY <1>31 DEF Bags
<1>321. \A r \in Units : [o.holds EXCEPT !["mem"] = world.gb[s], !["cpu"] = 1][r] = (IF r = "mem" THEN world.gb[s] ELSE IF r = "cpu" THEN 1 ELSE o.holds[r])
  BY <1>31 DEF Bags
<1>322. p.own = Nothing => \A r \in Units : p.own[r] = 0
  BY BagOf
<1>33. o.park + park \in Nat
  BY <1>2, ProgIs DEF PrewarmHolds
<1>34. p.own = Nothing /\ o.life # "off"
  BY <1>1, <1>3 DEF At, FlowOf
<1>4. q \in PendRec /\ q.mode = p.mode /\ q.step = p.step /\ q.part = p.part /\ q.own = p.own /\ q.par = p.par /\ q.want = p.want /\ q.due = p.due /\ q.flag = p.flag
  BY <1>2
<1>40. g \in ProgRec /\ g.life = o.life /\ g.joins = o.joins /\ g.fanned = o.fanned /\ g.holds = [o.holds EXCEPT !["mem"] = world.gb[s], !["cpu"] = 1] /\ g.nap = "no"
  BY <1>2, <1>32, <1>33 DEF ProgRec
<1>5. /\ world' = world /\ stack' = a \o b /\ pend' = [pend EXCEPT ![s] = q] /\ prog' = [prog EXCEPT ![s] = g]
  BY <1>2, <1>31, CallsTwo, Data DEF Handle
<1>51. lease' \in [Sessions -> Bags] /\ aimd' \in [cap : Nat, streak : Nat]
  BY <1>2, Data DEF Handle
<1>52. Volley(a, s, {}, FALSE, {}) /\ \A r \in Units : DueIn(a, s, r) = 0
  BY VolleyNone, ViewOfNone
<1>53. held' \in [Sessions -> [Units -> Int]] /\ (\A r \in Units : held'[s][r] = (IF r = "mem" THEN held[s][r] + world.gb[s] ELSE IF r = "cpu" THEN held[s][r] + 1 ELSE held[s][r])) /\ \A x \in Sessions : x # s => held'[x] = held[x]
  <2> DEFINE row == [held[s] EXCEPT !["mem"] = held[s]["mem"] + world.gb[s], !["cpu"] = held[s]["cpu"] + 1]
  <2>1. held[s] \in [Units -> Int]
    BY <1>2, Data
  <2>2. held' = [held EXCEPT ![s] = row]
    BY <1>2, <1>31, <2>1, Data
  <2>3. row \in [Units -> Int] /\ \A r \in Units : row[r] = IF r = "mem" THEN held[s][r] + world.gb[s] ELSE IF r = "cpu" THEN held[s][r] + 1 ELSE held[s][r]
    BY <1>31, <2>1, SMTT(100)
  <2> HIDE DEF row
  <2>4. held' \in [Sessions -> [Units -> Int]] /\ held'[s] = row /\ \A x \in Sessions : x # s => held'[x] = held[x]
    BY <1>2, <2>2, <2>3, Data, ZenonT(40)
  <2> QED
    BY <2>3, <2>4

<1>54. kv' \in [Sessions -> Cache] /\ kv'[s].at = kv[s].at /\ \A x \in Sessions : x # s => kv'[x] = kv[x]
  BY Data DEF Handle
<1> HIDE DEF a, b, p, q, o, g
<1>6. /\ pend' \in [Sessions -> PendRec] /\ pend'[s] = q /\ \A x \in Sessions : x # s => pend'[x] = pend[x]
      /\ prog' \in [Sessions -> ProgRec] /\ prog'[s] = g /\ \A x \in Sessions : x # s => prog'[x] = prog[x]
  BY <1>2, <1>4, <1>40, <1>5, Data
<1>61. \A x \in Sessions : x # s => Kept(x)
  BY <1>6, <1>53, <1>54 DEF Kept
<1>7. Pays(s, q, g, held'[s], kv'[s].at, a, {}, FALSE, {}, ClearsIn(b, s))
  <2>1. FlowOf(q, g, kv'[s].at, {}, FALSE)
    BY <1>1, <1>4, <1>40, <1>54, <1>3, <1>34 DEF At, FlowOf, OpFlow, p, o, Pausing
  <2>2. ClearOf(q, g, {}, {} \cup ClearsIn(b, s), {})
    BY <1>1, <1>4, <1>40, <1>3 DEF At, FlowOf, OpFlow, ClearOf, p, o, Vacant, Idling, EarlyOps, Pausing
  <2>3. PartOf(q)
    BY <1>1, <1>4 DEF At, PartOf, p
  <2>4. \A r \in Units : BackedOf(q, g, held'[s][r], DueIn(a, s, r), r)
    <3> SUFFICES ASSUME NEW r \in Units PROVE BackedOf(q, g, held'[s][r], DueIn(a, s, r), r)
      OBVIOUS
    <3>1. /\ Amount(p.part, r) \in Nat /\ p.own[r] \in Nat /\ o.holds[r] \in Nat /\ held[s][r] \in Nat
          /\ held[s][r] >= o.holds[r] + Amount(p.part, r) /\ p.own[r] <= o.holds[r]
      BY <1>1, Sizes DEF p, o
    <3>2. /\ DueIn(a, s, r) = 0 /\ Amount(q.part, r) = Amount(p.part, r) /\ q.own[r] = 0
          /\ g.holds[r] = (IF r = "mem" THEN world.gb[s] ELSE IF r = "cpu" THEN 1 ELSE o.holds[r]) /\ held'[s][r] = (IF r = "mem" THEN held[s][r] + world.gb[s] ELSE IF r = "cpu" THEN held[s][r] + 1 ELSE held[s][r])
      BY <1>4, <1>40, <1>52, <1>53, AmountEmpty, <1>322, <1>34, <1>321
    <3> QED
      BY <3>1, <3>2, <1>3, <1>31 DEF BackedOf, Bags
  <2> QED
    BY <2>1, <2>2, <2>3, <2>4 DEF Pays
<1>71. Settled(s, a, {}, FALSE, {}, ClearsIn(b, s))
  BY <1>6, <1>7 DEF Settled
<1>8. SameFamily(s, {})
  BY <1>1, <1>40, <1>6 DEF SameFamily, At, FlowOf, OpFlow, Unjoined, o
<1> QED
  BY <1>1, <1>2, <1>5, <1>51, <1>52, <1>53, <1>54, <1>6, <1>61, <1>71, <1>8, StepKeeps

LEMMA PrewarmKeeps ==
  ASSUME Good, NEW s \in Sessions, UNCHANGED <<world, aimd>>, Prewarm(s)
  PROVE  Good'
<1>1. CASE ~HasStep(s) /\ prog[s].holds["mem"] = 0 /\ Free("mem", s) >= world.gb[s] /\ Free("cpu", s) >= 1
  BY <1>1, PrewarmDone DEF Prewarm
<1>2. CASE ~(~HasStep(s) /\ prog[s].holds["mem"] = 0 /\ Free("mem", s) >= world.gb[s] /\ Free("cpu", s) >= 1)
  BY <1>2, PrewarmNot DEF Prewarm
<1> QED
  BY <1>1, <1>2, SMTT(100)

LEMMA HeadVolley ==
  ASSUME Good, NEW s, s = Head(stack).s, stack # <<>>, IsThread(Head(stack))
  PROVE  /\ Volley(<<Head(stack)>>, s, {Head(stack).op}, FALSE, {}) /\ \A r : DueIn(<<Head(stack)>>, s, r) = 0
         /\ stack = <<Head(stack)>> \o Tail(stack)
<1>1. stack \in Seq(Frame) /\ Orderly(stack)
  BY DEF Good, Typed, Flows
<1>2. Volley(<<Head(stack)>>, s, {Head(stack).op}, FALSE, {}) /\ stack = <<Head(stack)>> \o Tail(stack)
  BY <1>1, TopOf, HeadIs
<1> DEFINE a == <<Head(stack)>>
<1>3. a \in Seq(Frame) /\ ~GivesIn(a, s)
  BY <1>2 DEF Volley
<1> HIDE DEF a
<1>4. \A r : DueIn(a, s, r) = 0
  BY <1>3, NothingDue
<1> QED
  BY <1>2, <1>4 DEF a

LEMMA RowAdd ==
  ASSUME NEW f \in [Units -> Int], NEW t \in Units, NEW n \in Int
  PROVE  /\ [f EXCEPT ![t] = f[t] + n] \in [Units -> Int]
         /\ \A r \in Units : [f EXCEPT ![t] = f[t] + n][r] = IF r = t THEN f[r] + n ELSE f[r]
OBVIOUS

\* Thread s takes n of t for its step: z is the step's new record.
Taking(s, t, n, z) ==
  /\ t \in {"mem", "cpu"} => pend[s].step.loc > 0
  /\ t = "ext" => pend[s].step.kind = "tool"
  /\ t = "ret" => pend[s].step.kind = "fetch"
  /\ z \in PendRec /\ z.part = Append(pend[s].part, <<t, n>>)
  /\ z.mode = pend[s].mode /\ z.step = pend[s].step /\ z.own = pend[s].own /\ z.want = pend[s].want
  /\ z.due = pend[s].due /\ z.flag = pend[s].flag
  /\ z.par => pend[s].par \/ (t = "cpu" /\ n >= Extra(pend[s].step) /\ Extra(pend[s].step) > 0)
  /\ Take(s, t, n) /\ pend' = [pend EXCEPT ![s] = z] /\ lease' \in [Sessions -> Bags]

\* A resource is taken for the step.
LEMMA TakeKeeps ==
  ASSUME Good, NEW s, s = Head(stack).s, Top("try"), NEW t \in Units, NEW n \in Nat, n > 0, NEW z, Taking(s, t, n, z)
  PROVE  Good'
<1> DEFINE b == Tail(stack)
           p == pend[s]
           q == z
           o == prog[s]
           g == prog[s]
           a == <<Head(stack)>>
<1>1. Below(b, s) /\ At(s, {"try"}, ClearsIn(b, s))
  BY AtCall DEF Top, IsThread, ThreadOps
<1>2. s \in Sessions /\ p \in PendRec /\ o \in ProgRec
  BY <1>1 DEF At
<1>3. /\ p.part \in Parts /\ Extra(p.step) \in Int
      /\ \A i \in DOMAIN Append(p.part, <<t, n>>) :
           \/ i \in DOMAIN p.part /\ Append(p.part, <<t, n>>)[i] = p.part[i]
           \/ Append(p.part, <<t, n>>)[i] = <<t, n>>
      /\ \A r \in Units : Amount(Append(p.part, <<t, n>>), r) = Amount(p.part, r) + (IF t = r THEN n ELSE 0)
  <2>1. p.part \in Parts /\ p.step \in Steps
    BY <1>2, PendIs
  <2> HIDE DEF p
  <2>2. Extra(p.step) \in Int
    BY <2>1, ExtraIs
  <2> QED
    BY <2>1, <2>2, AmountMore, SMTT(100)
<1>31. /\ t \in {"mem", "cpu"} => p.step.loc > 0
       /\ t = "ext" => p.step.kind = "tool"
       /\ t = "ret" => p.step.kind = "fetch"
       /\ q.par => p.par \/ (t = "cpu" /\ n >= Extra(p.step) /\ Extra(p.step) > 0)
  BY DEF Taking
<1>32. stack = a \o b
  BY HeadVolley DEF Top, IsThread, ThreadOps
<1>4. q \in PendRec /\ q.mode = p.mode /\ q.step = p.step /\ q.part = Append(p.part, <<t, n>>) /\ q.own = p.own /\ q.want = p.want /\ q.due = p.due /\ q.flag = p.flag
  BY DEF Taking
<1>40. g \in ProgRec /\ g.life = o.life /\ g.joins = o.joins /\ g.fanned = o.fanned /\ g.holds = o.holds /\ g.nap = o.nap
  BY <1>2, SMTT(100)
<1>5. /\ world' = world /\ stack' = a \o b /\ pend' = [pend EXCEPT ![s] = q] /\ prog' = [prog EXCEPT ![s] = g]
  BY <1>2, <1>32, Data, ZenonT(40) DEF Take, Taking
<1>51. lease' \in [Sessions -> Bags] /\ aimd' \in [cap : Nat, streak : Nat]
  BY <1>2, Data DEF Take, Taking
<1>52. Volley(a, s, {"try"}, FALSE, {}) /\ \A r \in Units : DueIn(a, s, r) = 0
  BY HeadVolley DEF Top, IsThread, ThreadOps
<1>53. held' \in [Sessions -> [Units -> Int]] /\ (\A r \in Units : held'[s][r] = (IF r = t THEN held[s][r] + n ELSE held[s][r])) /\ \A x \in Sessions : x # s => held'[x] = held[x]
  <2> DEFINE row == [held[s] EXCEPT ![t] = held[s][t] + n]
  <2>1. held[s] \in [Units -> Int]
    BY <1>2, Data
  <2>2. held' = [held EXCEPT ![s] = row]
    BY <1>2, <2>1, Data DEF Take, Taking
  <2>3. row \in [Units -> Int] /\ \A r \in Units : row[r] = IF r = t THEN held[s][r] + n ELSE held[s][r]
    BY <2>1, RowAdd
  <2> HIDE DEF row
  <2>4. held' \in [Sessions -> [Units -> Int]] /\ held'[s] = row /\ \A x \in Sessions : x # s => held'[x] = held[x]
    BY <1>2, <2>2, <2>3, Data, SMTT(100)
  <2> QED
    BY <2>3, <2>4

<1>54. kv' \in [Sessions -> Cache] /\ kv'[s].at = kv[s].at /\ \A x \in Sessions : x # s => kv'[x] = kv[x]
  BY Data DEF Take, Taking
<1> HIDE DEF a, b, p, q, o, g
<1>6. /\ pend' \in [Sessions -> PendRec] /\ pend'[s] = q /\ \A x \in Sessions : x # s => pend'[x] = pend[x]
      /\ prog' \in [Sessions -> ProgRec] /\ prog'[s] = g /\ \A x \in Sessions : x # s => prog'[x] = prog[x]
  BY <1>2, <1>4, <1>40, <1>5, Data
<1>61. \A x \in Sessions : x # s => Kept(x)
  BY <1>6, <1>53, <1>54 DEF Kept
<1>7. Pays(s, q, g, held'[s], kv'[s].at, a, {"try"}, FALSE, {}, ClearsIn(b, s))
  <2>1. FlowOf(q, g, kv'[s].at, {"try"}, FALSE)
    BY <1>1, <1>31, <1>4, <1>40, <1>54, ZenonT(40) DEF At, FlowOf, OpFlow, p, o, Pausing
  <2>2. ClearOf(q, g, {"try"}, {} \cup ClearsIn(b, s), ClearsIn(b, s))
    BY <1>1, <1>4, <1>40 DEF At, FlowOf, OpFlow, ClearOf, p, o, Vacant, Idling, EarlyOps, Pausing
  <2>3. PartOf(q)
    <3>1. PartOf(p) /\ p.mode = "ready" /\ p.own["cpu"] = 0
      <4>1. PartOf(p) /\ p.mode = "ready" /\ p.own = Nothing
        BY <1>1 DEF At, FlowOf, OpFlow, p
      <4> QED
        BY <4>1, BagOf, UnitsAre
    <3>2. Amount(p.part, "cpu") \in Nat /\ Amount(q.part, "cpu") = Amount(p.part, "cpu") + (IF t = "cpu" THEN n ELSE 0)
      <4>1. "cpu" \in Units
        BY UnitsAre
      <4>2. Amount(p.part, "cpu") \in Nat
        BY <1>3, <4>1, AmountIs
      <4> QED
        BY <1>3, <1>4, <4>1, <4>2
    <3>3. q.par /\ q.mode # "tool" => Amount(q.part, "cpu") >= Extra(q.step) /\ Extra(q.step) > 0
      <4>1. p.par => Amount(p.part, "cpu") >= Extra(p.step) /\ Extra(p.step) > 0
        BY <3>1 DEF PartOf
      <4>2. q.step = p.step /\ n \in Nat
        BY <1>4
      <4>3. q.par => Amount(q.part, "cpu") >= Extra(p.step) /\ Extra(p.step) > 0
        <5>1. CASE p.par
          BY <1>3, <3>2, <4>1, <4>2, <5>1
        <5>2. CASE ~p.par
          BY <1>3, <1>31, <3>2, <4>2, <5>2
        <5> QED
          BY <5>1, <5>2
      <4> QED
        BY <4>2, <4>3
    <3>4. ASSUME NEW i \in DOMAIN q.part
          PROVE  /\ q.part[i][2] > 0
                 /\ q.part[i][1] \in {"mem", "cpu"} => q.step.loc > 0
                 /\ q.part[i][1] = "ext" => q.step.kind = "tool"
                 /\ q.part[i][1] = "ret" => q.step.kind = "fetch"
      <4>1. CASE i \in DOMAIN p.part /\ q.part[i] = p.part[i]
        BY <1>4, <3>1, <4>1 DEF PartOf
      <4>2. CASE q.part[i] = <<t, n>>
        BY <1>31, <1>4, <4>2
      <4> QED
        BY <1>3, <1>4, <3>4, <4>1, <4>2
    <3> QED
      BY <1>4, <3>1, <3>3, <3>4 DEF PartOf
  <2>4. \A r \in Units : BackedOf(q, g, held'[s][r], DueIn(a, s, r), r)
    <3> SUFFICES ASSUME NEW r \in Units PROVE BackedOf(q, g, held'[s][r], DueIn(a, s, r), r)
      OBVIOUS
    <3>1. /\ Amount(p.part, r) \in Nat /\ p.own[r] \in Nat /\ o.holds[r] \in Nat /\ held[s][r] \in Nat
          /\ held[s][r] >= o.holds[r] + Amount(p.part, r) /\ p.own[r] <= o.holds[r]
      BY <1>1, Sizes DEF p, o
    <3>2. /\ DueIn(a, s, r) = 0 /\ Amount(q.part, r) = Amount(p.part, r) + (IF t = r THEN n ELSE 0) /\ q.own[r] = p.own[r]
          /\ g.holds[r] = o.holds[r] /\ held'[s][r] = (IF r = t THEN held[s][r] + n ELSE held[s][r])
      BY <1>4, <1>40, <1>52, <1>53, AmountEmpty, <1>3
    <3> QED
      BY <3>1, <3>2 DEF BackedOf
  <2> QED
    BY <2>1, <2>2, <2>3, <2>4 DEF Pays
<1>71. Settled(s, a, {"try"}, FALSE, {}, ClearsIn(b, s))
  BY <1>6, <1>7 DEF Settled
<1>8. SameFamily(s, {"try"})
  BY <1>1, <1>40, <1>6 DEF SameFamily, At, FlowOf, OpFlow, Unjoined, o
<1> QED
  BY <1>1, <1>2, <1>5, <1>51, <1>52, <1>53, <1>54, <1>6, <1>61, <1>71, <1>8, StepKeeps

LEMMA TakeNextKeeps ==
  ASSUME Good, NEW s, s = Head(stack).s, Top("try"), TakeNext(s)
  PROVE  Good'
<1> DEFINE t == First(Missing(s))
           n == Needs(s, t)
           p == pend[s]
           z == [p EXCEPT !.part = Append(p.part, <<t, n>>)]
<1>1. s \in Sessions /\ p \in PendRec
  BY AtCall DEF Top, IsThread, ThreadOps, At
<1>2. t \in Units /\ n \in Nat /\ n > 0
  BY <1>1, MissingIs DEF TakeNext
<1>3. /\ t \in {"mem", "cpu"} => p.step.loc > 0
      /\ t = "ext" => p.step.kind = "tool"
      /\ t = "ret" => p.step.kind = "fetch"
  BY <1>1, <1>2, NeedsIs
<1>4. Take(s, t, n) /\ pend' = [pend EXCEPT ![s] = z] /\ lease' = lease
  BY DEF TakeNext
<1>5. lease' \in [Sessions -> Bags]
  BY <1>4, Data
<1> HIDE DEF t, n
<1>6. Append(p.part, <<t, n>>) \in Parts
  BY <1>1, <1>2, PendIs, AmountMore, SMTT(100)
<1>7. z \in PendRec /\ z.part = Append(p.part, <<t, n>>) /\ z.par = p.par /\ z.mode = p.mode /\ z.step = p.step
      /\ z.own = p.own /\ z.want = p.want /\ z.due = p.due /\ z.flag = p.flag /\ z.gang = p.gang
      /\ z.rest = p.rest /\ z.tries = p.tries
  BY <1>1, <1>6 DEF PendRec
<1> HIDE DEF z
<1>8. Taking(s, t, n, z)
  BY <1>3, <1>4, <1>5, <1>7 DEF Taking
<1> QED
  BY <1>2, <1>8, TakeKeeps

LEMMA TakeSpareKeeps ==
  ASSUME Good, NEW s, s = Head(stack).s, Top("try"), TakeSpare(s)
  PROVE  Good'
<1> DEFINE n == Extra(pend[s].step)
           p == pend[s]
           z == [p EXCEPT !.part = Append(p.part, <<"cpu", n>>), !.par = TRUE]
<1>1. s \in Sessions /\ p \in PendRec
  BY AtCall DEF Top, IsThread, ThreadOps, At
<1>2. "cpu" \in Units /\ n \in Nat /\ n > 0 /\ n >= n
  BY <1>1, PendIs, ExtraIs, UnitsAre DEF TakeSpare, SpareFits, Spare
<1>3. p.step.loc > 0
  <2>1. p.step \in Steps
    BY <1>1, PendIs
  <2>2. p.step.loc \in Nat /\ p.step.loc > 1
    BY <1>2, <2>1, ExtraIs, StepIs, SMTT(100)
  <2> QED
    BY <2>2
<1>4. Take(s, "cpu", n) /\ pend' = [pend EXCEPT ![s] = z] /\ lease' = [lease EXCEPT ![s]["cpu"] = 0]
  BY DEF TakeSpare
<1>5. lease' \in [Sessions -> Bags]
  <2>1. lease[s] \in Bags
    BY <1>1, Data
  <2>2. [lease[s] EXCEPT !["cpu"] = 0] \in Bags
    BY <2>1 DEF Bags
  <2> QED
    BY <1>4, <2>2, Data
<1>50. n = Extra(p.step)
  OBVIOUS
<1> HIDE DEF n
<1>6. Append(p.part, <<"cpu", n>>) \in Parts
  BY <1>1, <1>2, PendIs, AmountMore, SMTT(100)
<1>7. z \in PendRec /\ z.part = Append(p.part, <<"cpu", n>>) /\ z.par = TRUE /\ z.mode = p.mode /\ z.step = p.step
      /\ z.own = p.own /\ z.want = p.want /\ z.due = p.due /\ z.flag = p.flag /\ z.gang = p.gang
      /\ z.rest = p.rest /\ z.tries = p.tries
  BY <1>1, <1>6 DEF PendRec
<1> HIDE DEF z
<1>8. Taking(s, "cpu", n, z)
  BY <1>2, <1>3, <1>4, <1>5, <1>50, <1>7 DEF Taking
<1> QED
  BY <1>2, <1>8, TakeKeeps, SMTT(100)

LEMMA WaitOrFailKeeps ==
  ASSUME Good, NEW s, s = Head(stack).s, Top("try"), NEW r \in Units \cup {"kv"}, NEW amt \in Nat, WaitOrFail(s, r, amt)
  PROVE  Good'
<1>1. CASE Fail(s)
  BY <1>1, FailKeeps
<1>2. CASE Wait(s, r, amt, FALSE)
  BY <1>2, WaitKeeps
<1> QED
  BY <1>1, <1>2 DEF WaitOrFail

LEMMA AwaitKeeps ==
  ASSUME Good, NEW s, s = Head(stack).s, Top("try"), TakeNothing(s) \/ AwaitSpare(s) \/ AwaitCache(s)
  PROVE  Good'
<1>1. s \in Sessions /\ pend[s] \in PendRec /\ prog[s] \in ProgRec
  BY AtCall DEF Top, IsThread, ThreadOps, At
<1>2. CASE TakeNothing(s)
  <2> DEFINE t == First(Missing(s))
             n == Needs(s, t)
  <2>1. t \in Units \cup {"kv"} /\ n \in Nat
    BY <1>1, <1>2, MissingIs DEF TakeNothing
  <2>2. WaitOrFail(s, t, n)
    BY <1>2 DEF TakeNothing
  <2> HIDE DEF t, n
  <2> QED
    BY <2>1, <2>2, WaitOrFailKeeps
<1>3. CASE AwaitSpare(s)
  <2> DEFINE n == Extra(pend[s].step)
  <2>1. "cpu" \in Units \cup {"kv"} /\ n \in Nat
    BY <1>1, PendIs, ExtraIs, UnitsAre
  <2>2. Wait(s, "cpu", n, TRUE)
    BY <1>3 DEF AwaitSpare
  <2> HIDE DEF n
  <2> QED
    BY <2>1, <2>2, WaitKeeps
<1>4. CASE AwaitCache(s)
  <2> DEFINE n == NeedKV(s)
  <2>1. n \in Nat
    <3>1. world.reserve \in Nat
      BY Data, WorldIs DEF IsWorld
    <3> QED
      BY <1>1, <3>1, ProgIs DEF NeedKV, ContextOf
  <2>2. WaitOrFail(s, "kv", n)
    BY <1>4 DEF AwaitCache
  <2> HIDE DEF n
  <2> QED
    BY <2>1, <2>2, WaitOrFailKeeps
<1> QED
  BY <1>2, <1>3, <1>4

LEMMA ProgMade ==
  ASSUME NEW p \in ProgRec, NEW i \in Nat, NEW j \in Nat, NEW k \in Nat, NEW fin \in BOOLEAN
  PROVE  /\ [p EXCEPT !.req = i, !.park = j, !.fin = fin, !.chats = k] \in ProgRec
         /\ [p EXCEPT !.ctx = i, !.chats = k, !.fin = fin] \in ProgRec
<1>1. [p EXCEPT !.req = i, !.park = j, !.fin = fin, !.chats = k] \in ProgRec
  BY DEF ProgRec
<1>2. [p EXCEPT !.ctx = i, !.chats = k, !.fin = fin] \in ProgRec
  BY DEF ProgRec
<1> QED
  BY <1>1, <1>2

\* _end_session: whatever the session holds goes back.
LEMMA EndKeeps ==
  ASSUME Good, NEW s, s = Head(stack).s, NEW op \in {"react", "finish"}, Top(op), NEW z \in ProgRec, z.life \in {"done", "aborted"},
         z.fanned = prog[s].fanned, z.holds = prog[s].holds, z.nap = prog[s].nap, z.joins = prog[s].joins,
         prog' = [prog EXCEPT ![s] = z], Run(GiveHolds(s) \o <<Call("gone", s)>>), lease' \in [Sessions -> Bags],
         UNCHANGED <<world, pend, held, kv, aimd>>
  PROVE  Good'
<1> DEFINE b == Tail(stack)
           p == pend[s]
           q == pend[s]
           o == prog[s]
           g == z
           a == GiveHolds(s) \o <<Call("gone", s)>>
<1>1. Below(b, s) /\ At(s, {op}, ClearsIn(b, s))
  BY AtCall DEF Top, IsThread, ThreadOps
<1>2. s \in Sessions /\ p \in PendRec /\ o \in ProgRec
  BY <1>1 DEF At
<1>4. q \in PendRec /\ q.mode = p.mode /\ q.step = p.step /\ q.part = p.part /\ q.own = p.own /\ q.par = p.par /\ q.want = p.want /\ q.due = p.due /\ q.flag = p.flag
  BY <1>2
<1>40. g \in ProgRec /\ g.life = z.life /\ g.joins = o.joins /\ g.fanned = o.fanned /\ g.holds = o.holds /\ g.nap = o.nap
      /\ g.life \in {"done", "aborted"}
  BY <1>2
<1>5. /\ world' = world /\ stack' = a \o b /\ pend' = [pend EXCEPT ![s] = q] /\ prog' = [prog EXCEPT ![s] = g]
  BY <1>2, Data DEF Run
<1>51. lease' \in [Sessions -> Bags] /\ aimd' \in [cap : Nat, streak : Nat]
  BY <1>2, Data DEF Run
<1>52. Volley(a, s, {"gone"}, FALSE, {r \in Units : prog[s].holds[r] > 0}) /\ \A r \in Units : DueIn(a, s, r) = 0
  <2> DEFINE e == GiveHolds(s)
             c == {r \in Units : prog[s].holds[r] > 0}
             no == FALSE
  <2>1. prog[s].holds \in Bags
    BY <1>2, ProgIs
  <2>2. Volley(e, s, {}, no, c) /\ no \in BOOLEAN /\ ~no
    BY <1>2, <2>1, VolleyHolds
  <2>3. "gone" \in ThreadOps
    BY DEF ThreadOps
  <2>4. e \in Seq(Frame) /\ ~GivesIn(e, s)
    BY <2>2 DEF Volley
  <2> HIDE DEF e, c, no
  <2>5. \A r : DueIn(e, s, r) = 0
    BY <2>4, NothingDue
  <2>6. Volley(e \o <<Call("gone", s)>>, s, {"gone"}, no, c)
    BY <1>2, <2>2, <2>3, VolleyEnds
  <2>7. \A r : DueIn(e \o <<Call("gone", s)>>, s, r) = DueIn(e, s, r)
    BY <1>2, <2>2, <2>3, VolleyEnds
  <2>8. \A r \in Units : DueIn(e \o <<Call("gone", s)>>, s, r) = 0
    BY <2>5, <2>7
  <2> QED
    BY <2>6, <2>8 DEF e, c, no
<1>53. held' \in [Sessions -> [Units -> Int]] /\ (\A r \in Units : held'[s][r] = held[s][r]) /\ \A x \in Sessions : x # s => held'[x] = held[x]
  BY Data DEF Run
<1>54. kv' \in [Sessions -> Cache] /\ kv'[s].at = kv[s].at /\ \A x \in Sessions : x # s => kv'[x] = kv[x]
  BY Data DEF Run
<1> HIDE DEF a, b, p, q, o, g
<1>6. /\ pend' \in [Sessions -> PendRec] /\ pend'[s] = q /\ \A x \in Sessions : x # s => pend'[x] = pend[x]
      /\ prog' \in [Sessions -> ProgRec] /\ prog'[s] = g /\ \A x \in Sessions : x # s => prog'[x] = prog[x]
  BY <1>2, <1>4, <1>40, <1>5, Data
<1>61. \A x \in Sessions : x # s => Kept(x)
  BY <1>6, <1>53, <1>54 DEF Kept
<1>7. Pays(s, q, g, held'[s], kv'[s].at, a, {"gone"}, FALSE, {r \in Units : prog[s].holds[r] > 0}, ClearsIn(b, s))
  <2>1. FlowOf(q, g, kv'[s].at, {"gone"}, FALSE)
    <3>1. FlowOf(p, o, kv[s].at, {op}, FALSE)
      BY <1>1 DEF At, p, o
    <3>2. OpFlow(p, o, kv[s].at, op)
      BY Zenon, <3>1 DEF FlowOf
    <3>3. OpFlow(q, g, kv'[s].at, "gone")
      BY <1>4, <1>40, <1>54, <3>2 DEF OpFlow, Pausing
    <3> QED
      BY <1>4, <1>40, <1>54, <3>1, <3>2, <3>3 DEF FlowOf, OpFlow
  <2>2. ClearOf(q, g, {"gone"}, {r \in Units : prog[s].holds[r] > 0} \cup ClearsIn(b, s), ClearsIn(b, s))
    <3>1. /\ p.part = <<>> /\ p.own = Nothing /\ p.mode \in {"ready", "decode"}
          /\ \A r \in ClearsIn(b, s) : Vacant(p, {op}, r)
      BY <1>1 DEF At, FlowOf, OpFlow, p
    <3>2. \A r \in Units : Idling(q, r)
      BY <1>4, <3>1, BagOf DEF Idling
    <3>3. \A r \in ClearsIn(b, s) : Vacant(q, {"gone"}, r)
      BY <1>4, <3>1, SMTT(100) DEF Vacant, EarlyOps
    <3> QED
      BY <1>40, <3>2, <3>3, SMTT(100) DEF ClearOf
  <2>3. PartOf(q)
    BY <1>1, <1>4, ZenonT(40) DEF At, PartOf, p
  <2>4. \A r \in Units : BackedOf(q, g, held'[s][r], DueIn(a, s, r), r)
    <3> SUFFICES ASSUME NEW r \in Units PROVE BackedOf(q, g, held'[s][r], DueIn(a, s, r), r)
      OBVIOUS
    <3>1. /\ Amount(p.part, r) \in Nat /\ p.own[r] \in Nat /\ o.holds[r] \in Nat /\ held[s][r] \in Nat
          /\ held[s][r] >= o.holds[r] + Amount(p.part, r) /\ p.own[r] <= o.holds[r]
      BY <1>1, Sizes DEF p, o
    <3>2. /\ DueIn(a, s, r) = 0 /\ Amount(q.part, r) = Amount(p.part, r) /\ q.own[r] = p.own[r]
          /\ g.holds[r] = o.holds[r] /\ held'[s][r] = held[s][r]
      BY <1>4, <1>40, <1>52, <1>53, AmountEmpty
    <3> QED
      BY <3>1, <3>2 DEF BackedOf
  <2> QED
    BY <2>1, <2>2, <2>3, <2>4 DEF Pays
<1>71. Settled(s, a, {"gone"}, FALSE, {r \in Units : prog[s].holds[r] > 0}, ClearsIn(b, s))
  BY <1>6, <1>7 DEF Settled
<1>8. SameFamily(s, {"gone"})
  BY <1>1, <1>40, <1>6 DEF SameFamily, At, FlowOf, OpFlow, Unjoined, o
<1> QED
  BY <1>1, <1>2, <1>5, <1>51, <1>52, <1>53, <1>54, <1>6, <1>61, <1>71, <1>8, StepKeeps

LEMMA AbortKeeps ==
  ASSUME Good, NEW s, s = Head(stack).s, Top("react"), Abort(s)
  PROVE  Good'
<1> DEFINE z == [Failed(s) EXCEPT !.life = "aborted"]
           op == "react"
<1>1. s \in Sessions /\ prog[s] \in ProgRec
  BY AtCall DEF Top, IsThread, ThreadOps, At
<1>2. /\ prog' = [prog EXCEPT ![s] = z] /\ Run(GiveHolds(s) \o <<Call("gone", s)>>)
      /\ UNCHANGED <<world, pend, held, kv, aimd>> /\ lease' = lease
  BY DEF Abort, EndSession
<1>3. lease' \in [Sessions -> Bags]
  BY <1>2, Data
<1>4. Failed(s) \in ProgRec /\ Failed(s).fanned = prog[s].fanned /\ Failed(s).holds = prog[s].holds /\ Failed(s).nap = prog[s].nap
      /\ Failed(s).joins = prog[s].joins
  BY <1>1 DEF Failed, ProgRec
<1>5. z \in ProgRec /\ z.life = "aborted" /\ z.fanned = prog[s].fanned /\ z.holds = prog[s].holds /\ z.nap = prog[s].nap
      /\ z.joins = prog[s].joins
  BY <1>4 DEF ProgRec
<1>6. op \in {"react", "finish"} /\ Top(op) /\ z.life \in {"done", "aborted"}
  BY <1>5
<1> HIDE DEF z, op
<1> QED
  BY <1>2, <1>3, <1>5, <1>6, EndKeeps

LEMMA SlotVolley ==
  ASSUME Good, NEW s \in Sessions
  PROVE  /\ Volley(GiveSlot(s), s, {}, FALSE, IF prog[s].holds["slots"] > 0 THEN {"slots"} ELSE {})
         /\ \A r : DueIn(GiveSlot(s), s, r) = 0
<1>1. prog[s].holds["slots"] \in Nat /\ "slots" \in Units
  BY Data, ProgIs, UnitsAre DEF Bags
<1> DEFINE a == GiveSlot(s)
           c == IF prog[s].holds["slots"] > 0 THEN {"slots"} ELSE {}
<1>2. Volley(a, s, {}, FALSE, c)
  BY <1>1, VolleyHeld DEF GiveSlot
<1>3. a \in Seq(Frame) /\ ~GivesIn(a, s)
  BY <1>2 DEF Volley
<1> HIDE DEF a, c
<1>4. \A r : DueIn(a, s, r) = 0
  BY <1>3, NothingDue
<1> QED
  BY <1>2, <1>4 DEF a, c

\* A request ends, and the session thinks of the next one.
LEMMA ThinkKeeps ==
  ASSUME Good, NEW s, s = Head(stack).s, Top("finish"), NEW z \in ProgRec, z.life = prog[s].life, z.fanned = prog[s].fanned, z.holds = prog[s].holds, z.joins = prog[s].joins,
         prog' = [prog EXCEPT ![s] = z], pend' = [pend EXCEPT ![s] = NoPending("think")], Run(GiveSlot(s)),
         lease' \in [Sessions -> Bags], UNCHANGED <<world, held, kv, aimd>>
  PROVE  Good'
<1> DEFINE b == Tail(stack)
           p == pend[s]
           q == NoPending("think")
           o == prog[s]
           g == z
           a == GiveSlot(s)
<1>1. Below(b, s) /\ At(s, {"finish"}, ClearsIn(b, s))
  BY AtCall DEF Top, IsThread, ThreadOps
<1>2. s \in Sessions /\ p \in PendRec /\ o \in ProgRec
  BY <1>1 DEF At
<1>4. q \in PendRec /\ q.mode = "think" /\ q.step = Fetch /\ q.part = <<>> /\ q.own = Nothing /\ q.par = FALSE /\ q.due = FALSE /\ q.flag = FALSE
  BY NewPending DEF Modes
<1>40. g \in ProgRec /\ g.life = o.life /\ g.joins = o.joins /\ g.fanned = o.fanned /\ g.holds = o.holds
  BY <1>2
<1>5. /\ world' = world /\ stack' = a \o b /\ pend' = [pend EXCEPT ![s] = q] /\ prog' = [prog EXCEPT ![s] = g]
  BY <1>2, Data DEF Run
<1>51. lease' \in [Sessions -> Bags] /\ aimd' \in [cap : Nat, streak : Nat]
  BY <1>2, Data DEF Run
<1>52. Volley(a, s, {}, FALSE, (IF prog[s].holds["slots"] > 0 THEN {"slots"} ELSE {})) /\ \A r \in Units : DueIn(a, s, r) = 0
  BY <1>2, SlotVolley
<1>53. held' \in [Sessions -> [Units -> Int]] /\ (\A r \in Units : held'[s][r] = held[s][r]) /\ \A x \in Sessions : x # s => held'[x] = held[x]
  BY Data DEF Run
<1>54. kv' \in [Sessions -> Cache] /\ kv'[s].at = kv[s].at /\ \A x \in Sessions : x # s => kv'[x] = kv[x]
  BY Data DEF Run
<1> HIDE DEF a, b, p, q, o, g
<1>6. /\ pend' \in [Sessions -> PendRec] /\ pend'[s] = q /\ \A x \in Sessions : x # s => pend'[x] = pend[x]
      /\ prog' \in [Sessions -> ProgRec] /\ prog'[s] = g /\ \A x \in Sessions : x # s => prog'[x] = prog[x]
  BY <1>2, <1>4, <1>40, <1>5, Data
<1>61. \A x \in Sessions : x # s => Kept(x)
  BY <1>6, <1>53, <1>54 DEF Kept
<1>7. Pays(s, q, g, held'[s], kv'[s].at, a, {}, FALSE, (IF prog[s].holds["slots"] > 0 THEN {"slots"} ELSE {}), ClearsIn(b, s))
  <2>1. FlowOf(q, g, kv'[s].at, {}, FALSE)
    BY <1>1, <1>4, <1>40, <1>54, FetchOf DEF At, FlowOf, OpFlow, p, o, Pausing
  <2>2. ClearOf(q, g, {}, (IF prog[s].holds["slots"] > 0 THEN {"slots"} ELSE {}) \cup ClearsIn(b, s), {})
    <3>1. o.life = "active" /\ ClearsIn(b, s) = {}
      <4>1. o.life = "active" /\ \A r \in ClearsIn(b, s) : Vacant(p, {"finish"}, r)
        BY <1>1 DEF At, FlowOf, OpFlow, p, o
      <4> QED
        BY <4>1, SMTT(100) DEF Vacant, EarlyOps
    <3>2. Idling(q, "slots")
      BY <1>4, BagOf, UnitsAre DEF Idling
    <3> QED
      BY <1>40, <3>1, <3>2 DEF ClearOf
  <2>3. PartOf(q)
    <3>1. DOMAIN <<>> = {} /\ Nothing["slots"] = 0 /\ Nothing["mem"] = 0 /\ Nothing["cpu"] = 0
      BY BagOf, UnitsAre
    <3> QED
      BY <1>4, <3>1 DEF PartOf
  <2>4. \A r \in Units : BackedOf(q, g, held'[s][r], DueIn(a, s, r), r)
    <3> SUFFICES ASSUME NEW r \in Units PROVE BackedOf(q, g, held'[s][r], DueIn(a, s, r), r)
      OBVIOUS
    <3>1. /\ Amount(p.part, r) \in Nat /\ p.own[r] \in Nat /\ o.holds[r] \in Nat /\ held[s][r] \in Nat
          /\ held[s][r] >= o.holds[r] + Amount(p.part, r) /\ p.own[r] <= o.holds[r]
      BY <1>1, Sizes DEF p, o
    <3>2. /\ DueIn(a, s, r) = 0 /\ Amount(q.part, r) = 0 /\ q.own[r] = 0
          /\ g.holds[r] = o.holds[r] /\ held'[s][r] = held[s][r]
      BY <1>4, <1>40, <1>52, <1>53, AmountEmpty, BagOf
    <3> QED
      BY <3>1, <3>2 DEF BackedOf
  <2> QED
    BY <2>1, <2>2, <2>3, <2>4 DEF Pays
<1>71. Settled(s, a, {}, FALSE, (IF prog[s].holds["slots"] > 0 THEN {"slots"} ELSE {}), ClearsIn(b, s))
  BY <1>6, <1>7 DEF Settled
<1>8. SameFamily(s, {})
  BY <1>1, <1>40, <1>6 DEF SameFamily, At, FlowOf, OpFlow, Unjoined, o
<1> QED
  BY <1>1, <1>2, <1>5, <1>51, <1>52, <1>53, <1>54, <1>6, <1>61, <1>71, <1>8, StepKeeps

LEMMA EndRequestKeeps ==
  ASSUME Good, EndRequest
  PROVE  Good'
<1> DEFINE s == Head(stack).s
           program == [prog[s] EXCEPT !.req = @ + 1, !.park = 0, !.fin = FALSE, !.chats = 0]
           op == "finish"
<1>0. Top(op) /\ Top("finish") /\ op \in {"react", "finish"}
  BY DEF EndRequest
<1>1. s \in Sessions /\ prog[s] \in ProgRec
  BY <1>0, AtCall DEF Top, IsThread, ThreadOps, At
<1>2. lease' = [lease EXCEPT ![s] = Nothing]
  BY DEF EndRequest
<1>3. lease' \in [Sessions -> Bags]
  BY <1>2, Data, BagOf
<1>4. program \in ProgRec /\ program.life = prog[s].life /\ program.fanned = prog[s].fanned /\ program.holds = prog[s].holds
      /\ program.nap = prog[s].nap /\ program.joins = prog[s].joins
  <2>1. prog[s].req \in Nat /\ prog[s].req + 1 \in Nat /\ 0 \in Nat /\ FALSE \in BOOLEAN
    BY <1>1, ProgIs
  <2>2. program \in ProgRec
    BY <1>1, <2>1, ProgMade
  <2>3. /\ program.life = prog[s].life /\ program.fanned = prog[s].fanned /\ program.holds = prog[s].holds
        /\ program.nap = prog[s].nap /\ program.joins = prog[s].joins
    BY <1>1 DEF ProgRec
  <2> QED
    BY <2>2, <2>3
<1>5. CASE EndSession(s, "done", program)
  <2> DEFINE z == [program EXCEPT !.life = "done"]
  <2>1. /\ prog' = [prog EXCEPT ![s] = z] /\ Run(GiveHolds(s) \o <<Call("gone", s)>>)
        /\ UNCHANGED <<world, pend, held, kv, aimd>>
    BY <1>5 DEF EndSession
  <2> HIDE DEF program
  <2>2. z \in ProgRec /\ z.life = "done" /\ z.fanned = program.fanned /\ z.holds = program.holds /\ z.nap = program.nap
        /\ z.joins = program.joins
    BY <1>4 DEF ProgRec
  <2>3. /\ z.life \in {"done", "aborted"} /\ z.fanned = prog[s].fanned /\ z.holds = prog[s].holds /\ z.nap = prog[s].nap
        /\ z.joins = prog[s].joins
    BY <1>4, <2>2
  <2> HIDE DEF z, s, op
  <2> QED
    BY <1>0, <1>3, <2>1, <2>2, <2>3, EndKeeps DEF s
<1>6. ASSUME pend' = [pend EXCEPT ![s] = NoPending("think")], NEW nap \in Naps(program),
             prog' = [prog EXCEPT ![s] = [program EXCEPT !.nap = nap]], Run(GiveSlot(s)), UNCHANGED <<world, held, kv, aimd>>
      PROVE  Good'
  <2> DEFINE z == [program EXCEPT !.nap = nap]
  <2>0. nap \in {"no", "warm"} \cup Parkings
    BY <1>6 DEF Naps
  <2>1. prog' = [prog EXCEPT ![s] = z]
    BY <1>6
  <2> HIDE DEF program
  <2>2. z \in ProgRec /\ z.life = program.life /\ z.fanned = program.fanned /\ z.holds = program.holds
        /\ z.joins = program.joins
    BY <1>4, <2>0 DEF ProgRec
  <2>3. z.life = prog[s].life /\ z.fanned = prog[s].fanned /\ z.holds = prog[s].holds /\ z.joins = prog[s].joins
    BY <1>4, <2>2
  <2> HIDE DEF z, s, op
  <2> QED
    BY <1>0, <1>3, <1>6, <2>1, <2>2, <2>3, ThinkKeeps DEF s
<1> QED
  BY <1>5, <1>6 DEF EndRequest

\* after_chat.
LEMMA ChatOverAt ==
  ASSUME Good, NEW s, s = Head(stack).s, Top("answered"), NEW op \in {"finish", "spawn", "next"}, op = "spawn" => CanSpawn(s), NEW todo \in Seq(Works),
         NEW z \in ProgRec, z.life = prog[s].life, z.fanned = prog[s].fanned, z.holds = prog[s].holds, z.joins = prog[s].joins, z.nap = prog[s].nap,
         prog' = [prog EXCEPT ![s] = z], pend' = [pend EXCEPT ![s].rest = todo],
         NEW e, NEW c, c \subseteq {"slots"}, Volley(e, s, {}, FALSE, c), Run(e \o <<Call(op, s)>>),
         lease' \in [Sessions -> Bags], UNCHANGED <<world, held, kv, aimd>>
  PROVE  Good'
<1> DEFINE b == Tail(stack)
           p == pend[s]
           q == [p EXCEPT !.rest = todo]
           o == prog[s]
           g == z
           a == e \o <<Call(op, s)>>
<1>1. Below(b, s) /\ At(s, {"answered"}, ClearsIn(b, s))
  BY AtCall DEF Top, IsThread, ThreadOps
<1>2. s \in Sessions /\ p \in PendRec /\ o \in ProgRec
  BY <1>1 DEF At
<1>3. op = "spawn" => Kids(s) # {} /\ ~o.fanned
  BY DEF CanSpawn
<1>4. q \in PendRec /\ q.mode = p.mode /\ q.step = p.step /\ q.part = p.part /\ q.own = p.own /\ q.par = p.par /\ q.want = p.want /\ q.due = p.due /\ q.flag = p.flag
  BY <1>2 DEF PendRec
<1>40. g \in ProgRec /\ g.life = o.life /\ g.joins = o.joins /\ g.fanned = o.fanned /\ g.holds = o.holds /\ g.nap = o.nap
  BY <1>2
<1>5. /\ world' = world /\ stack' = a \o b /\ pend' = [pend EXCEPT ![s] = q] /\ prog' = [prog EXCEPT ![s] = g]
  BY <1>2, Data DEF Run
<1>51. lease' \in [Sessions -> Bags] /\ aimd' \in [cap : Nat, streak : Nat]
  BY <1>2, Data DEF Run
<1>52. Volley(a, s, {op}, FALSE, c) /\ \A r \in Units : DueIn(a, s, r) = 0
  <2> DEFINE no == FALSE
  <2>1. op \in ThreadOps /\ no \in BOOLEAN /\ ~no /\ Volley(e, s, {}, no, c)
    BY DEF ThreadOps
  <2>2. e \in Seq(Frame) /\ ~GivesIn(e, s)
    BY <2>1 DEF Volley
  <2> HIDE DEF no
  <2>3. \A r : DueIn(e, s, r) = 0
    BY <2>2, NothingDue
  <2>4. Volley(e \o <<Call(op, s)>>, s, {op}, no, c)
    BY <1>2, <2>1, VolleyEnds
  <2>5. \A r : DueIn(e \o <<Call(op, s)>>, s, r) = DueIn(e, s, r)
    BY <1>2, <2>1, VolleyEnds, ZenonT(40)
  <2> QED
    BY <2>3, <2>4, <2>5 DEF no
<1>53. held' \in [Sessions -> [Units -> Int]] /\ (\A r \in Units : held'[s][r] = held[s][r]) /\ \A x \in Sessions : x # s => held'[x] = held[x]
  BY Data DEF Run
<1>54. kv' \in [Sessions -> Cache] /\ kv'[s].at = kv[s].at /\ \A x \in Sessions : x # s => kv'[x] = kv[x]
  BY Data DEF Run
<1> HIDE DEF a, b, p, q, o, g
<1>6. /\ pend' \in [Sessions -> PendRec] /\ pend'[s] = q /\ \A x \in Sessions : x # s => pend'[x] = pend[x]
      /\ prog' \in [Sessions -> ProgRec] /\ prog'[s] = g /\ \A x \in Sessions : x # s => prog'[x] = prog[x]
  BY <1>2, <1>4, <1>40, <1>5, Data
<1>61. \A x \in Sessions : x # s => Kept(x)
  BY <1>6, <1>53, <1>54 DEF Kept
<1>7. Pays(s, q, g, held'[s], kv'[s].at, a, {op}, FALSE, c, ClearsIn(b, s))
  <2>1. FlowOf(q, g, kv'[s].at, {op}, FALSE)
    BY <1>1, <1>4, <1>40, <1>54, ZenonT(40) DEF At, FlowOf, OpFlow, p, o, Pausing
  <2>2. ClearOf(q, g, {op}, c \cup ClearsIn(b, s), ClearsIn(b, s))
    <3>1. o.life = "active" /\ ClearsIn(b, s) = {} /\ p.part = <<>> /\ p.own = Nothing /\ p.mode \in {"decode", "ready"}
      <4>1. /\ o.life = "active" /\ p.part = <<>> /\ p.own = Nothing /\ p.mode \in {"decode", "ready"}
            /\ \A r \in ClearsIn(b, s) : Vacant(p, {"answered"}, r)
        BY <1>1 DEF At, FlowOf, OpFlow, p, o
      <4> QED
        BY <4>1 DEF Vacant, EarlyOps
    <3>2. Idling(q, "slots")
      BY <1>4, <3>1, BagOf, UnitsAre DEF Idling
    <3> QED
      BY <1>40, <3>1, <3>2 DEF ClearOf
  <2>3. PartOf(q)
    BY <1>1, <1>4, ZenonT(40) DEF At, PartOf, p
  <2>4. \A r \in Units : BackedOf(q, g, held'[s][r], DueIn(a, s, r), r)
    <3> SUFFICES ASSUME NEW r \in Units PROVE BackedOf(q, g, held'[s][r], DueIn(a, s, r), r)
      OBVIOUS
    <3>1. /\ Amount(p.part, r) \in Nat /\ p.own[r] \in Nat /\ o.holds[r] \in Nat /\ held[s][r] \in Nat
          /\ held[s][r] >= o.holds[r] + Amount(p.part, r) /\ p.own[r] <= o.holds[r]
      BY <1>1, Sizes DEF p, o
    <3>2. /\ DueIn(a, s, r) = 0 /\ Amount(q.part, r) = Amount(p.part, r) /\ q.own[r] = p.own[r]
          /\ g.holds[r] = o.holds[r] /\ held'[s][r] = held[s][r]
      BY <1>4, <1>40, <1>52, <1>53, AmountEmpty
    <3> QED
      BY <3>1, <3>2 DEF BackedOf
  <2> QED
    BY <2>1, <2>2, <2>3, <2>4 DEF Pays
<1>71. Settled(s, a, {op}, FALSE, c, ClearsIn(b, s))
  BY <1>6, <1>7 DEF Settled
<1>8. SameFamily(s, {op})
  BY <1>1, <1>40, <1>6, <1>3 DEF SameFamily, At, FlowOf, OpFlow, Unjoined, o
<1> QED
  BY <1>1, <1>2, <1>5, <1>51, <1>52, <1>53, <1>54, <1>6, <1>61, <1>71, <1>8, StepKeeps

LEMMA ChatOverKeeps ==
  ASSUME Good, NEW s, s = Head(stack).s, Top("answered"), NEW op \in {"finish", "spawn", "next"}, op = "spawn" => CanSpawn(s),
         NEW todo \in Seq(Works), ChatOver(s, op, todo)
  PROVE  Good'
<1>1. s \in Sessions /\ prog[s] \in ProgRec /\ pend[s] \in PendRec
  BY AtCall DEF Top, IsThread, ThreadOps, At
<1>2. PICK fin \in BOOLEAN : prog' = ChatDone(s, fin)
  BY DEF ChatOver
<1> DEFINE ctx == Compacted(prog[s].ctx + pend[s].step.out)
           z == [prog[s] EXCEPT !.ctx = ctx, !.chats = prog[s].chats + 1, !.fin = fin]
           n == IF todo = <<>> THEN 0 ELSE Head(todo).loc
           x == IF Held(s, todo) THEN <<>> ELSE GiveSlot(s)
           c == IF Held(s, todo) THEN {} ELSE IF prog[s].holds["slots"] > 0 THEN {"slots"} ELSE {}
<1>3. ctx \in Nat
  <2>1. world.limit \in Nat /\ world.reset \in Nat
    BY Data, WorldIs DEF IsWorld
  <2>2. pend[s].step \in Steps
    BY <1>1, PendIs
  <2>3. pend[s].step.out \in Nat /\ prog[s].ctx \in Nat
    BY <1>1, <2>2, StepIs, ProgIs, SMTT(100)
  <2> QED
    BY <2>1, <2>3 DEF Compacted
<1>4. prog' = [prog EXCEPT ![s] = z]
  BY <1>2 DEF ChatDone
<1> HIDE DEF ctx
<1>5. z \in ProgRec /\ z.life = prog[s].life /\ z.fanned = prog[s].fanned /\ z.holds = prog[s].holds /\ z.joins = prog[s].joins
      /\ z.nap = prog[s].nap
  <2>1. prog[s].chats + 1 \in Nat /\ fin \in BOOLEAN
    BY <1>1, ProgIs
  <2>2. z \in ProgRec
    BY <1>1, <1>3, <2>1, ProgMade
  <2>3. /\ z.life = prog[s].life /\ z.fanned = prog[s].fanned /\ z.holds = prog[s].holds /\ z.joins = prog[s].joins
        /\ z.nap = prog[s].nap
    BY <1>1 DEF ProgRec
  <2> QED
    BY <2>2, <2>3
<1> HIDE DEF z
<1>6. n \in Nat
  <2>1. CASE todo # <<>>
    <3>1. Head(todo) \in Works
      BY <2>1
    <3> QED
      BY <2>1, <3>1, WorkIs
  <2>2. CASE todo = <<>>
    BY <2>2
  <2> QED
    BY <2>1, <2>2
<1>7. Replace(s, n, FALSE) /\ Run(x \o <<Call(op, s)>>) /\ pend' = [pend EXCEPT ![s].rest = todo] /\ UNCHANGED <<world, held, kv, aimd>>
  BY DEF ChatOver
<1> HIDE DEF n
<1>8. lease' \in [Sessions -> Bags]
  BY <1>1, <1>6, <1>7, ReplaceTyped
<1>9. Volley(x, s, {}, FALSE, c) /\ c \subseteq {"slots"}
  <2>1. CASE Held(s, todo)
    BY <2>1, VolleyNone
  <2>2. CASE ~Held(s, todo)
    BY <1>1, <2>2, SlotVolley
  <2> QED
    BY <2>1, <2>2
<1> HIDE DEF x, c
<1> QED
  BY <1>4, <1>5, <1>7, <1>8, <1>9, ChatOverAt

LEMMA ChatReturnsKeeps ==
  ASSUME Good, ChatReturns
  PROVE  Good'
<1> DEFINE s == Head(stack).s
           redo == pend[s].step.redo
           todo == IF redo # <<>> THEN {redo} ELSE world.tools
<1>0. Top("answered")
  BY DEF ChatReturns
<1>1. s \in Sessions /\ prog[s] \in ProgRec /\ pend[s] \in PendRec
  BY <1>0, AtCall DEF Top, IsThread, ThreadOps, At
<1>2. redo \in Seq(Works)
  <2>1. pend[s].step \in Steps
    BY <1>1, PendIs
  <2> QED
    BY <2>1, StepIs
<1>3. \A l \in todo : l \in Seq(Works)
  BY <1>2, WorldOuts
<1>4. \/ ChatOver(s, "finish", redo)
      \/ CanSpawn(s) /\ ChatOver(s, "spawn", redo)
      \/ \E l \in todo : ChatOver(s, "next", l)
  BY DEF ChatReturns
<1> HIDE DEF s, redo, todo
<1>5. CASE ChatOver(s, "finish", redo)
  BY <1>0, <1>2, <1>5, ChatOverKeeps DEF s
<1>6. CASE CanSpawn(s) /\ ChatOver(s, "spawn", redo)
  BY <1>0, <1>2, <1>6, ChatOverKeeps DEF s
<1>7. ASSUME NEW l \in todo, ChatOver(s, "next", l)
      PROVE  Good'
  <2>1. l \in Seq(Works)
    BY <1>3, <1>7
  <2> QED
    BY <1>0, <1>7, <2>1, ChatOverKeeps DEF s
<1> QED
  BY <1>4, <1>5, <1>6, <1>7

LEMMA TimeoutVolley ==
  ASSUME NEW s \in Sessions, pend[s].part \in Parts, \A i \in DOMAIN pend[s].part : pend[s].part[i][2] > 0,
         pend[s].own \in Bags, prog[s].holds["slots"] \in Nat, NEW w, Volley(w, s, {}, FALSE, {})
  PROVE  /\ Volley(GiveEach(s, pend[s].part) \o w \o GiveOwn(s) \o GiveSlot(s) \o <<Call("react", s)>>,
                   s, {"react"}, TRUE, (IF prog[s].holds["slots"] > 0 THEN {"slots"} ELSE {}))
         /\ \A r \in Units : DueIn(GiveEach(s, pend[s].part) \o w \o GiveOwn(s) \o GiveSlot(s) \o <<Call("react", s)>>, s, r)
              = Amount(pend[s].part, r) + (IF r \in {"ext", "ret", "cpu"} THEN pend[s].own[r] ELSE 0)
<1> DEFINE a == GiveEach(s, pend[s].part)
           b == GiveOwn(s)
           c == GiveSlot(s)
           cl == IF prog[s].holds["slots"] > 0 THEN {"slots"} ELSE {}
           yes == TRUE
           no == FALSE
           none == {}
<1>1. Volley(a, s, none, yes, none) /\ \A r \in Units : DueIn(a, s, r) = Amount(pend[s].part, r)
  BY VolleyEach
<1>2. Volley(b, s, none, yes, none) /\ \A r \in Units : DueIn(b, s, r) = IF r \in {"ext", "ret", "cpu"} THEN pend[s].own[r] ELSE 0
  BY VolleyOwn
<1>3. Volley(c, s, none, no, cl)
  BY UnitsAre, VolleyHeld DEF GiveSlot
<1>4. Volley(w, s, none, no, none) /\ yes \in BOOLEAN /\ no \in BOOLEAN /\ none = {} /\ yes /\ ~no /\ none \cup none = none /\ none \cup cl = cl
  OBVIOUS
<1>41. "react" \in ThreadOps
  BY DEF ThreadOps
<1> HIDE DEF a, b, c, cl, yes, no, none
<1>5. Volley(a \o w, s, none, yes, none)
  <2>1. Volley(a \o w, s, none, yes, none \cup none)
    BY <1>1, <1>4, VolleyConcat
  <2> QED
    BY <2>1, <1>4
<1> DEFINE aw == a \o w
<1> HIDE DEF aw
<1>6. Volley(aw \o b, s, none, yes, none)
  <2>1. Volley(aw \o b, s, none, yes, none \cup none)
    BY <1>2, <1>4, <1>5, VolleyConcat DEF aw
  <2> QED
    BY <2>1, <1>4
<1> DEFINE ab == aw \o b
<1> HIDE DEF ab
<1>7. Volley(ab \o c, s, none, yes, cl)
  <2>1. Volley(ab \o c, s, none, yes, none \cup cl)
    BY <1>3, <1>4, <1>6, VolleyConcat, ZenonT(40) DEF ab
  <2> QED
    BY <2>1, <1>4
<1> DEFINE ac == ab \o c
<1> HIDE DEF ac
<1>8. /\ Volley(ac \o <<Call("react", s)>>, s, {"react"}, yes, cl)
      /\ \A r : DueIn(ac \o <<Call("react", s)>>, s, r) = DueIn(ac, s, r)
  BY <1>4, <1>41, <1>7, VolleyEnds, ZenonT(40) DEF ac
<1>9. a \in Seq(Frame) /\ w \in Seq(Frame) /\ b \in Seq(Frame) /\ c \in Seq(Frame) /\ aw \in Seq(Frame) /\ ab \in Seq(Frame)
      /\ ~GivesIn(c, s) /\ ~GivesIn(w, s)
  BY <1>1, <1>2, <1>3, <1>4, <1>5, <1>6 DEF Volley, aw, ab
<1>10. \A r \in Units : DueIn(ac, s, r) = DueIn(a, s, r) + DueIn(b, s, r)
  <2> SUFFICES ASSUME NEW r \in Units PROVE DueIn(ac, s, r) = DueIn(a, s, r) + DueIn(b, s, r)
    OBVIOUS
  <2>1. DueIn(aw, s, r) = DueIn(a, s, r) + DueIn(w, s, r) /\ DueIn(a, s, r) \in Nat
    BY <1>9, DueOfConcat DEF aw
  <2>2. DueIn(ab, s, r) = DueIn(aw, s, r) + DueIn(b, s, r) /\ DueIn(b, s, r) \in Nat
    BY <1>9, DueOfConcat DEF ab
  <2>3. DueIn(ac, s, r) = DueIn(ab, s, r) + DueIn(c, s, r)
    BY <1>9, DueOfConcat DEF ac
  <2>4. DueIn(c, s, r) = 0 /\ DueIn(w, s, r) = 0
    BY <1>9, NothingDue
  <2> QED
    BY <2>1, <2>2, <2>3, <2>4
<1>11. \A r \in Units : DueIn(ac \o <<Call("react", s)>>, s, r)
              = Amount(pend[s].part, r) + (IF r \in {"ext", "ret", "cpu"} THEN pend[s].own[r] ELSE 0)
  BY <1>1, <1>2, <1>8, <1>10
<1>12. Volley(ac \o <<Call("react", s)>>, s, {"react"}, TRUE, cl)
  BY <1>8 DEF yes
<1> QED
  BY <1>11, <1>12 DEF ac, ab, aw, a, b, c, cl

\* A step that waited too long, or that closed a cycle, gives back all it holds.
LEMMA TimeoutKeeps ==
  ASSUME Good, NEW s \in Sessions, UNCHANGED <<world, aimd>>, WaitTimeout(s) \/ DeadlockBreak(s)
  PROVE  Good'
<1> DEFINE b == <<>>
           p == pend[s]
           q == [NoPending("ready") EXCEPT !.step = p.step, !.rest = p.rest, !.tries = p.tries]
           o == prog[s]
           g == o
           a == GiveEach(s, pend[s].part) \o (IF pend[s].mode \in {"prefill", "decode"} THEN <<Wake("kv")>> ELSE <<>>) \o GiveOwn(s) \o GiveSlot(s) \o <<Call("react", s)>>
<1>1. Below(b, s) /\ At(s, {}, ClearsIn(b, s))
  BY AtEvent DEF WaitTimeout, DeadlockBreak, TimeoutStep, Handle, AtRest
<1>2. s \in Sessions /\ p \in PendRec /\ o \in ProgRec
  BY <1>1 DEF At
<1>3. ClearsIn(b, s) = {}
  BY ViewOfNone
<1>30. prog[s].joins \in Nat
  BY JoinsNat
<1>31. HasStep(s) /\ p.mode \notin Pausing
  <2>1. CASE WaitTimeout(s)
    BY <2>1 DEF WaitTimeout, HasStep
  <2>2. CASE DeadlockBreak(s)
    <3>1. p.flag => p.mode = "waiting"
      BY <1>1 DEF At, FlowOf, p
    <3> QED
      BY <2>2, <3>1 DEF DeadlockBreak, HasStep, Pausing
  <2> QED
    BY <2>1, <2>2
<1>4. q \in PendRec /\ q.mode = "ready" /\ q.step = p.step /\ q.part = <<>> /\ q.own = Nothing /\ q.par = FALSE /\ q.due = FALSE /\ q.flag = FALSE
  <2> DEFINE n == NoPending("ready")
  <2>1. /\ n \in PendRec /\ n.mode = "ready" /\ n.part = <<>> /\ n.own = Nothing /\ n.par = FALSE /\ n.due = FALSE /\ n.flag = FALSE
    BY NewPending DEF Modes
  <2>2. p.step \in Steps /\ p.rest \in Seq(Works) /\ p.tries \in 0 .. SdkRetries
    BY <1>2, PendIs
  <2> HIDE DEF n
  <2>3. [n EXCEPT !.step = p.step, !.rest = p.rest, !.tries = p.tries] \in PendRec
    BY <2>1, <2>2 DEF PendRec
  <2> DEFINE m == [n EXCEPT !.step = p.step, !.rest = p.rest, !.tries = p.tries]
  <2>4. /\ m.mode = n.mode /\ m.step = p.step /\ m.part = n.part /\ m.own = n.own /\ m.par = n.par /\ m.due = n.due
        /\ m.flag = n.flag
    BY <2>1 DEF PendRec
  <2> QED
    BY <2>1, <2>3, <2>4 DEF n, q
<1>40. g \in ProgRec /\ g.life = o.life /\ g.joins = o.joins /\ g.fanned = o.fanned /\ g.holds = o.holds /\ g.nap = o.nap
  BY <1>2
<1>52. Volley(a, s, {"react"}, TRUE, (IF prog[s].holds["slots"] > 0 THEN {"slots"} ELSE {})) /\ \A r \in Units : DueIn(a, s, r) = (Amount(p.part, r) + (IF r \in {"ext", "ret", "cpu"} THEN p.own[r] ELSE 0))
  <2>1. p.part \in Parts /\ p.own \in Bags /\ \A i \in DOMAIN p.part : p.part[i][2] > 0
    BY <1>1, <1>2, PendIs DEF At, PartOf
  <2>2. prog[s].holds["slots"] \in Nat
    BY <1>1, UnitsAre, Sizes
  <2> DEFINE w == (IF pend[s].mode \in {"prefill", "decode"} THEN <<Wake("kv")>> ELSE <<>>)
  <2>3. Volley(w, s, {}, FALSE, {})
    <3>1. Volley(<<Wake("kv")>>, s, {}, FALSE, {})
      <4>1. Wake("kv") \in Frame /\ Wake("kv").op = "lapse"
        BY Data, WakeIs
      <4>2. ~IsThread(Wake("kv"))
        BY <4>1 DEF IsThread, ThreadOps
      <4> QED
        BY <4>1, <4>2, VolleyNeutral
    <3> QED
      BY <3>1, VolleyNone
  <2> HIDE DEF w
  <2>4. Volley(GiveEach(s, pend[s].part) \o w \o GiveOwn(s) \o GiveSlot(s) \o <<Call("react", s)>>, s, {"react"}, TRUE, (IF prog[s].holds["slots"] > 0 THEN {"slots"} ELSE {}))
    BY <1>2, <2>1, <2>2, <2>3, TimeoutVolley
  <2>5. \A r \in Units : DueIn(GiveEach(s, pend[s].part) \o w \o GiveOwn(s) \o GiveSlot(s) \o <<Call("react", s)>>, s, r) = Amount(p.part, r) + (IF r \in {"ext", "ret", "cpu"} THEN p.own[r] ELSE 0)
    BY <1>2, <2>1, <2>2, <2>3, TimeoutVolley
  <2> QED
    BY <2>4, <2>5 DEF w
<1>32. a \o <<>> = a
  <2>1. Volley(a, s, {"react"}, TRUE, (IF prog[s].holds["slots"] > 0 THEN {"slots"} ELSE {}))
    BY <1>52
  <2>2. a \in Seq(Frame)
    BY <2>1 DEF Volley
  <2> HIDE DEF a
  <2> QED
    BY <2>2
<1>5. /\ world' = world /\ stack' = a \o b /\ pend' = [pend EXCEPT ![s] = q] /\ prog' = [prog EXCEPT ![s] = g]
  BY <1>32, <1>2, Data DEF WaitTimeout, DeadlockBreak, TimeoutStep, Handle
<1>51. lease' \in [Sessions -> Bags] /\ aimd' \in [cap : Nat, streak : Nat]
  BY <1>2, Data DEF WaitTimeout, DeadlockBreak, TimeoutStep, Handle
<1>53. held' \in [Sessions -> [Units -> Int]] /\ (\A r \in Units : held'[s][r] = held[s][r]) /\ \A x \in Sessions : x # s => held'[x] = held[x]
  BY Data DEF WaitTimeout, DeadlockBreak, TimeoutStep, Handle
<1>54. kv' \in [Sessions -> Cache] /\ kv'[s].at = (IF p.mode \in {"prefill", "decode"} THEN "none" ELSE kv[s].at) /\ \A x \in Sessions : x # s => kv'[x] = kv[x]
  <2>1. kv' = IF p.mode \in {"prefill", "decode"} THEN [kv EXCEPT ![s] = NoEntry] ELSE kv
    BY DEF WaitTimeout, DeadlockBreak, TimeoutStep, Drop
  <2>2. NoEntry \in Cache /\ NoEntry.at = "none"
    BY DEF Cache, NoEntry
  <2>3. kv \in [Sessions -> Cache]
    BY Data
  <2> HIDE DEF p
  <2> QED
    BY <1>2, <2>1, <2>2, <2>3

<1> HIDE DEF a, b, p, q, o, g
<1>6. /\ pend' \in [Sessions -> PendRec] /\ pend'[s] = q /\ \A x \in Sessions : x # s => pend'[x] = pend[x]
      /\ prog' \in [Sessions -> ProgRec] /\ prog'[s] = g /\ \A x \in Sessions : x # s => prog'[x] = prog[x]
  BY <1>2, <1>4, <1>40, <1>5, Data
<1>61. \A x \in Sessions : x # s => Kept(x)
  BY <1>6, <1>53, <1>54 DEF Kept
<1>7. Pays(s, q, g, held'[s], kv'[s].at, a, {"react"}, TRUE, (IF prog[s].holds["slots"] > 0 THEN {"slots"} ELSE {}), ClearsIn(b, s))
  <2>1. FlowOf(q, g, kv'[s].at, {"react"}, TRUE)
    <3>1. /\ p.own = p.own /\ o.life = "active" /\ o.nap = "no" /\ o.joins = 0 /\ kv'[s].at \notin {"active", "decode"}
      BY <1>1, <1>2, <1>30, <1>31, <1>54 DEF At, FlowOf, p, o, Pausing
    <3>2. o.life = "active" => kv'[s].at = kv'[s].at
      OBVIOUS
    <3> QED
      BY <1>4, <1>40, <3>1 DEF FlowOf, OpFlow, Pausing
  <2>2. ClearOf(q, g, {"react"}, (IF prog[s].holds["slots"] > 0 THEN {"slots"} ELSE {}) \cup ClearsIn(b, s), ClearsIn(b, s))
    <3>1. o.life = "active"
      BY <1>1, <1>31 DEF At, FlowOf, p, o, Pausing
    <3>2. Idling(q, "slots")
      BY <1>4, BagOf, UnitsAre DEF Idling
    <3> QED
      BY <1>3, <1>40, <3>1, <3>2 DEF ClearOf
  <2>3. PartOf(q)
    <3>1. DOMAIN <<>> = {} /\ Nothing["slots"] = 0 /\ Nothing["mem"] = 0 /\ Nothing["cpu"] = 0
      BY BagOf, UnitsAre
    <3> QED
      BY <1>4, <3>1 DEF PartOf
  <2>4. \A r \in Units : BackedOf(q, g, held'[s][r], DueIn(a, s, r), r)
    <3> SUFFICES ASSUME NEW r \in Units PROVE BackedOf(q, g, held'[s][r], DueIn(a, s, r), r)
      OBVIOUS
    <3>1. /\ Amount(p.part, r) \in Nat /\ p.own[r] \in Nat /\ o.holds[r] \in Nat /\ held[s][r] \in Nat
          /\ held[s][r] >= o.holds[r] + Amount(p.part, r) /\ p.own[r] <= o.holds[r]
      BY <1>1, Sizes DEF p, o
    <3>2. /\ DueIn(a, s, r) = (Amount(p.part, r) + (IF r \in {"ext", "ret", "cpu"} THEN p.own[r] ELSE 0)) /\ Amount(q.part, r) = 0 /\ q.own[r] = 0
          /\ g.holds[r] = o.holds[r] /\ held'[s][r] = held[s][r]
      BY <1>4, <1>40, <1>52, <1>53, AmountEmpty, BagOf
    <3> QED
      BY <3>1, <3>2 DEF BackedOf
  <2> QED
    BY <2>1, <2>2, <2>3, <2>4 DEF Pays
<1>71. Settled(s, a, {"react"}, TRUE, (IF prog[s].holds["slots"] > 0 THEN {"slots"} ELSE {}), ClearsIn(b, s))
  BY <1>6, <1>7 DEF Settled
<1>8. SameFamily(s, {"react"})
  <2>1. o.life = "active"
    BY <1>1, <1>31 DEF At, FlowOf, p, o, Pausing
  <2> QED
    BY <1>1, <1>40, <1>6, <2>1 DEF SameFamily, At, Unjoined, o
<1> QED
  BY <1>1, <1>2, <1>5, <1>51, <1>52, <1>53, <1>54, <1>6, <1>61, <1>71, <1>8, StepKeeps

-----------------------------------------------------------------------------
(* The cache: what making room and beginning a request do to its entries.  *)

NoEntries == NoEntry \in Cache /\ NoEntry.at = "none" /\ NoEntry.tok = 0
LEMMA NoEntryIs == NoEntries
BY DEF NoEntries, Cache, NoEntry

LEMMA RemovedIs ==
  ASSUME NEW cache, NEW size, NEW need, NEW places, NEW V \in Removed(cache, size, need, places)
  PROVE  V \subseteq In(cache, places)
<1> DEFINE enough(S) == size - Occupied(Freed(cache, S)) >= need
           cands == In(cache, places)
<1>1. \/ V \in {{}} \/ V \in {cands} \/ V \in {S \in SUBSET cands : enough(S) /\ \E s \in S : ~enough(S \ {s})}
  <2> HIDE DEF enough, cands
  <2>1. V \in IF enough({}) THEN {{}}
              ELSE IF ~enough(cands) THEN {cands}
              ELSE {S \in SUBSET cands : enough(S) /\ \E s \in S : ~enough(S \ {s})}
    BY DEF Removed, enough, cands
  <2> QED
    BY <2>1
<1> HIDE DEF enough, cands
<1>2. V \subseteq cands
  BY <1>1
<1> QED
  BY <1>2 DEF cands

\* What an eviction leaves of the entries.
Evicts(new, old, victims) ==
  /\ victims \subseteq In(old, {"decode"})
  /\ \A x \in DOMAIN old : x \in victims => new[x] = NoEntry
  /\ \A x \in DOMAIN old : x \notin victims => new[x] = old[x] \/ (old[x].at = "idle" /\ new[x] = NoEntry)

LEMMA RoomMade ==
  ASSUME NEW D, NEW cache \in [D -> Cache], NEW size, NEW need, NEW o \in MakeRoom(cache, size, need)
  PROVE  /\ o = [cache |-> o.cache, victims |-> o.victims] /\ o.cache \in [D -> Cache] /\ Evicts(o.cache, cache, o.victims)
         /\ size - Occupied(o.cache) >= need
<1>1. PICK idle \in Removed(cache, size, need, {"idle"}) :
        o \in LET c == Freed(cache, idle) IN
              {[cache |-> Freed(c, victims), victims |-> victims] :
                 victims \in {V \in Removed(c, size, need, {"decode"}) : size - Occupied(Freed(c, V)) >= need}}
  BY DEF MakeRoom
<1> DEFINE c == Freed(cache, idle)
<1>2. PICK V \in Removed(c, size, need, {"decode"}) :
        o = [cache |-> Freed(c, V), victims |-> V] /\ size - Occupied(Freed(c, V)) >= need
  BY <1>1
<1>3. idle \subseteq In(cache, {"idle"}) /\ V \subseteq In(c, {"decode"})
  BY RemovedIs
<1>4. o.cache = Freed(c, V) /\ o.victims = V
  BY <1>2
<1>5. \A x \in D : c[x] = IF x \in idle THEN NoEntry ELSE cache[x]
  BY DEF Freed
<1>6. DOMAIN cache = D /\ DOMAIN c = D
  BY DEF Freed
<1>7. c \in [D -> Cache]
  BY NoEntryIs DEF NoEntries, Freed
<1> HIDE DEF c
<1>8. \A x \in D : Freed(c, V)[x] = IF x \in V THEN NoEntry ELSE c[x]
  BY <1>6 DEF Freed
<1>9. Freed(c, V) \in [D -> Cache]
  BY <1>6, <1>7, NoEntryIs DEF NoEntries, Freed
<1>10. \A x \in V : x \in D /\ c[x].at = "decode"
  BY <1>3, <1>6 DEF In
<1>11. \A x \in idle : x \in D /\ cache[x].at = "idle"
  BY <1>3, <1>6 DEF In
<1>12. \A x \in V : x \in D /\ cache[x].at = "decode"
  <2> SUFFICES ASSUME NEW x \in V PROVE x \in D /\ cache[x].at = "decode"
    OBVIOUS
  <2>1. x \in D /\ c[x].at = "decode"
    BY <1>10
  <2>2. x \notin idle
    BY <1>5, <2>1, NoEntryIs DEF NoEntries
  <2> QED
    BY <1>5, <2>1, <2>2
<1>13. Evicts(Freed(c, V), cache, V)
  BY <1>5, <1>6, <1>8, <1>11, <1>12 DEF Evicts, In
<1> QED
  BY <1>2, <1>4, <1>9, <1>13

\* begin_prefill.
PrefillBegun(o, D, cache, size, s, context) ==
  \E k \in [D -> Cache], reused \in Nat, miss \in Nat :
    /\ miss + reused = context
    /\ k[s] = Entry("active", reused) /\ size - Occupied(k) >= miss
    /\ o.cache = [k EXCEPT ![s] = Entry("active", context)]
    /\ s \notin o.victims /\ Evicts(k, [cache EXCEPT ![s] = Entry("active", reused)], o.victims)

LEMMA PrefillBegins ==
  ASSUME NEW D, NEW cache \in [D -> Cache], NEW size \in Nat, NEW s \in D, NEW context \in Nat,
         NEW o \in BeginPrefill(cache, size, s, context)
  PROVE  PrefillBegun(o, D, cache, size, s, context)
<1>1. PICK miss \in Misses(cache, s, context) :
        o \in LET reused == IF miss = context THEN 0 ELSE cache[s].tok
                  room == MakeRoom([cache EXCEPT ![s] = Entry("active", reused)], size, miss)
              IN  {[x EXCEPT !.cache[s] = Entry("active", reused + miss)] : x \in room}
  BY DEF BeginPrefill
<1> DEFINE reused == IF miss = context THEN 0 ELSE cache[s].tok
           mine == [cache EXCEPT ![s] = Entry("active", reused)]
<1>2. PICK x \in MakeRoom(mine, size, miss) : o = [x EXCEPT !.cache[s] = Entry("active", reused + miss)]
  BY <1>1
<1>3. cache[s].tok \in Nat
  BY DEF Cache
<1>4. miss \in Nat /\ reused \in Nat /\ reused + miss = context
  BY <1>3 DEF Misses
<1> HIDE DEF reused
<1>5. Entry("active", reused) \in Cache /\ Entry("active", reused).at = "active"
  BY <1>4 DEF Entry, Cache
<1>6. mine \in [D -> Cache] /\ mine[s] = Entry("active", reused) /\ DOMAIN mine = D
  BY <1>5
<1> HIDE DEF mine
<1>7. /\ x = [cache |-> x.cache, victims |-> x.victims] /\ x.cache \in [D -> Cache] /\ Evicts(x.cache, mine, x.victims)
      /\ size - Occupied(x.cache) >= miss
  BY <1>6, RoomMade
<1>8. s \notin x.victims /\ x.cache[s] = Entry("active", reused)
  BY <1>5, <1>6, <1>7 DEF Evicts, In
<1>9. o.cache = [x.cache EXCEPT ![s] = Entry("active", context)] /\ o.victims = x.victims
  BY <1>2, <1>4, <1>7
<1>10. /\ miss + reused = context
       /\ x.cache[s] = Entry("active", reused) /\ size - Occupied(x.cache) >= miss
       /\ o.cache = [x.cache EXCEPT ![s] = Entry("active", context)]
       /\ s \notin o.victims /\ Evicts(x.cache, [cache EXCEPT ![s] = Entry("active", reused)], o.victims)
  BY <1>4, <1>7, <1>8, <1>9 DEF mine
<1> QED
  BY <1>4, <1>7, <1>10 DEF PrefillBegun

\* begin_decode.
LEMMA DecodeBegins ==
  ASSUME NEW D, NEW cache \in [D -> Cache], NEW size, NEW s \in D, NEW out,
         NEW o \in BeginDecode(cache, size, s, out)
  PROVE  \E k \in [D -> Cache] :
           /\ o.cache = [k EXCEPT ![s] = Entry("decode", cache[s].tok + out)] /\ size - Occupied(k) >= out
           /\ Evicts(k, cache, o.victims)
<1>1. PICK x \in MakeRoom(cache, size, out) : o = [x EXCEPT !.cache[s] = Entry("decode", cache[s].tok + out)]
  BY DEF BeginDecode
<1>2. /\ x = [cache |-> x.cache, victims |-> x.victims] /\ x.cache \in [D -> Cache] /\ Evicts(x.cache, cache, x.victims)
      /\ size - Occupied(x.cache) >= out
  BY RoomMade
<1>3. o.cache = [x.cache EXCEPT ![s] = Entry("decode", cache[s].tok + out)] /\ o.victims = x.victims
  BY <1>1, <1>2
<1> QED
  BY <1>2, <1>3

\* A request of s begins in the cache: others may be evicted.
LEMMA RunKept ==
  ASSUME Good, NEW s \in Sessions, NEW q \in PendRec, NEW k \in [Sessions -> Cache], NEW e \in Cache, NEW V, NEW d,
         Evicts(k, [kv EXCEPT ![s] = d], V), s \notin V, NEW g \in ProgRec,
         pend' = Evicted([pend EXCEPT ![s] = q], V), kv' = [k EXCEPT ![s] = e], prog' = [prog EXCEPT ![s] = g], held' = held
  PROVE  /\ pend' \in [Sessions -> PendRec] /\ pend'[s] = q /\ kv' \in [Sessions -> Cache] /\ kv'[s] = e
         /\ prog' \in [Sessions -> ProgRec] /\ prog'[s] = g
         /\ \A x \in Sessions : x # s => Kept(x)
<1>1. /\ prog \in [Sessions -> ProgRec] /\ pend \in [Sessions -> PendRec] /\ kv \in [Sessions -> Cache]
  BY Data
<1> DEFINE mine == [pend EXCEPT ![s] = q]
           entries == [kv EXCEPT ![s] = d]
<1>2. /\ DOMAIN mine = Sessions /\ mine[s] = q /\ mine \in [Sessions -> PendRec]
      /\ \A x \in Sessions : x # s => mine[x] = pend[x]
  BY <1>1
<1>3. /\ DOMAIN entries = Sessions /\ \A x \in Sessions : x # s => entries[x] = kv[x]
  BY <1>1
<1> HIDE DEF mine, entries
<1>4. pend' = [v \in Sessions |-> IF v \in V THEN [mine[v] EXCEPT !.mode = "ready", !.due = TRUE] ELSE mine[v]]
  BY <1>2 DEF Evicted, mine
<1>5. \A p \in PendRec : [p EXCEPT !.mode = "ready", !.due = TRUE] \in PendRec
  BY DEF PendRec, Modes
<1>6. pend' \in [Sessions -> PendRec] /\ pend'[s] = q
  <2> DEFINE new(v) == IF v \in V THEN [mine[v] EXCEPT !.mode = "ready", !.due = TRUE] ELSE mine[v]
  <2>1. \A v \in Sessions : new(v) \in PendRec
    BY <1>2, <1>5
  <2>2. new(s) = q
    BY <1>2
  <2>3. pend' = [v \in Sessions |-> new(v)]
    BY <1>4
  <2> HIDE DEF new
  <2> QED
    BY <2>1, <2>2, <2>3
<1>7. kv' \in [Sessions -> Cache] /\ kv'[s] = e /\ \A x \in Sessions : x # s => kv'[x] = k[x]
  OBVIOUS
<1>8. prog' \in [Sessions -> ProgRec] /\ prog'[s] = g /\ \A x \in Sessions : x # s => prog'[x] = prog[x]
  BY <1>1
<1>9. ASSUME NEW x \in Sessions, x # s
      PROVE  Kept(x)
  <2>1. prog'[x] = prog[x] /\ held'[x] = held[x] /\ mine[x] = pend[x] /\ entries[x] = kv[x] /\ kv'[x] = k[x]
    BY <1>2, <1>3, <1>7, <1>8, <1>9
  <2>2. Evicts(k, entries, V)
    BY DEF entries
  <2>3. CASE x \in V
    <3>1. entries[x].at = "decode" /\ k[x] = NoEntry
      BY <1>3, <2>2, <2>3 DEF Evicts, In
    <3>2. pend'[x] = [pend[x] EXCEPT !.mode = "ready", !.due = TRUE]
      BY <1>4, <2>1, <2>3
    <3> QED
      BY <2>1, <3>1, <3>2, NoEntryIs DEF Kept, NoEntries
  <2>4. CASE x \notin V
    <3>1. k[x] = entries[x] \/ (entries[x].at = "idle" /\ k[x] = NoEntry)
      BY <1>3, <2>2, <2>4 DEF Evicts
    <3>2. pend'[x] = pend[x]
      BY <1>4, <2>1, <2>4
    <3> QED
      BY <2>1, <3>1, <3>2, NoEntryIs DEF Kept, NoEntries
  <2> QED
    BY <2>3, <2>4
<1> QED
  BY <1>6, <1>7, <1>8, <1>9

LEMMA RunKeeps ==
  ASSUME Good, NEW s \in Sessions, NEW q \in PendRec, NEW e \in Cache, NEW g \in ProgRec,
         pend' \in [Sessions -> PendRec], pend'[s] = q, kv' \in [Sessions -> Cache], kv'[s] = e,
         prog' \in [Sessions -> ProgRec], prog'[s] = g, \A x \in Sessions : x # s => Kept(x),
         held' = held, lease' = lease, aimd' = aimd, world' = world, NEW b, Below(b, s), stack' = b,
         prog[s].life = "active", g.life = "active", g.joins = prog[s].joins, g.fanned = prog[s].fanned,
         OpsIn(stack, s) \cap {"start", "gone", "bury"} = {},
         Pays(s, q, g, held[s], e.at, <<>>, {}, FALSE, {}, ClearsIn(b, s))
  PROVE  Good'
<1>2. held' \in [Sessions -> [Units -> Int]] /\ lease' \in [Sessions -> Bags] /\ aimd' \in [cap : Nat, streak : Nat]
  BY Data
<1> DEFINE none == {}
           no == FALSE
           a == <<>>
<1>3. Settled(s, a, none, no, none, ClearsIn(b, s))
  BY DEF Settled
<1>4. SameFamily(s, none)
  BY DEF SameFamily, Unjoined
<1>5. Volley(a, s, none, no, none) /\ no \in BOOLEAN
  BY VolleyNone
<1>6. stack' = a \o b
  <2>1. b \in Seq(Frame)
    BY DEF Below
  <2> QED
    BY <2>1
<1> HIDE DEF none, no, a
<1> QED
  BY <1>2, <1>3, <1>4, <1>5, <1>6, StepKeeps

\* DECODE_START.
LEMMA DecodeStartKeeps ==
  ASSUME Good, NEW s \in Sessions, UNCHANGED <<world, aimd>>, DecodeStart(s)
  PROVE  Good'
<1> DEFINE b == <<>>
           p == pend[s]
           g == prog[s]
           out == p.step.out
           q == [p EXCEPT !.mode = "decode"]
<1>1. Below(b, s) /\ At(s, {}, {}) /\ ClearsIn(b, s) = {}
  BY AtEvent DEF DecodeStart, Handle, AtRest
<1>2. p \in PendRec /\ g \in ProgRec /\ kv[s] \in Cache /\ p.mode = "prefill" /\ OpsIn(stack, s) = {}
  BY <1>1 DEF At, DecodeStart
<1>3. out \in Nat
  BY <1>2, PendIs, StepIs DEF out, p
<1>4. q \in PendRec /\ q.mode = "decode" /\ q.step = p.step /\ q.part = p.part /\ q.own = p.own /\ q.par = p.par /\ q.due = p.due
      /\ q.flag = p.flag
  BY <1>2 DEF PendRec, Modes
<1>5. PICK o \in BeginDecode(kv, world.size, s, out) :
        kv' = o.cache /\ pend' = Evicted([pend EXCEPT ![s].mode = "decode"], o.victims)
  BY DEF DecodeStart
<1>60. kv \in [Sessions -> Cache]
  BY Data
<1>6. PICK k \in [Sessions -> Cache] :
        /\ o.cache = [k EXCEPT ![s] = Entry("decode", kv[s].tok + out)] /\ world.size - Occupied(k) >= out
        /\ Evicts(k, kv, o.victims)
  <2> DEFINE size == world.size
  <2>1. o \in BeginDecode(kv, size, s, out)
    BY <1>5
  <2> HIDE DEF out, size
  <2>2. \E k \in [Sessions -> Cache] :
           /\ o.cache = [k EXCEPT ![s] = Entry("decode", kv[s].tok + out)] /\ size - Occupied(k) >= out
           /\ Evicts(k, kv, o.victims)
    BY <1>60, <2>1, DecodeBegins, ZenonT(40)
  <2> QED
    BY <2>2 DEF size
<1> DEFINE e == Entry("decode", kv[s].tok + out)
           V == o.victims
<1>7. e \in Cache /\ e.at = "decode"
  BY <1>2, <1>3 DEF Entry, Cache
<1>8. kv[s].at = "active" /\ s \notin V
  <2>1. kv[s].at = "active"
    BY <1>1, <1>2 DEF At, FlowOf
  <2> QED
    BY <1>6, <2>1 DEF Evicts, In
<1>9. Evicts(k, [kv EXCEPT ![s] = kv[s]], V)
  <2>1. [kv EXCEPT ![s] = kv[s]] = kv
    BY Data
  <2> QED
    BY <1>6, <2>1
<1>10. /\ pend' = Evicted([pend EXCEPT ![s] = q], V) /\ kv' = [k EXCEPT ![s] = e] /\ prog' = [prog EXCEPT ![s] = g]
       /\ held' = held /\ lease' = lease /\ stack' = b
  BY <1>5, <1>6, Data DEF DecodeStart, Handle
<1> HIDE DEF b, p, g, out, q, e, V
<1>11. p.part = <<>> /\ ~p.par /\ p.own = Nothing /\ g.life = "active" /\ g.joins = 0 /\ ~p.due /\ ~p.flag
       /\ p.step.kind = "chat" /\ g.nap = "no"
  BY <1>1, <1>2, JoinsNat DEF At, FlowOf, Pausing, p, g
<1>12. Pays(s, q, g, held[s], e.at, <<>>, {}, FALSE, {}, ClearsIn(b, s))
  <2>1. FlowOf(q, g, e.at, {}, FALSE)
    BY <1>4, <1>7, <1>11 DEF FlowOf, Pausing
  <2>2. ClearOf(q, g, {}, {} \cup ClearsIn(b, s), {})
    BY <1>1 DEF ClearOf
  <2>3. PartOf(q)
    BY <1>1, <1>4, <1>11 DEF At, PartOf, p
  <2>4. \A r \in Units : BackedOf(q, g, held[s][r], DueIn(<<>>, s, r), r)
    <3> SUFFICES ASSUME NEW r \in Units PROVE BackedOf(q, g, held[s][r], DueIn(<<>>, s, r), r)
      OBVIOUS
    <3>1. BackedOf(p, g, held[s][r], 0, r)
      BY <1>1 DEF At, p, g
    <3>2. DueIn(<<>>, s, r) = 0
      BY ViewOfNone
    <3> QED
      BY <1>4, <3>1, <3>2 DEF BackedOf
  <2> QED
    BY <2>1, <2>2, <2>3, <2>4 DEF Pays
<1>13. prog[s].life = "active" /\ g.joins = prog[s].joins /\ g.fanned = prog[s].fanned
  BY <1>11 DEF g
<1>14. /\ pend' \in [Sessions -> PendRec] /\ pend'[s] = q /\ kv' \in [Sessions -> Cache] /\ kv'[s] = e
       /\ prog' \in [Sessions -> ProgRec] /\ prog'[s] = g
       /\ \A x \in Sessions : x # s => Kept(x)
  BY <1>2, <1>4, <1>6, <1>7, <1>8, <1>9, <1>10, RunKept DEF g
<1>15. /\ held' = held /\ lease' = lease /\ stack' = b /\ aimd' = aimd /\ world' = world
       /\ OpsIn(stack, s) \cap {"start", "gone", "bury"} = {} /\ g \in ProgRec /\ g.life = "active"
  BY <1>2, <1>10, <1>11 DEF g
<1> QED
  BY <1>1, <1>4, <1>7, <1>12, <1>13, <1>14, <1>15, RunKeeps

\* What a step owns while it runs.
OwnOf(p) ==
  [r \in Units |-> IF r \in {"ext", "ret"} THEN Amount(p.part, r)
                   ELSE IF r = "cpu" /\ p.par THEN Extra(p.step) ELSE 0]

LEMMA OwnIs ==
  ASSUME NEW p \in PendRec, PartOf(p), p.mode = "ready"
  PROVE  /\ OwnOf(p) \in Bags /\ OwnOf(p)["slots"] = 0 /\ OwnOf(p)["mem"] = 0
         /\ OwnOf(p)["cpu"] > 0 => p.step.loc > 0
         /\ \A r \in Units : OwnOf(p)[r] <= Amount(p.part, r)
         /\ p.step.kind = "chat" => OwnOf(p) = Nothing
         /\ p.par => p.step.kind = "tool"
<1> DEFINE n(r) == Amount(p.part, r)
           x == Extra(p.step)
<1>1. /\ p.part \in Parts /\ p.step \in Steps /\ p.par \in BOOLEAN
  BY PendIs
<1>2. \A r \in Units : n(r) \in Nat
  BY <1>1, AmountIs
<1>3. x \in Nat /\ (x > 0 => p.step.loc > 0 /\ p.step.kind = "tool")
  BY <1>1, ExtraIs, StepIs
<1>4. p.par => n("cpu") >= x /\ x > 0
  BY DEF PartOf
<1>5. p.step.kind = "chat" => n("ext") = 0 /\ n("ret") = 0
  <2>1. ASSUME p.step.kind = "chat", NEW r \in {"ext", "ret"}
        PROVE  n(r) = 0
    <3>1. \A i \in DOMAIN p.part : p.part[i][1] # r
      BY <2>1 DEF PartOf
    <3>2. r \in Units
      BY UnitsAre
    <3> QED
      BY <1>1, <3>1, <3>2, AmountNone
  <2> QED
    BY <2>1
<1>6. OwnOf(p) = [r \in Units |-> IF r \in {"ext", "ret"} THEN n(r) ELSE IF r = "cpu" /\ p.par THEN x ELSE 0]
  BY DEF OwnOf
<1> HIDE DEF n, x
<1>7. \A r \in Units : OwnOf(p)[r] = IF r \in {"ext", "ret"} THEN n(r) ELSE IF r = "cpu" /\ p.par THEN x ELSE 0
  BY <1>6
<1>8. OwnOf(p) \in Bags
  BY <1>2, <1>3, <1>6 DEF Bags
<1>9. OwnOf(p)["slots"] = 0 /\ OwnOf(p)["mem"] = 0 /\ (OwnOf(p)["cpu"] > 0 => p.par)
  BY <1>7, UnitsAre
<1>10. \A r \in Units : OwnOf(p)[r] <= n(r)
  BY <1>2, <1>3, <1>4, <1>7
<1>11. p.par => p.step.kind = "tool" /\ p.step.loc > 0
  BY <1>3, <1>4
<1>12. ASSUME p.step.kind = "chat" PROVE OwnOf(p) = Nothing
  <2>1. \A r \in Units : OwnOf(p)[r] = 0
    BY <1>5, <1>7, <1>11, <1>12
  <2>2. OwnOf(p) = [r \in Units |-> OwnOf(p)[r]]
    BY <1>6
  <2> QED
    BY <2>1, <2>2 DEF Nothing
<1> QED
  BY <1>8, <1>9, <1>10, <1>11, <1>12 DEF n

\* _commit and _start.
LEMMA StartKeeps ==
  ASSUME Good, NEW s, s = Head(stack).s, Top("try"), Start(s)
  PROVE  Good'
<1> DEFINE b == Tail(stack)
           p == pend[s]
           o == prog[s]
           own == OwnOf(p)
           mode == IF IsChat(s) THEN "prefill" ELSE p.step.kind
           q == [p EXCEPT !.part = <<>>, !.own = own, !.mode = mode]
           holds == [r \in Units |-> o.holds[r] + Amount(p.part, r)]
           g == [o EXCEPT !.holds = holds]
<1>1. Below(b, s) /\ At(s, {"try"}, ClearsIn(b, s))
  BY AtCall DEF Top, IsThread, ThreadOps
<1>2. s \in Sessions /\ p \in PendRec /\ o \in ProgRec /\ kv[s] \in Cache /\ OpsIn(stack, s) = {"try"} /\ PartOf(p)
  BY <1>1 DEF At
<1>3. /\ p.mode = "ready" /\ ~p.due /\ p.own = Nothing /\ o.nap = "no" /\ o.joins = 0 /\ kv[s].at \notin {"active", "decode"}
      /\ o.life = "active" /\ ~p.flag
  BY <1>1 DEF At, FlowOf, OpFlow, p, o
<1>4. /\ own \in Bags /\ own["slots"] = 0 /\ own["mem"] = 0 /\ (own["cpu"] > 0 => p.step.loc > 0)
      /\ (\A r \in Units : own[r] <= Amount(p.part, r)) /\ (p.step.kind = "chat" => own = Nothing)
      /\ (p.par => p.step.kind = "tool")
  BY <1>2, <1>3, OwnIs
<1>5. p.part \in Parts /\ p.step \in Steps /\ o.holds \in Bags /\ o.ctx \in Nat
  BY <1>2, PendIs, ProgIs
<1>6. p.step.kind \in {"tool", "fetch", "chat"} /\ (IsChat(s) <=> p.step.kind = "chat")
  BY <1>5, StepIs DEF IsChat
<1>7. mode \in Modes /\ mode = (IF p.step.kind = "chat" THEN "prefill" ELSE p.step.kind)
  BY <1>6 DEF Modes
<1>8. holds \in Bags /\ \A r \in Units : holds[r] = o.holds[r] + Amount(p.part, r)
  <2>1. \A r \in Units : Amount(p.part, r) \in Nat /\ o.holds[r] \in Nat
    BY <1>5, AmountIs DEF Bags
  <2> HIDE DEF p, o
  <2> QED
    BY <2>1 DEF Bags
<1>9. world.size \in Nat
  BY Data, WorldIs DEF IsWorld
<1>10. prog' = [prog EXCEPT ![s] = g] /\ held' = held /\ lease' = lease /\ aimd' = aimd /\ world' = world /\ stack' = <<>> \o b
  BY SMTT(100) DEF Start, Run
<1>11. PICK x \in IF IsChat(s) THEN BeginPrefill(kv, world.size, s, ContextOf(s)) ELSE {[cache |-> kv, victims |-> {}]} :
         kv' = x.cache /\ pend' = Evicted([pend EXCEPT ![s] = q], x.victims)
  BY DEF Start, OwnOf
<1> DEFINE at == IF p.step.kind = "chat" THEN "active" ELSE kv[s].at
<1> HIDE DEF own, mode, holds
<1>12. <<>> \in Parts
  BY DEF Parts
<1>13. /\ q \in PendRec /\ q.mode = mode /\ q.step = p.step /\ q.part = <<>> /\ q.own = own /\ q.par = p.par /\ q.due = p.due
       /\ q.flag = p.flag
  BY <1>2, <1>4, <1>7, <1>12 DEF PendRec
<1>14. /\ g \in ProgRec /\ g.life = o.life /\ g.joins = o.joins /\ g.fanned = o.fanned /\ g.holds = holds /\ g.nap = o.nap
  BY <1>2, <1>8 DEF ProgRec
<1> HIDE DEF p, q, g, o
<1>15. \E e \in Cache :
         /\ e.at = at
         /\ pend' \in [Sessions -> PendRec] /\ pend'[s] = q /\ kv' \in [Sessions -> Cache] /\ kv'[s] = e
         /\ prog' \in [Sessions -> ProgRec] /\ prog'[s] = g
         /\ \A y \in Sessions : y # s => Kept(y)
  <2>0. kv \in [Sessions -> Cache]
    BY Data
  <2>1. CASE IsChat(s)
    <3>1. x \in BeginPrefill(kv, world.size, s, o.ctx)
      BY <1>11, <2>1 DEF ContextOf, o
    <3>2. PICK k \in [Sessions -> Cache], reused \in Nat, miss \in Nat :
           /\ miss + reused = o.ctx
           /\ k[s] = Entry("active", reused) /\ world.size - Occupied(k) >= miss
           /\ x.cache = [k EXCEPT ![s] = Entry("active", o.ctx)]
           /\ s \notin x.victims /\ Evicts(k, [kv EXCEPT ![s] = Entry("active", reused)], x.victims)
      <4>1. world.size \in Nat /\ o.ctx \in Nat /\ s \in Sessions
        BY <1>2, <1>5, <1>9
      <4>2. PrefillBegun(x, Sessions, kv, world.size, s, o.ctx)
        BY <2>0, <3>1, <4>1, PrefillBegins
      <4> QED
        BY <4>2 DEF PrefillBegun
    <3> DEFINE e == Entry("active", o.ctx)
               d == Entry("active", reused)
               V == x.victims
    <3>3. e \in Cache /\ e.at = "active"
      BY <1>5 DEF Entry, Cache
    <3>4. kv' = [k EXCEPT ![s] = e] /\ pend' = Evicted([pend EXCEPT ![s] = q], V) /\ s \notin V /\ Evicts(k, [kv EXCEPT ![s] = d], V)
      BY <1>11, <3>2
    <3> HIDE DEF e, d, V
    <3>5. /\ pend' \in [Sessions -> PendRec] /\ pend'[s] = q /\ kv' \in [Sessions -> Cache] /\ kv'[s] = e
          /\ prog' \in [Sessions -> ProgRec] /\ prog'[s] = g
          /\ \A y \in Sessions : y # s => Kept(y)
      BY <1>2, <1>10, <1>13, <1>14, <3>3, <3>4, RunKept
    <3> QED
      BY <1>6, <2>1, <3>3, <3>5
  <2>2. CASE ~IsChat(s)
    <3> DEFINE e == kv[s]
               V == {}
    <3>1. x = [cache |-> kv, victims |-> {}]
      BY <1>11, <2>2
    <3>2. [kv EXCEPT ![s] = e] = kv
      BY <2>0
    <3>3. kv' = [kv EXCEPT ![s] = e] /\ pend' = Evicted([pend EXCEPT ![s] = q], V)
      BY <1>11, <3>1, <3>2
    <3>4. Evicts(kv, [kv EXCEPT ![s] = e], V) /\ s \notin V
      BY <2>0, <3>2 DEF Evicts, In
    <3> HIDE DEF e, V
    <3>5. e \in Cache
      BY <1>2 DEF e
    <3>6. /\ pend' \in [Sessions -> PendRec] /\ pend'[s] = q /\ kv' \in [Sessions -> Cache] /\ kv'[s] = e
          /\ prog' \in [Sessions -> ProgRec] /\ prog'[s] = g
          /\ \A y \in Sessions : y # s => Kept(y)
      BY <1>2, <1>10, <1>13, <1>14, <2>0, <3>3, <3>4, <3>5, RunKept
    <3> QED
      BY <1>6, <2>2, <3>5, <3>6 DEF e
  <2> QED
    BY <2>1, <2>2
<1>16. Pays(s, q, g, held[s], at, <<>>, {}, FALSE, {}, ClearsIn(b, s))
  <2>1. FlowOf(q, g, at, {}, FALSE)
    <3>1. /\ q.mode \in {"prefill", "tool", "fetch"} /\ (q.mode = "prefill" <=> q.step.kind = "chat")
          /\ (q.mode \in {"tool", "fetch"} => q.step.kind = q.mode)
      BY <1>6, <1>7, <1>13
    <3>2. /\ ~q.due /\ ~q.flag /\ q.part = <<>> /\ (q.par => q.mode = "tool") /\ (q.own # Nothing => q.mode \in {"tool", "fetch"})
      BY <1>3, <1>4, <1>6, <1>7, <1>13
    <3>3. g.life = "active" /\ g.nap = "no" /\ g.joins = 0
      BY <1>3, <1>14
    <3>4. at # "decode" /\ (at = "active" <=> q.mode = "prefill")
      BY <1>3, <1>13, <3>1
    <3> HIDE DEF at
    <3> QED
      BY <3>1, <3>2, <3>3, <3>4 DEF FlowOf, Pausing
  <2>2. ClearOf(q, g, {}, {} \cup ClearsIn(b, s), {})
    BY <1>1, <1>3, <1>13, <1>14 DEF At, ClearOf, Vacant, EarlyOps, p
  <2>3. PartOf(q)
    <3>1. DOMAIN <<>> = {}
      OBVIOUS
    <3>2. q.par => q.mode = "tool"
      BY <1>4, <1>7, <1>13
    <3> QED
      BY <1>4, <1>13, <3>1, <3>2 DEF PartOf
  <2>4. \A r \in Units : BackedOf(q, g, held[s][r], DueIn(<<>>, s, r), r)
    <3> SUFFICES ASSUME NEW r \in Units PROVE BackedOf(q, g, held[s][r], DueIn(<<>>, s, r), r)
      OBVIOUS
    <3>1. /\ Amount(p.part, r) \in Nat /\ o.holds[r] \in Nat /\ held[s][r] \in Nat
          /\ held[s][r] >= o.holds[r] + Amount(p.part, r)
      BY <1>1, Sizes DEF p, o
    <3>2. /\ DueIn(<<>>, s, r) = 0 /\ Amount(q.part, r) = 0 /\ g.holds[r] = o.holds[r] + Amount(p.part, r)
          /\ q.own[r] = own[r] /\ own[r] <= Amount(p.part, r) /\ own[r] \in Nat
      BY <1>4, <1>8, <1>13, <1>14, AmountEmpty, ViewOfNone DEF Bags
    <3> QED
      BY <3>1, <3>2 DEF BackedOf
  <2> QED
    BY <2>1, <2>2, <2>3, <2>4 DEF Pays
<1>17. /\ prog[s].life = "active" /\ g.life = "active" /\ g.joins = prog[s].joins /\ g.fanned = prog[s].fanned
       /\ OpsIn(stack, s) \cap {"start", "gone", "bury"} = {}
  BY <1>2, <1>3, <1>14 DEF o
<1>18. stack' = b
  <2>1. b \in Seq(Frame)
    BY <1>1 DEF Below
  <2> QED
    BY <1>10, <2>1
<1>19. PICK e \in Cache :
         /\ e.at = at
         /\ pend' \in [Sessions -> PendRec] /\ pend'[s] = q /\ kv' \in [Sessions -> Cache] /\ kv'[s] = e
         /\ prog' \in [Sessions -> ProgRec] /\ prog'[s] = g
         /\ \A y \in Sessions : y # s => Kept(y)
  BY <1>15
<1>20. Pays(s, q, g, held[s], e.at, <<>>, {}, FALSE, {}, ClearsIn(b, s))
  BY <1>16, <1>19
<1>21. held' = held /\ lease' = lease /\ aimd' = aimd /\ world' = world
  BY <1>10
<1> HIDE DEF b, at
<1> QED
  BY <1>1, <1>2, <1>13, <1>14, <1>17, <1>18, <1>19, <1>20, <1>21, RunKeeps

\* Frames without calls, on others.
LEMMA OverQuiet ==
  ASSUME NEW e \in Seq(Frame), NEW b \in Seq(Frame), NEW o, OpsIn(e, o) = {}, LateIn(e, o) = {}
  PROVE  /\ OpsIn(e \o b, o) = OpsIn(b, o) /\ LateIn(e \o b, o) = LateIn(b, o)
         /\ (GivesIn(e \o b, o) <=> GivesIn(e, o) \/ GivesIn(b, o))
         /\ ClearsIn(e \o b, o) = ClearsIn(e, o) \cup ClearsIn(b, o)
         /\ \A u : DueIn(b, o, u) \in Nat /\ DueIn(e \o b, o, u) = DueIn(e, o, u) + DueIn(b, o, u)
<1>1. /\ OpsIn(e \o b, o) = OpsIn(e, o) \cup OpsIn(b, o)
      /\ (GivesIn(e \o b, o) <=> GivesIn(e, o) \/ GivesIn(b, o))
      /\ ClearsIn(e \o b, o) = ClearsIn(e, o) \cup ClearsIn(b, o)
      /\ LateIn(e \o b, o) = LateIn(e, o) \cup LateIn(b, o) \cup (IF OpsIn(e, o) # {} THEN ClearsIn(b, o) ELSE {})
  BY ViewOfConcat
<1>2. ASSUME NEW u
      PROVE  DueIn(b, o, u) \in Nat /\ DueIn(e \o b, o, u) = DueIn(e, o, u) + DueIn(b, o, u)
  <2>1. DueIn(b, o, u) \in Nat
    BY DueOfConcat
  <2>2. DueIn(e \o b, o, u) = DueIn(e, o, u) + DueIn(b, o, u)
    BY DueOfConcat
  <2> QED
    BY <2>1, <2>2
<1> QED
  BY <1>1, <1>2

\* What a release of s finds on the stack: b is below it.
GiveView(s, b, r, amt) ==
  /\ s \in Sessions /\ b \in Seq(Frame) /\ Orderly(b) /\ amt \in Nat
  /\ \A o : o # s => SameView(b, stack, o)
  /\ OpsIn(b, s) = OpsIn(stack, s) /\ (GivesIn(b, s) => GivesIn(stack, s)) /\ ClearsIn(b, s) \subseteq ClearsIn(stack, s)
  /\ LateIn(b, s) \subseteq LateIn(stack, s)
  /\ \A u : DueIn(b, s, u) \in Nat /\ DueIn(stack, s, u) = (IF u = r THEN amt ELSE 0) + DueIn(b, s, u)
  /\ amt # All => GivesIn(stack, s)
  /\ amt = All => ~GivesIn(b, s) /\ r \in ClearsIn(stack, s)

LEMMA GiveTop ==
  ASSUME Good, Top("give")
  PROVE  GiveView(Head(stack).s, Tail(stack), Head(stack).r, Head(stack).amt)
<1> SUFFICES ASSUME NEW s, s = Head(stack).s, NEW b, b = Tail(stack), NEW r, r = Head(stack).r, NEW amt, amt = Head(stack).amt
             PROVE  GiveView(s, b, r, amt)
  OBVIOUS
<1> DEFINE f == Head(stack)
<1>1. stack \in Seq(Frame) /\ Orderly(stack) /\ stack # <<>> /\ f.op = "give"
  BY Data DEF Top, Good, Flows
<1>2. /\ f \in Frame /\ b \in Seq(Frame) /\ Orderly(b) /\ <<f>> \in Seq(Frame) /\ stack = <<f>> \o b
      /\ \A j \in DOMAIN b : ~Clash(f, b[j])
  BY <1>1, HeadIs
<1>3. f.s = s /\ f.r = r /\ f.amt = amt /\ ~IsThread(f) /\ s \in Sessions /\ amt \in Nat
      /\ (IsGive(f) <=> amt # All) /\ (IsClear(f) <=> amt = All)
  BY <1>1, <1>2, FrameIs DEF IsThread, ThreadOps, IsGive, IsClear
<1> HIDE DEF f
<1>4. \A o, u : /\ OpsIn(<<f>>, o) = {} /\ LateIn(<<f>>, o) = {} /\ (GivesIn(<<f>>, o) <=> f.s = o /\ IsGive(f))
                /\ ClearsIn(<<f>>, o) = (IF f.s = o /\ IsClear(f) THEN {f.r} ELSE {})
                /\ DueIn(<<f>>, o, u) = DueAt(f, o, u)
  BY <1>2, <1>3, ViewOfOne
<1> DEFINE e == <<f>>
<1>40. e \in Seq(Frame) /\ stack = e \o b /\ \A o : OpsIn(e, o) = {} /\ LateIn(e, o) = {}
  BY <1>2, <1>4
<1> HIDE DEF e
<1>5. \A o : /\ OpsIn(stack, o) = OpsIn(b, o) /\ LateIn(stack, o) = LateIn(b, o)
             /\ (GivesIn(stack, o) <=> GivesIn(e, o) \/ GivesIn(b, o))
             /\ ClearsIn(stack, o) = ClearsIn(e, o) \cup ClearsIn(b, o)
             /\ \A u : DueIn(b, o, u) \in Nat /\ DueIn(stack, o, u) = DueIn(e, o, u) + DueIn(b, o, u)
  <2>1. e \in Seq(Frame) /\ b \in Seq(Frame)
    BY <1>2, <1>40
  <2>2. \A o : /\ OpsIn(e \o b, o) = OpsIn(b, o) /\ LateIn(e \o b, o) = LateIn(b, o)
             /\ (GivesIn(e \o b, o) <=> GivesIn(e, o) \/ GivesIn(b, o))
             /\ ClearsIn(e \o b, o) = ClearsIn(e, o) \cup ClearsIn(b, o)
             /\ \A u : DueIn(b, o, u) \in Nat /\ DueIn(e \o b, o, u) = DueIn(e, o, u) + DueIn(b, o, u)
    <3>1. \A o : OpsIn(e, o) = {} /\ LateIn(e, o) = {}
      BY <1>40
    <3> QED
      BY <2>1, <3>1, OverQuiet
  <2>3. stack = e \o b
    BY <1>40
  <2> QED
    BY <2>2, <2>3
<1>6. ASSUME NEW o, o # s
      PROVE  SameView(b, stack, o)
  <2>1. ~GivesIn(e, o) /\ ClearsIn(e, o) = {} /\ \A u : DueIn(e, o, u) = 0
    BY <1>3, <1>4, <1>6 DEF DueAt, e
  <2>2. \A u : DueIn(stack, o, u) = DueIn(b, o, u)
    BY <1>5, <2>1
  <2> QED
    BY <1>5, <2>1, <2>2 DEF SameView
<1>7. \A u : DueIn(e, s, u) = IF u = r THEN amt ELSE 0
  <2>1. f.op = "give"
    BY <1>1 DEF f
  <2> QED
    BY <1>3, <1>4, <2>1 DEF DueAt, e
<1>8. \A u : DueIn(b, s, u) \in Nat /\ DueIn(stack, s, u) = (IF u = r THEN amt ELSE 0) + DueIn(b, s, u)
  BY <1>5, <1>7
<1>9. amt # All => GivesIn(stack, s)
  BY <1>3, <1>4, <1>5 DEF e
<1>10. ASSUME amt = All PROVE ~GivesIn(b, s) /\ r \in ClearsIn(stack, s)
  <2>1. ClearsIn(e, s) = {r}
    BY <1>3, <1>4, <1>10 DEF e
  <2>2. ~GivesIn(b, s)
    BY <1>2, <1>3, <1>10 DEF GivesIn, Clash
  <2> QED
    BY <1>5, <2>1, <2>2
<1>11. /\ OpsIn(b, s) = OpsIn(stack, s) /\ (GivesIn(b, s) => GivesIn(stack, s)) /\ ClearsIn(b, s) \subseteq ClearsIn(stack, s)
       /\ LateIn(b, s) \subseteq LateIn(stack, s)
  BY <1>5
<1> QED
  BY <1>2, <1>3, <1>6, <1>8, <1>9, <1>10, <1>11 DEF GiveView

\* What a release of amt units of r finds of the session's account of u, and
\* what it makes of it.
Account(p, g, z, h, k, r, u, amt, due, rest, gives, at, ops, clears, late) ==
  /\ p \in PendRec /\ g \in ProgRec /\ z \in ProgRec /\ u \in Units /\ amt \in Nat /\ due \in Nat /\ rest \in Nat
  /\ gives \in BOOLEAN /\ h \in Int
  /\ FlowOf(p, g, at, ops, gives) /\ ClearOf(p, g, ops, clears, late) /\ PartOf(p) /\ BackedOf(p, g, h, due, u)
  /\ due = (IF u = r THEN amt ELSE 0) + rest
  /\ (amt # 0 => gives) /\ (amt = 0 => r \in clears /\ rest = 0)
  /\ k = IF u = r THEN h - (IF amt = 0 THEN h ELSE amt) ELSE h
  /\ z.holds[u] = IF u = r THEN (IF amt = 0 \/ g.holds[r] <= amt THEN 0 ELSE g.holds[r] - amt) ELSE g.holds[u]

LEMMA ReleasePays ==
  ASSUME NEW p, NEW g, NEW z, NEW h, NEW k, NEW r, NEW u, NEW amt, NEW due, NEW rest, NEW gives, NEW at, NEW ops, NEW clears, NEW late,
         Account(p, g, z, h, k, r, u, amt, due, rest, gives, at, ops, clears, late)
  PROVE  BackedOf(p, z, k, rest, u)
<1>0. /\ p \in PendRec /\ g \in ProgRec /\ z \in ProgRec /\ u \in Units /\ amt \in Nat /\ due \in Nat /\ rest \in Nat
      /\ gives \in BOOLEAN /\ h \in Int
      /\ FlowOf(p, g, at, ops, gives) /\ ClearOf(p, g, ops, clears, late) /\ PartOf(p) /\ BackedOf(p, g, h, due, u)
      /\ due = (IF u = r THEN amt ELSE 0) + rest
      /\ (amt # 0 => gives) /\ (amt = 0 => r \in clears /\ rest = 0)
      /\ k = IF u = r THEN h - (IF amt = 0 THEN h ELSE amt) ELSE h
      /\ z.holds[u] = IF u = r THEN (IF amt = 0 \/ g.holds[r] <= amt THEN 0 ELSE g.holds[r] - amt) ELSE g.holds[u]
  BY DEF Account
<1>01. u \in Units /\ amt \in Nat /\ due \in Nat /\ rest \in Nat /\ h \in Int
  BY <1>0
<1>1. /\ Amount(p.part, u) \in Nat /\ g.holds[u] \in Nat /\ p.own[u] \in Nat
  BY <1>0, PendIs, ProgIs, AmountIs DEF Bags
<1>2. /\ h >= Amount(p.part, u) + due /\ h >= g.holds[u] + Amount(p.part, u) /\ p.own[u] <= g.holds[u]
  BY <1>0 DEF BackedOf
<1>3. CASE u # r
  <2>1. k = h /\ rest = due /\ z.holds[u] = g.holds[u]
    BY <1>0, <1>3
  <2> QED
    BY <1>2, <2>1 DEF BackedOf
<1>4. CASE u = r /\ amt # 0
  <2>1. p.part = <<>> /\ p.own = Nothing
    BY <1>0, <1>4 DEF FlowOf
  <2>2. Amount(p.part, u) = 0 /\ p.own[u] = 0
    BY <1>01, <2>1, AmountEmpty, BagOf
  <2>3. due = amt + rest /\ k = h - amt /\ z.holds[u] = IF g.holds[u] <= amt THEN 0 ELSE g.holds[u] - amt
    BY <1>0, <1>4
  <2>4. k >= Amount(p.part, u) + rest /\ k >= z.holds[u] + Amount(p.part, u) /\ p.own[u] <= z.holds[u]
    BY <1>01, <1>1, <1>2, <2>2, <2>3
  <2> QED
    BY <2>4 DEF BackedOf
<1>5. CASE u = r /\ amt = 0
  <2>1. k = 0 /\ rest = 0 /\ z.holds[u] = 0
    BY <1>0, <1>5
  <2>2. Vacant(p, ops, r) \/ Idling(p, r)
    BY <1>0, <1>5 DEF ClearOf
  <2>3. Amount(p.part, u) = 0 /\ p.own[u] = 0
    <3>1. CASE Idling(p, r)
      BY <1>01, <1>5, <3>1, AmountEmpty DEF Idling
    <3>2. CASE Vacant(p, ops, r)
      <4>1. r \in {"mem", "cpu"} /\ p.step.loc = 0
        BY <3>2 DEF Vacant
      <4>2. \A i \in DOMAIN p.part : p.part[i][1] # u
        BY <1>0, <1>5, <4>1 DEF PartOf
      <4>3. p.part \in Parts
        BY <1>0, PendIs
      <4>4. Amount(p.part, u) = 0
        BY <1>0, <4>2, <4>3, AmountNone
      <4>5. p.own["mem"] = 0 /\ (p.own["cpu"] > 0 => p.step.loc > 0)
        BY <1>0 DEF PartOf
      <4> QED
        BY <1>1, <1>5, <4>1, <4>4, <4>5
    <3> QED
      BY <2>2, <3>1, <3>2
  <2> QED
    BY <2>1, <2>3 DEF BackedOf
<1> QED
  BY <1>3, <1>4, <1>5

LEMMA HoldsLess ==
  ASSUME NEW g \in ProgRec, NEW r, NEW x, r \in Units => x \in Nat
  PROVE  /\ [g EXCEPT !.holds[r] = x] \in ProgRec
         /\ [g EXCEPT !.holds[r] = x].life = g.life /\ [g EXCEPT !.holds[r] = x].joins = g.joins
         /\ [g EXCEPT !.holds[r] = x].fanned = g.fanned /\ [g EXCEPT !.holds[r] = x].nap = g.nap
         /\ \A u \in Units : [g EXCEPT !.holds[r] = x].holds[u] = IF u = r THEN x ELSE g.holds[u]
<1> DEFINE h == [g.holds EXCEPT ![r] = x]
<1>1. g.holds \in Bags
  BY ProgIs
<1>2. h \in Bags /\ \A u \in Units : h[u] = IF u = r THEN x ELSE g.holds[u]
  <2>1. \A u \in Units : h[u] = IF u = r THEN x ELSE g.holds[u]
    BY <1>1 DEF Bags
  <2>2. DOMAIN h = Units /\ h = [u \in Units |-> h[u]]
    BY <1>1 DEF Bags
  <2>3. \A u \in Units : g.holds[u] \in Nat
    BY <1>1 DEF Bags
  <2> HIDE DEF h
  <2>4. \A u \in Units : h[u] \in Nat
    BY <2>1, <2>3
  <2> QED
    BY <2>1, <2>2, <2>4 DEF Bags
<1>3. [g EXCEPT !.holds[r] = x] = [g EXCEPT !.holds = h]
  BY <1>1 DEF ProgRec
<1> HIDE DEF h
<1>4. /\ [g EXCEPT !.holds = h] \in ProgRec
      /\ [g EXCEPT !.holds = h].life = g.life /\ [g EXCEPT !.holds = h].joins = g.joins
      /\ [g EXCEPT !.holds = h].fanned = g.fanned /\ [g EXCEPT !.holds = h].nap = g.nap /\ [g EXCEPT !.holds = h].holds = h
  BY <1>2 DEF ProgRec
<1> QED
  BY <1>2, <1>3, <1>4

\* A release that pays what the session owes keeps the invariant.
LEMMA ReleaseAt ==
  ASSUME Good, Top("give"), NEW s, s = Head(stack).s, NEW a, Neutral(a), stack' = a \o Tail(stack), world' = world,
         prog' \in [Sessions -> ProgRec], \A x \in Sessions : x # s => prog'[x] = prog[x],
         held' \in [Sessions -> [Units -> Int]], \A x \in Sessions : x # s => held'[x] = held[x],
         pend' = pend, kv' = kv, lease' = lease, aimd' = aimd,
         prog'[s].life = prog[s].life, prog'[s].joins = prog[s].joins, prog'[s].fanned = prog[s].fanned, prog'[s].nap = prog[s].nap,
         prog[s].holds = Nothing => prog'[s].holds = Nothing,
         \A u \in Units : BackedOf(pend[s], prog'[s], held'[s][u], DueIn(Tail(stack), s, u), u)
  PROVE  Good'
<1> DEFINE b == Tail(stack)
<1>1. Typed /\ Flows /\ Families
  BY DEF Good
<1>2. /\ s \in Sessions /\ b \in Seq(Frame) /\ Orderly(b)
      /\ \A o : o # s => SameView(b, stack, o)
      /\ OpsIn(b, s) = OpsIn(stack, s) /\ (GivesIn(b, s) => GivesIn(stack, s)) /\ ClearsIn(b, s) \subseteq ClearsIn(stack, s)
      /\ LateIn(b, s) \subseteq LateIn(stack, s)
  BY GiveTop DEF GiveView
<1> HIDE DEF b
<1>3. a \o b \in Seq(Frame) /\ Orderly(a \o b) /\ \A o : SameView(a \o b, b, o)
  BY <1>2, NeutralView
<1>4. stack' = a \o b /\ stack' \in Seq(Frame) /\ Orderly(stack')
  BY <1>3 DEF b
<1>5. \A o : o # s => SameView(stack', stack, o)
  BY <1>2, <1>3, <1>4, SameViews
<1>6. SameView(stack', b, s)
  BY <1>3, <1>4
<1>7. Sessions' = Sessions /\ Frame' = Frame /\ \A p : (Kids(p))' = Kids(p)
  BY WorldKept
<1>8. Typed'
  BY <1>1, <1>4, <1>7 DEF Typed
<1>9. ASSUME NEW o \in Sessions, o # s
      PROVE  Flow(o)' /\ Backed(o)'
  <2>1. Kept(o)
    BY <1>9 DEF Kept
  <2>2. pend'[o] \in PendRec
    BY <1>1 DEF Typed
  <2>3. Flow(o) /\ Backed(o)
    BY <1>1 DEF Flows
  <2>4. SameView(stack', stack, o)
    BY <1>5, <1>9, SMTT(100)
  <2> QED
    BY <1>1, <2>1, <2>2, <2>3, <2>4, OtherKeeps
<1>10. Flow(s)' /\ Backed(s)'
  <2>1. Flow(s) /\ Backed(s)
    BY <1>1, <1>2 DEF Flows
  <2>2. /\ OpsIn(stack', s) = OpsIn(stack, s) /\ (GivesIn(stack', s) => GivesIn(stack, s))
        /\ ClearsIn(stack', s) \subseteq ClearsIn(stack, s) /\ LateIn(stack', s) \subseteq LateIn(stack, s)
        /\ \A u : DueIn(stack', s, u) = DueIn(b, s, u)
    BY <1>2, <1>6 DEF SameView
  <2>3. FlowOf(pend[s], prog[s], kv[s].at, OpsIn(stack', s), GivesIn(stack', s))
    <3>1. FlowOf(pend[s], prog[s], kv[s].at, OpsIn(stack, s), GivesIn(stack, s))
      BY <2>1 DEF Flow
    <3>2. FlowOf(pend[s], prog[s], kv[s].at, OpsIn(stack, s), GivesIn(stack', s))
      BY <2>2, <3>1, FlowWeaker
    <3> QED
      BY <2>2, <3>2
  <2>4. FlowOf(pend[s], prog'[s], kv[s].at, OpsIn(stack', s), GivesIn(stack', s))
    <3> DEFINE p == pend[s]
               g == prog[s]
               z == prog'[s]
               at == kv[s].at
               ops == OpsIn(stack', s)
               gives == GivesIn(stack', s)
    <3>1. z.life = g.life /\ z.joins = g.joins /\ z.fanned = g.fanned /\ z.nap = g.nap /\ (g.holds = Nothing => z.holds = Nothing)
      OBVIOUS
    <3>2. FlowOf(p, g, at, ops, gives)
      BY <2>3
    <3> HIDE DEF p, g, z, at, ops, gives
    <3>3. \A op : OpFlow(p, g, at, op) => OpFlow(p, z, at, op)
      BY <3>1 DEF OpFlow
    <3>4. FlowOf(p, z, at, ops, gives)
      BY <3>1, <3>2, <3>3 DEF FlowOf
    <3> QED
      BY <3>4 DEF p, z, at, ops, gives
  <2>5. ClearOf(pend[s], prog'[s], OpsIn(stack', s), ClearsIn(stack', s), LateIn(stack', s))
    <3>1. ClearOf(pend[s], prog[s], OpsIn(stack', s), ClearsIn(stack, s), LateIn(stack, s))
      BY <2>1, <2>2 DEF Flow
    <3>2. ClearOf(pend[s], prog[s], OpsIn(stack', s), ClearsIn(stack', s), LateIn(stack', s))
      BY <2>2, <3>1 DEF ClearOf
    <3> QED
      BY <3>2 DEF ClearOf
  <2>6. \A u \in Units : BackedOf(pend[s], prog'[s], held'[s][u], DueIn(stack', s, u), u)
    BY <2>2 DEF b
  <2> QED
    BY <2>1, <2>4, <2>5, <2>6 DEF Flow, Backed
<1>11. Flows'
  BY <1>4, <1>7, <1>9, <1>10 DEF Flows
<1>12. \A o \in Sessions : /\ OpsIn(stack', o) = OpsIn(stack, o)
                           /\ prog'[o].life = prog[o].life /\ prog'[o].joins = prog[o].joins /\ prog'[o].fanned = prog[o].fanned
  BY <1>2, <1>5, <1>6 DEF SameView
<1>13. ASSUME NEW p \in Sessions
       PROVE  Family1(p)'
  <2>1. \A c \in Kids(p) : c \in Sessions
    BY <1>1, WorldIs DEF Typed, Kids
  <2>2. \A c \in Kids(p) : Unjoined(c)' <=> Unjoined(c)
    BY <1>12, <2>1 DEF Unjoined
  <2>3. {c \in Kids(p) : Unjoined(c)'} = {c \in Kids(p) : Unjoined(c)}
    BY <2>2
  <2> QED
    BY <1>1, <1>7, <1>12, <2>1, <2>3, ZenonT(40) DEF Families, Family1
<1> QED
  BY <1>7, <1>8, <1>11, <1>13 DEF Good, Families

LEMMA WakingNeutral ==
  ASSUME world \in Worlds, NEW r \in Units \cup {"kv", "none"}, NEW rest
  PROVE  Neutral(Waking(r, rest))
<1>1. Wake(r) \in Frame /\ Wake(r).op = "lapse"
  <2>1. (CHOOSE t \in Tops : TRUE) \in Sessions
    BY WorldIs
  <2> QED
    BY <2>1 DEF Wake, Frame
<1>2. Neutral(<<Wake(r)>>)
  BY <1>1, NeutralOne
<1> QED
  BY <1>2, NeutralNone DEF Waking

\* What a release of n units of r by s finds, with b below it on the stack,
\* and what it makes of it.
Releases(s, r, n, b) ==
  /\ Top("give") /\ GiveView(s, b, r, n)
  /\ prog' \in [Sessions -> ProgRec] /\ \A y \in Sessions : y # s => prog'[y] = prog[y]
  /\ held' \in [Sessions -> [Units -> Int]] /\ \A y \in Sessions : y # s => held'[y] = held[y]
  /\ prog'[s].life = prog[s].life /\ prog'[s].joins = prog[s].joins /\ prog'[s].fanned = prog[s].fanned
  /\ prog'[s].nap = prog[s].nap
  /\ Neutral(Waking(r, b)) /\ stack' = Waking(r, b) \o b /\ UNCHANGED <<world, pend, lease, kv, aimd>>
  /\ \A u \in Units :
       Account(pend[s], prog[s], prog'[s], held[s][u], held'[s][u], r, u, n, DueIn(stack, s, u), DueIn(b, s, u),
               GivesIn(stack, s), kv[s].at, OpsIn(stack, s), ClearsIn(stack, s), LateIn(stack, s))

LEMMA ReleaseFinds ==
  ASSUME Good, Release
  PROVE  Releases(Head(stack).s, Head(stack).r, Head(stack).amt, Tail(stack))
<1> DEFINE s == Head(stack).s
           r == Head(stack).r
           n == Head(stack).amt
           b == Tail(stack)
           h == held[s]
           g == prog[s]
           amt == IF n = All THEN h[r] ELSE n
           x == IF n = All \/ g.holds[r] <= amt THEN 0 ELSE g.holds[r] - amt
           z == [g EXCEPT !.holds[r] = x]
<1>1. Top("give") /\ GiveView(s, b, r, n)
  BY GiveTop DEF Release
<1>2. /\ s \in Sessions /\ b \in Seq(Frame) /\ n \in Nat
      /\ \A u : DueIn(b, s, u) \in Nat /\ DueIn(stack, s, u) = (IF u = r THEN n ELSE 0) + DueIn(b, s, u)
      /\ (n # All => GivesIn(stack, s)) /\ (n = All => ~GivesIn(b, s) /\ r \in ClearsIn(stack, s))
  BY <1>1 DEF GiveView
<1>3. g \in ProgRec /\ pend[s] \in PendRec /\ h \in [Units -> Int] /\ Flow(s) /\ Backed(s)
  BY <1>2, Data DEF Good, Flows
<1>4. held' = [held EXCEPT ![s][r] = h[r] - amt] /\ prog' = [prog EXCEPT ![s].holds[r] = x]
  BY DEF Release
<1>5. stack' = Waking(r, b) \o b /\ UNCHANGED <<world, pend, lease, kv, aimd>>
  BY DEF Release, Run
<1>6. r \in Units => x \in Nat
  <2>1. r \in Units => g.holds[r] \in Nat /\ h[r] \in Int
    BY <1>3, ProgIs DEF Bags
  <2>2. r \in Units => amt \in Int
    BY <1>2, <2>1
  <2> HIDE DEF amt, g, h, s
  <2> QED
    BY <2>1, <2>2
<1>7. prog' = [prog EXCEPT ![s] = z]
  BY <1>2, <1>4, Data
<1> HIDE DEF x
<1>8. /\ z \in ProgRec /\ z.life = g.life /\ z.joins = g.joins /\ z.fanned = g.fanned /\ z.nap = g.nap
      /\ \A u \in Units : z.holds[u] = IF u = r THEN x ELSE g.holds[u]
  BY <1>3, <1>6, HoldsLess
<1> HIDE DEF z
<1>9. /\ prog' \in [Sessions -> ProgRec] /\ prog'[s] = z /\ \A y \in Sessions : y # s => prog'[y] = prog[y]
  BY <1>2, <1>7, <1>8, Data
<1>10. /\ held' \in [Sessions -> [Units -> Int]] /\ (\A u \in Units : held'[s][u] = IF u = r THEN h[r] - amt ELSE h[u])
       /\ \A y \in Sessions : y # s => held'[y] = held[y]
  <2>1. held \in [Sessions -> [Units -> Int]]
    BY Data
  <2>2. r \in Units => h[r] - amt \in Int
    BY <1>2, <1>3
  <2> DEFINE v == h[r] - amt
             w == [h EXCEPT ![r] = v]
  <2>3. held' = [held EXCEPT ![s] = w]
    BY <1>2, <1>4, <2>1
  <2> HIDE DEF v, amt, s, r
  <2>4. \A u \in Units : w[u] = IF u = r THEN v ELSE h[u]
    BY <1>3
  <2>5. w = [u \in Units |-> w[u]]
    BY <1>3
  <2>6. \A u \in Units : h[u] \in Int
    BY <1>3
  <2> HIDE DEF w, h
  <2>7. \A u \in Units : w[u] \in Int
    BY <2>2, <2>4, <2>6 DEF v
  <2>8. w \in [Units -> Int]
    BY <2>5, <2>7
  <2> QED
    BY <1>2, <2>1, <2>3, <2>4, <2>8 DEF v
<1>11. ASSUME NEW u \in Units
       PROVE  Account(pend[s], g, z, h[u], held'[s][u], r, u, n, DueIn(stack, s, u), DueIn(b, s, u),
                      GivesIn(stack, s), kv[s].at, OpsIn(stack, s), ClearsIn(stack, s), LateIn(stack, s))
  <2> DEFINE p == pend[s]
             due == DueIn(stack, s, u)
             rest == DueIn(b, s, u)
             gives == GivesIn(stack, s)
             ops == OpsIn(stack, s)
             clears == ClearsIn(stack, s)
             late == LateIn(stack, s)
             at == kv[s].at
             hu == h[u]
             k == held'[s][u]
  <2>1. /\ FlowOf(p, g, at, ops, gives) /\ ClearOf(p, g, ops, clears, late) /\ PartOf(p) /\ BackedOf(p, g, hu, due, u) /\ hu \in Int
        /\ p \in PendRec /\ g \in ProgRec
    BY <1>3 DEF Flow, Backed
  <2>2. /\ n \in Nat /\ due = (IF u = r THEN n ELSE 0) + rest /\ due \in Nat /\ rest \in Nat /\ gives \in BOOLEAN
        /\ (n # 0 => gives) /\ (n = 0 => r \in clears)
    <3>1. gives \in BOOLEAN
      BY DEF GivesIn
    <3> QED
      BY <1>2, <3>1 DEF All
  <2>3. n = 0 => rest = 0
    <3>1. n = 0 => ~GivesIn(b, s)
      BY <1>2 DEF All
    <3> QED
      BY <1>2, <3>1, NothingDue
  <2>4. k = IF u = r THEN hu - (IF n = 0 THEN hu ELSE n) ELSE hu
    BY <1>10 DEF All
  <2>5. z.holds[u] = IF u = r THEN (IF n = 0 \/ g.holds[r] <= n THEN 0 ELSE g.holds[r] - n) ELSE g.holds[u]
    BY <1>8 DEF x, All
  <2> HIDE DEF p, due, rest, gives, ops, clears, late, at, hu, k, g, h, s, r, n, b
  <2>6. Account(p, g, z, hu, k, r, u, n, due, rest, gives, at, ops, clears, late)
    BY <1>8, <2>1, <2>2, <2>3, <2>4, <2>5 DEF Account
  <2> QED
    BY <2>6 DEF p, due, rest, gives, ops, clears, late, at, hu, k
<1>12. Neutral(Waking(r, b))
  <2>1. r \in Units \cup {"kv", "none"}
    <3>1. Head(stack) \in Frame
      BY <1>1, Data, HeadIs DEF Top
    <3> QED
      BY <3>1, FrameIs
  <2>2. world \in Worlds
    BY Data
  <2> QED
    BY <2>1, <2>2, WakingNeutral
<1> HIDE DEF r, n, b, s
<1> QED
  BY <1>1, <1>5, <1>8, <1>9, <1>10, <1>11, <1>12 DEF Releases, s, r, n, b

\* _release.
LEMMA ReleaseKeeps ==
  ASSUME Good, Release
  PROVE  Good'
<1> SUFFICES ASSUME NEW s, s = Head(stack).s, NEW r, r = Head(stack).r, NEW n, n = Head(stack).amt,
                    NEW b, b = Tail(stack)
             PROVE  Good'
  OBVIOUS
<1>0. Releases(s, r, n, b)
  BY ReleaseFinds
<1> DEFINE a == Waking(r, b)
           g == prog[s]
           z == prog'[s]
<1>1. /\ Top("give") /\ GiveView(s, b, r, n)
      /\ prog' \in [Sessions -> ProgRec] /\ \A y \in Sessions : y # s => prog'[y] = prog[y]
      /\ held' \in [Sessions -> [Units -> Int]] /\ \A y \in Sessions : y # s => held'[y] = held[y]
      /\ z.life = g.life /\ z.joins = g.joins /\ z.fanned = g.fanned /\ z.nap = g.nap
      /\ Neutral(a) /\ stack' = a \o b /\ UNCHANGED <<world, pend, lease, kv, aimd>>
  BY <1>0 DEF Releases
<1>2. \A u \in Units :
        Account(pend[s], g, z, held[s][u], held'[s][u], r, u, n, DueIn(stack, s, u), DueIn(b, s, u),
                GivesIn(stack, s), kv[s].at, OpsIn(stack, s), ClearsIn(stack, s), LateIn(stack, s))
  BY <1>0 DEF Releases
<1>3. s \in Sessions /\ g \in ProgRec /\ z \in ProgRec
  BY <1>1, Data DEF GiveView
<1>4. g.holds = Nothing => z.holds = Nothing
  <2> SUFFICES ASSUME g.holds = Nothing PROVE z.holds = Nothing
    OBVIOUS
  <2>1. ASSUME NEW u \in Units
        PROVE  z.holds[u] = 0
    <3>1. z.holds[u] = (IF u = r THEN (IF n = 0 \/ g.holds[r] <= n THEN 0 ELSE g.holds[r] - n) ELSE g.holds[u]) /\ n \in Nat
      BY <1>2 DEF Account
    <3>2. g.holds[u] = 0
      BY BagOf
    <3> QED
      BY <3>1, <3>2
  <2>2. z.holds \in Bags
    BY <1>3, ProgIs
  <2> QED
    BY <2>1, <2>2 DEF Bags, Nothing
<1>5. \A u \in Units : BackedOf(pend[s], z, held'[s][u], DueIn(b, s, u), u)
  BY <1>2, ReleasePays
<1> HIDE DEF a, g, z
<1> QED
  BY <1>1, <1>4, <1>5, ReleaseAt DEF g, z

-----------------------------------------------------------------------------
(* The calls that start the sub-agents of a session.                       *)

\* A set, as a sequence.
LEMMA SeqOfSet ==
  ASSUME NEW S, IsFiniteSet(S)
  PROVE  /\ SetToSeq(S) \in Seq(S) /\ Len(SetToSeq(S)) = Cardinality(S) /\ Cardinality(S) \in Nat
         /\ DOMAIN SetToSeq(S) = 1 .. Cardinality(S)
         /\ \A i, j \in DOMAIN SetToSeq(S) : SetToSeq(S)[i] = SetToSeq(S)[j] => i = j
         /\ \A e \in S : \E i \in DOMAIN SetToSeq(S) : SetToSeq(S)[i] = e
<1> DEFINE n == Cardinality(S)
           q == SetToSeq(S)
<1>1. n \in Nat /\ ExistsBijection(1 .. n, S)
  BY FS_CardinalityType
<1>2. \E f \in [1 .. n -> S] : IsInjective(f)
  BY <1>1 DEF ExistsBijection, Bijection, Injection
<1>3. q \in [1 .. n -> S] /\ IsInjective(q)
  BY <1>2 DEF SetToSeq
<1> HIDE DEF q
<1>4. q \in Injection(1 .. n, S)
  BY <1>3 DEF Injection
<1>50. IsFiniteSet(1 .. n) /\ Cardinality(1 .. n) = n
  BY <1>1, FS_Interval
<1>5. q \in Surjection(1 .. n, S)
  BY <1>4, <1>50, FS_Injection
<1>6. q \in Seq(S) /\ Len(q) = n
  BY <1>1, <1>3
<1>7. DOMAIN q = 1 .. n
  BY <1>3
<1>8. \A e \in S : \E i \in DOMAIN q : q[i] = e
  BY <1>5, <1>7 DEF Surjection
<1>9. \A i, j \in DOMAIN q : q[i] = q[j] => i = j
  BY <1>3 DEF IsInjective
<1> QED
  BY <1>1, <1>6, <1>7, <1>8, <1>9 DEF q

Starting(q, K) ==
  /\ q \in Seq(Frame) /\ Orderly(q)
  /\ \A i \in DOMAIN q : q[i].s \in K
  /\ \A o : /\ OpsIn(q, o) = (IF o \in K THEN {"start"} ELSE {})
            /\ ~GivesIn(q, o) /\ ClearsIn(q, o) = {} /\ LateIn(q, o) = {}

LEMMA StartsView ==
  ASSUME NEW K, IsFiniteSet(K), K \subseteq Sessions
  PROVE  Starting([i \in DOMAIN SetToSeq(K) |-> Call("start", SetToSeq(K)[i])], K)
<1> DEFINE kids == SetToSeq(K)
           q == [i \in DOMAIN kids |-> Call("start", kids[i])]
           n == Cardinality(K)
<1>1. /\ kids \in Seq(K) /\ n \in Nat /\ DOMAIN kids = 1 .. n
      /\ \A i, j \in DOMAIN kids : kids[i] = kids[j] => i = j
      /\ \A e \in K : \E i \in DOMAIN kids : kids[i] = e
      /\ Len(kids) = n
  BY SeqOfSet
<1>2. \A i \in 1 .. n : kids[i] \in K
  BY <1>1, ElementOfSeq
<1> HIDE DEF kids, n
<1>3. DOMAIN q = 1 .. n /\ \A i \in 1 .. n : q[i] = Call("start", kids[i])
  BY <1>1
<1>30. q = [i \in 1 .. n |-> Call("start", kids[i])]
  BY <1>1
<1> HIDE DEF q
<1>4. "start" \in ThreadOps /\ "give" # "start"
  BY DEF ThreadOps
<1>5. \A i \in 1 .. n : q[i] \in Frame /\ q[i].op = "start" /\ q[i].s = kids[i]
  BY <1>2, <1>3, <1>4, CallIs
<1>6. q \in Seq(Frame)
  <2>1. \A i \in 1 .. n : Call("start", kids[i]) \in Frame
    BY <1>3, <1>5
  <2> QED
    BY <1>1, <1>30, <2>1
<1>7. \A i \in 1 .. n : IsThread(q[i]) /\ ~IsGive(q[i]) /\ ~IsClear(q[i])
  BY <1>4, <1>5 DEF IsThread, IsGive, IsClear
<1>8. Orderly(q)
  <2> SUFFICES ASSUME NEW i \in DOMAIN q, NEW j \in DOMAIN q, i < j PROVE ~Clash(q[i], q[j])
    BY DEF Orderly
  <2>1. kids[i] # kids[j]
    BY <1>1, <1>3
  <2>2. q[i].s # q[j].s
    BY <1>3, <1>5, <2>1
  <2> QED
    BY <2>2 DEF Clash
<1>9. ASSUME NEW o
      PROVE  /\ OpsIn(q, o) = (IF o \in K THEN {"start"} ELSE {})
             /\ ~GivesIn(q, o) /\ ClearsIn(q, o) = {} /\ LateIn(q, o) = {}
  <2>1. CASE o \in K
    <3>1. PICK i \in 1 .. n : kids[i] = o
      BY <1>1, <2>1
    <3>2. i \in {j \in DOMAIN q : q[j].s = o /\ IsThread(q[j])} /\ q[i].op = "start"
      BY <1>3, <1>5, <1>7, <3>1
    <3>3. "start" \in OpsIn(q, o)
      BY <3>2 DEF OpsIn
    <3>4. OpsIn(q, o) \subseteq {"start"}
      BY <1>3, <1>5 DEF OpsIn
    <3> QED
      BY <1>3, <1>7, <2>1, <3>3, <3>4 DEF GivesIn, ClearsIn, LateIn
  <2>2. CASE o \notin K
    <3>1. OpsIn(q, o) = {}
      BY <1>2, <1>3, <1>5, <2>2 DEF OpsIn
    <3> QED
      BY <1>3, <1>7, <2>2, <3>1 DEF GivesIn, ClearsIn, LateIn
  <2> QED
    BY <2>1, <2>2
<1>10. \A i \in DOMAIN q : q[i].s \in K
  BY <1>2, <1>3, <1>5
<1>11. Starting(q, K)
  BY <1>6, <1>8, <1>9, <1>10 DEF Starting
<1> QED
  BY <1>11 DEF q, kids

\* ... over a stack without calls of theirs.
StartView(t, c, K) ==
  /\ t \in Seq(Frame) /\ Orderly(t)
  /\ \A o : o \notin K => SameView(t, c, o)
  /\ \A o \in K : /\ OpsIn(t, o) = {"start"} /\ ~GivesIn(t, o) /\ ClearsIn(t, o) = ClearsIn(c, o)
                  /\ LateIn(t, o) \subseteq ClearsIn(c, o) /\ \A r : DueIn(t, o, r) = 0

LEMMA StartsOver ==
  ASSUME NEW K, NEW q, Starting(q, K), NEW c \in Seq(Frame), Orderly(c),
         \A o \in K : OpsIn(c, o) = {} /\ ~GivesIn(c, o)
  PROVE  StartView(q \o c, c, K)
<1>1. /\ q \in Seq(Frame) /\ Orderly(q) /\ \A i \in DOMAIN q : q[i].s \in K
  BY DEF Starting
<1>2. ASSUME NEW o
      PROVE  /\ OpsIn(q, o) = (IF o \in K THEN {"start"} ELSE {})
             /\ ~GivesIn(q, o) /\ ClearsIn(q, o) = {} /\ LateIn(q, o) = {}
  BY DEF Starting
<1>3. q \o c \in Seq(Frame)
  BY <1>1, Concat
<1>4. Orderly(q \o c)
  BY <1>1, Stacked
<1>5. ASSUME NEW o
      PROVE  /\ OpsIn(q \o c, o) = OpsIn(q, o) \cup OpsIn(c, o)
             /\ (GivesIn(q \o c, o) <=> GivesIn(q, o) \/ GivesIn(c, o))
             /\ ClearsIn(q \o c, o) = ClearsIn(q, o) \cup ClearsIn(c, o)
             /\ LateIn(q \o c, o) = LateIn(q, o) \cup LateIn(c, o) \cup (IF OpsIn(q, o) # {} THEN ClearsIn(c, o) ELSE {})
  BY <1>1, ViewOfConcat
<1>6. ASSUME NEW o, NEW r
      PROVE  DueIn(q \o c, o, r) = DueIn(c, o, r)
  <2>1. DueIn(q, o, r) = 0
    BY <1>1, <1>2, NothingDue
  <2>2. DueIn(c, o, r) \in Nat /\ DueIn(q \o c, o, r) = DueIn(q, o, r) + DueIn(c, o, r)
    BY <1>1, DueOfConcat
  <2> QED
    BY <2>1, <2>2
<1> DEFINE t == q \o c
<1>7. ASSUME NEW o, o \notin K
      PROVE  SameView(t, c, o)
  <2>1. OpsIn(q, o) = {} /\ ~GivesIn(q, o) /\ ClearsIn(q, o) = {} /\ LateIn(q, o) = {}
    BY <1>2, <1>7
  <2>2. OpsIn(t, o) = OpsIn(c, o) /\ (GivesIn(t, o) <=> GivesIn(c, o)) /\ ClearsIn(t, o) = ClearsIn(c, o) /\ LateIn(t, o) = LateIn(c, o)
    BY <1>5, <2>1
  <2> QED
    BY <1>6, <2>2 DEF SameView
<1>8. ASSUME NEW o \in K
      PROVE  /\ OpsIn(t, o) = {"start"} /\ ~GivesIn(t, o) /\ ClearsIn(t, o) = ClearsIn(c, o)
             /\ LateIn(t, o) \subseteq ClearsIn(c, o) /\ \A r : DueIn(t, o, r) = 0
  <2>1. OpsIn(q, o) = {"start"} /\ ~GivesIn(q, o) /\ ClearsIn(q, o) = {} /\ LateIn(q, o) = {}
    BY <1>2
  <2>2. LateIn(c, o) \subseteq ClearsIn(c, o)
    BY LateAreClears
  <2>3. \A r : DueIn(c, o, r) = 0
    BY NothingDue
  <2>4. OpsIn(c, o) = {} /\ ~GivesIn(c, o)
    OBVIOUS
  <2>5. OpsIn(t, o) = {"start"} /\ ~GivesIn(t, o) /\ ClearsIn(t, o) = ClearsIn(c, o)
    BY <1>5, <2>1, <2>4
  <2>6. LateIn(t, o) \subseteq ClearsIn(c, o)
    BY <1>5, <2>1, <2>2
  <2>7. \A r : DueIn(t, o, r) = 0
    BY <1>6, <2>3
  <2> QED
    BY <2>5, <2>6, <2>7
<1> HIDE DEF t
<1>9. StartView(t, c, K)
  <2>1. t \in Seq(Frame) /\ Orderly(t)
    BY <1>3, <1>4 DEF t
  <2> QED
    BY <1>7, <1>8, <2>1 DEF StartView
<1> QED
  BY <1>9 DEF t

\* A sub-agent whose first call is to be made.
LEMMA KidStarts ==
  ASSUME NEW p \in PendRec, NEW g \in ProgRec, NEW at \in {"none", "idle", "active", "decode"},
         FlowOf(p, g, at, {}, FALSE), g.joins \in Nat, g.life = "off", ~g.fanned
  PROVE  FlowOf(p, g, at, {"start"}, FALSE)
<1>1. /\ p.mode = "off" /\ at = "none" /\ ~(g.joins > 0) /\ g.nap = "no" /\ p.own = Nothing /\ ~p.due /\ p.part = <<>> /\ ~p.par
  BY DEF FlowOf
<1>2. g.joins = 0
  BY <1>1
<1>3. OpFlow(p, g, at, "start")
  BY <1>1, <1>2 DEF OpFlow, Pausing
<1> QED
  BY <1>3 DEF FlowOf

LEMMA SpawnAt ==
  ASSUME Good, NEW s, s = Head(stack).s, Top("spawn")
  PROVE  /\ s \in Tops /\ s \in Sessions /\ Kids(s) # {} /\ IsFiniteSet(Kids(s)) /\ Kids(s) \subseteq Sessions /\ s \notin Kids(s)
         /\ \A c \in Kids(s) : prog[c].life = "off" /\ OpsIn(stack, c) = {}
         /\ Below(Tail(stack), s) /\ At(s, {"spawn"}, {}) /\ ClearsIn(Tail(stack), s) = {}
<1>1. Below(Tail(stack), s) /\ At(s, {"spawn"}, ClearsIn(Tail(stack), s))
  BY AtCall DEF Top, IsThread, ThreadOps
<1>2. ClearsIn(Tail(stack), s) = {}
  <2>1. \A r \in ClearsIn(Tail(stack), s) : Vacant(pend[s], {"spawn"}, r)
    BY <1>1 DEF At
  <2> QED
    BY <2>1 DEF Vacant, EarlyOps
<1>3. s \in Sessions /\ OpsIn(stack, s) = {"spawn"}
  BY <1>1 DEF At
<1>4. /\ Kids(s) # {} /\ \A c \in Kids(s) : prog[c].life = "off" /\ OpsIn(stack, c) = {}
  BY <1>3 DEF Good, Families, Family1
<1>5. s \in Tops
  BY <1>4 DEF Kids
<1>6. /\ IsFiniteSet(Kids(s)) /\ Kids(s) \subseteq Sessions /\ s \notin Kids(s)
  BY <1>5, Data, WorldIs
<1> QED
  BY <1>1, <1>2, <1>3, <1>4, <1>5, <1>6

\* The views that _spawn leaves of the stack.
SpawnView(t, s, K) ==
  /\ t \in Seq(Frame) /\ Orderly(t)
  /\ OpsIn(t, s) = {} /\ ~GivesIn(t, s) /\ ClearsIn(t, s) = {} /\ LateIn(t, s) = {}
  /\ \A r : DueIn(t, s, r) = 0
  /\ \A o \in K : /\ OpsIn(t, o) = {"start"} /\ ~GivesIn(t, o) /\ ClearsIn(t, o) = {}
                  /\ LateIn(t, o) = {} /\ \A r : DueIn(t, o, r) = 0
  /\ \A o \in Sessions : o # s /\ o \notin K => SameView(t, stack, o)

LEMMA SpawnViews ==
  ASSUME Good, NEW s, s = Head(stack).s, Top("spawn"), NEW q, Starting(q, Kids(s))
  PROVE  SpawnView((q \o <<Call("joinpark", s)>>) \o Tail(stack), s, Kids(s))
<1> DEFINE b == Tail(stack)
           K == Kids(s)
           f == Call("joinpark", s)
           e == <<f>>
           c == e \o b
           t == q \o c
<1>1. /\ s \in Sessions /\ K \subseteq Sessions /\ s \notin K
      /\ \A k \in K : prog[k].life = "off" /\ OpsIn(stack, k) = {}
      /\ Below(b, s) /\ ClearsIn(b, s) = {}
  BY SpawnAt
<1>2. f \in Frame /\ f.op = "joinpark"
  BY <1>1, CallIs
<1> HIDE DEF f
<1>3. Neutral(e)
  BY <1>2, NeutralOne
<1>30. e \in Seq(Frame) /\ q \in Seq(Frame)
  BY <1>3 DEF Neutral, Starting
<1>4. b \in Seq(Frame) /\ Orderly(b) /\ OpsIn(b, s) = {} /\ ~GivesIn(b, s) /\ \A o \in Sessions : o # s => SameView(b, stack, o)
  BY <1>1 DEF Below
<1> HIDE DEF b, e, K
<1>5. c \in Seq(Frame) /\ Orderly(c) /\ \A o : SameView(c, b, o)
  BY <1>3, <1>4, NeutralView
<1>6. (q \o e) \o b = t
  BY <1>30, <1>4, ConcatAssociative
<1> HIDE DEF c
<1>7. \A o \in Sessions : o # s => SameView(c, stack, o)
  BY <1>4, <1>5, SameViews
<1>8. ASSUME NEW k \in K
      PROVE  OpsIn(c, k) = {} /\ ~GivesIn(c, k) /\ ClearsIn(c, k) = {}
  <2>1. SameView(c, stack, k) /\ k \in Sessions
    BY <1>1, <1>7
  <2>2. Flow(k)
    BY <2>1 DEF Good, Flows
  <2>3. FlowOf(pend[k], prog[k], kv[k].at, OpsIn(stack, k), GivesIn(stack, k))
        /\ ClearOf(pend[k], prog[k], OpsIn(stack, k), ClearsIn(stack, k), LateIn(stack, k))
    BY <2>2 DEF Flow
  <2>4. ~GivesIn(stack, k) /\ ClearsIn(stack, k) = {}
    BY <1>1, <2>3 DEF FlowOf, ClearOf
  <2> QED
    BY <1>1, <2>1, <2>4 DEF SameView
<1>9. Starting(q, K)
  BY DEF K
<1>10. StartView(t, c, K)
  BY <1>5, <1>8, <1>9, StartsOver
<1> HIDE DEF t
<1>11. ASSUME NEW o \in Sessions, o # s, o \notin K
       PROVE  SameView(t, stack, o)
  <2>1. SameView(t, c, o) /\ SameView(c, stack, o)
    BY <1>7, <1>10, <1>11 DEF StartView
  <2> QED
    BY <2>1, SameViews
<1>12. \A o \in K : /\ OpsIn(t, o) = {"start"} /\ ~GivesIn(t, o) /\ ClearsIn(t, o) = {}
                    /\ LateIn(t, o) = {} /\ \A r : DueIn(t, o, r) = 0
  BY <1>8, <1>10 DEF StartView
<1>13. /\ OpsIn(t, s) = {} /\ ~GivesIn(t, s) /\ ClearsIn(t, s) = {} /\ LateIn(t, s) = {}
       /\ \A r : DueIn(t, s, r) = 0
  <2>1. SameView(t, b, s)
    <3>1. SameView(t, c, s) /\ SameView(c, b, s)
      BY <1>1, <1>5, <1>10 DEF StartView
    <3> QED
      BY <3>1, SameViews
  <2>2. OpsIn(b, s) = {} /\ ~GivesIn(b, s) /\ ClearsIn(b, s) = {}
    BY <1>1, <1>4 DEF b
  <2>3. LateIn(b, s) = {} /\ \A r : DueIn(b, s, r) = 0
    BY <1>4, <2>2, NoneLate, NothingDue
  <2> QED
    BY <2>1, <2>2, <2>3 DEF SameView
<1>14. SpawnView(t, s, K)
  BY <1>10, <1>11, <1>12, <1>13 DEF SpawnView, StartView
<1> QED
  BY <1>6, <1>14 DEF b, e, f, K

LEMMA Fanned ==
  ASSUME NEW g \in ProgRec, NEW n \in Nat
  PROVE  /\ [g EXCEPT !.fanned = TRUE, !.joins = n] \in ProgRec
         /\ [g EXCEPT !.fanned = TRUE, !.joins = n].life = g.life /\ [g EXCEPT !.fanned = TRUE, !.joins = n].joins = n
         /\ [g EXCEPT !.fanned = TRUE, !.joins = n].fanned = TRUE /\ [g EXCEPT !.fanned = TRUE, !.joins = n].holds = g.holds
         /\ [g EXCEPT !.fanned = TRUE, !.joins = n].nap = g.nap
<1> DEFINE yes == TRUE
<1>0. yes \in BOOLEAN
  OBVIOUS
<1> HIDE DEF yes
<1> DEFINE h == [g EXCEPT !.fanned = yes]
<1>11. h \in ProgRec
  BY <1>0 DEF ProgRec
<1>12. [g EXCEPT !.fanned = yes, !.joins = n] = [h EXCEPT !.joins = n]
  BY DEF ProgRec
<1> HIDE DEF h
<1>13. n \in Int
  OBVIOUS
<1>14. [h EXCEPT !.joins = n] \in ProgRec
  BY <1>11, <1>13 DEF ProgRec
<1>15. [g EXCEPT !.fanned = yes, !.joins = n] \in ProgRec
  BY <1>12, <1>14
<1>1. [g EXCEPT !.fanned = TRUE, !.joins = n] \in ProgRec
  BY <1>15 DEF yes
<1>2. /\ [g EXCEPT !.fanned = TRUE, !.joins = n].life = g.life /\ [g EXCEPT !.fanned = TRUE, !.joins = n].joins = n
      /\ [g EXCEPT !.fanned = TRUE, !.joins = n].fanned = TRUE /\ [g EXCEPT !.fanned = TRUE, !.joins = n].holds = g.holds
      /\ [g EXCEPT !.fanned = TRUE, !.joins = n].nap = g.nap
  BY DEF ProgRec
<1> QED
  BY <1>1, <1>2

\* _spawn.
LEMMA SpawnKeeps ==
  ASSUME Good, NEW s, s = Head(stack).s, Spawn
  PROVE  Good'
<1> DEFINE b == Tail(stack)
           K == Kids(s)
           kids == SetToSeq(K)
           q == [i \in DOMAIN kids |-> Call("start", kids[i])]
           g == [prog[s] EXCEPT !.fanned = TRUE, !.joins = Len(kids)]
           p == NoPending("join")
<1>0. Top("spawn")
  BY DEF Spawn
<1>1. /\ s \in Tops /\ s \in Sessions /\ K # {} /\ IsFiniteSet(K) /\ K \subseteq Sessions /\ s \notin K
      /\ \A c \in K : prog[c].life = "off" /\ OpsIn(stack, c) = {}
      /\ At(s, {"spawn"}, {})
  BY <1>0, SpawnAt
<1>2. Starting(q, K)
  BY <1>1, StartsView
<1>3. Len(kids) = Cardinality(K) /\ Cardinality(K) \in Nat /\ Cardinality(K) # 0
  BY <1>1, SeqOfSet, FS_EmptySet
<1>4. SpawnView((q \o <<Call("joinpark", s)>>) \o b, s, K)
  BY <1>0, <1>2, SpawnViews
<1>5. stack' = (q \o <<Call("joinpark", s)>>) \o b
  BY DEF Spawn, Run
<1>6. SpawnView(stack', s, K)
  BY <1>4, <1>5
<1>7. /\ world' = world /\ held' = held /\ kv' = kv /\ aimd' = aimd /\ pend' = [pend EXCEPT ![s] = p]
      /\ prog' = [prog EXCEPT ![s].fanned = TRUE, ![s].joins = Len(kids)] /\ Replace(s, 0, TRUE)
  BY DEF Spawn
<1>8. prog[s] \in ProgRec /\ pend[s] \in PendRec /\ g = [prog[s] EXCEPT !.fanned = TRUE, !.joins = Len(kids)]
  BY <1>1, Data
<1>9. prog' = [prog EXCEPT ![s] = g]
  BY <1>1, <1>7, Data
<1>10. p \in PendRec /\ p.mode = "join" /\ p.step = Fetch /\ p.part = <<>> /\ p.own = Nothing /\ p.par = FALSE /\ p.due = FALSE /\ p.flag = FALSE
  BY NewPending DEF Modes
<1> HIDE DEF q, b, kids, p, K
<1>11. g \in ProgRec /\ g.life = prog[s].life /\ g.joins = Cardinality(K) /\ g.fanned = TRUE /\ g.holds = prog[s].holds /\ g.nap = prog[s].nap
  BY <1>3, <1>8, Fanned, ZenonT(40)
<1> HIDE DEF g
<1>110. s \in Sessions /\ pend' = [pend EXCEPT ![s] = p]
  BY <1>1, <1>7
<1>12. /\ pend' \in [Sessions -> PendRec] /\ pend'[s] = p /\ \A x \in Sessions : x # s => pend'[x] = pend[x]
       /\ prog' \in [Sessions -> ProgRec] /\ prog'[s] = g /\ \A x \in Sessions : x # s => prog'[x] = prog[x]
  BY <1>110, <1>9, <1>10, <1>11, Data
<1>13. lease' \in [Sessions -> Bags]
  <2>1. 0 \in Nat
    OBVIOUS
  <2> QED
    BY <1>1, <1>7, <2>1, ReplaceTyped
<1>14. Typed /\ Flows /\ Families
  BY DEF Good
<1>15. Sessions' = Sessions /\ Frame' = Frame /\ \A o : (Kids(o))' = Kids(o)
  BY <1>7, WorldKept
<1>16. stack' \in Seq(Frame) /\ Orderly(stack')
  BY <1>6 DEF SpawnView
<1>17. Typed'
  BY <1>7, <1>12, <1>13, <1>14, <1>15, <1>16 DEF Typed
<1>18. ASSUME NEW o \in Sessions, o # s, o \notin K
       PROVE  Flow(o)' /\ Backed(o)'
  <2>1. Kept(o)
    BY <1>7, <1>12, <1>18 DEF Kept
  <2>2. pend'[o] \in PendRec
    BY <1>12
  <2>3. Flow(o) /\ Backed(o)
    BY <1>14 DEF Flows
  <2>4. SameView(stack', stack, o)
    BY <1>6, <1>18 DEF SpawnView
  <2> QED
    BY <1>14, <2>1, <2>2, <2>3, <2>4, OtherKeeps
<1>19. ASSUME NEW o \in K
       PROVE  Flow(o)' /\ Backed(o)'
  <2>1. /\ o \in Sessions /\ o # s /\ prog[o].life = "off" /\ OpsIn(stack, o) = {} /\ pend[o] \in PendRec /\ prog[o] \in ProgRec
        /\ kv[o] \in Cache
    BY <1>1, Data
  <2>2. Flow(o) /\ Backed(o) /\ prog[o].joins \in Nat
    BY <1>14, <2>1, JoinsNat DEF Flows
  <2>3. /\ OpsIn(stack', o) = {"start"} /\ GivesIn(stack', o) = FALSE /\ ClearsIn(stack', o) = {}
        /\ LateIn(stack', o) = {} /\ \A r : DueIn(stack', o, r) = 0
    <3>1. GivesIn(stack', o) \in BOOLEAN
      BY DEF GivesIn
    <3> QED
      BY <1>6, <3>1 DEF SpawnView
  <2>4. pend'[o] = pend[o] /\ prog'[o] = prog[o] /\ held' = held /\ kv' = kv
    BY <1>7, <1>12, <2>1
  <2>5. FlowOf(pend[o], prog[o], kv[o].at, {}, FALSE)
    <3> DEFINE no == FALSE
               none == {}
    <3>1. no => GivesIn(stack, o)
      OBVIOUS
    <3>2. FlowOf(pend[o], prog[o], kv[o].at, OpsIn(stack, o), GivesIn(stack, o))
      BY <2>2 DEF Flow
    <3>3. OpsIn(stack, o) = none
      BY <2>1
    <3> HIDE DEF no, none
    <3>4. FlowOf(pend[o], prog[o], kv[o].at, OpsIn(stack, o), no)
      BY <3>1, <3>2, FlowWeaker
    <3>5. FlowOf(pend[o], prog[o], kv[o].at, none, no)
      BY <3>3, <3>4
    <3> QED
      BY <3>5 DEF no, none
  <2>6. kv[o].at \in {"none", "idle", "active", "decode"}
    BY <2>1 DEF Cache
  <2>7. ~prog[o].fanned
    BY <2>1, <2>5 DEF FlowOf
  <2>8. FlowOf(pend[o], prog[o], kv[o].at, {"start"}, FALSE)
    BY <2>1, <2>2, <2>5, <2>6, <2>7, KidStarts
  <2>9. FlowOf(pend'[o], prog'[o], kv'[o].at, OpsIn(stack', o), GivesIn(stack', o))
    BY <2>3, <2>4, <2>8
  <2>10. ClearOf(pend'[o], prog'[o], OpsIn(stack', o), ClearsIn(stack', o), LateIn(stack', o))
    BY <2>3 DEF ClearOf
  <2>11. PartOf(pend'[o])
    BY <2>2, <2>4 DEF Backed
  <2>12. ASSUME NEW r \in Units
         PROVE  BackedOf(pend'[o], prog'[o], held'[o][r], DueIn(stack', o, r), r)
    <3>1. BackedOf(pend[o], prog[o], held[o][r], DueIn(stack, o, r), r) /\ DueIn(stack', o, r) = 0
      BY <2>2, <2>3 DEF Backed
    <3>2. DueIn(stack, o, r) \in Nat /\ Amount(pend[o].part, r) \in Nat /\ held[o][r] \in Int
      <4>1. stack \in Seq(Frame)
        BY Data
      <4>2. DueIn(stack, o, r) \in Nat
        BY <4>1, DueOfConcat
      <4> QED
        BY <2>1, <4>2, Data, PendIs, AmountIs
    <3> QED
      BY <2>4, <3>1, <3>2 DEF BackedOf
  <2> QED
    BY <2>9, <2>10, <2>11, <2>12 DEF Flow, Backed
<1>20. Flow(s)' /\ Backed(s)'
  <2>1. /\ OpsIn(stack', s) = {} /\ GivesIn(stack', s) = FALSE /\ ClearsIn(stack', s) = {}
        /\ LateIn(stack', s) = {} /\ \A r : DueIn(stack', s, r) = 0
    <3>1. GivesIn(stack', s) \in BOOLEAN
      BY DEF GivesIn
    <3> QED
      BY <1>6, <3>1 DEF SpawnView
  <2>2. /\ FlowOf(pend[s], prog[s], kv[s].at, {"spawn"}, FALSE) /\ \A r \in Units : BackedOf(pend[s], prog[s], held[s][r], 0, r)
    BY <1>1 DEF At
  <2>3. FlowOf(p, g, kv[s].at, {}, FALSE)
    <3>1. g.joins > 0
      BY <1>3, <1>11
    <3>2. prog[s].life = "active" /\ prog[s].nap = "no" /\ kv[s].at \notin {"active", "decode"}
      BY <2>2 DEF FlowOf, OpFlow
    <3> QED
      BY <1>10, <1>11, <3>1, <3>2, FetchOf DEF FlowOf, Pausing
  <2>4. ClearOf(p, g, {}, {}, {})
    BY DEF ClearOf
  <2>5. PartOf(p)
    <3>1. DOMAIN <<>> = {} /\ Nothing["slots"] = 0 /\ Nothing["mem"] = 0 /\ Nothing["cpu"] = 0
      BY BagOf, UnitsAre
    <3> QED
      BY <1>10, <3>1 DEF PartOf
  <2>6. ASSUME NEW r \in Units
        PROVE  BackedOf(p, g, held[s][r], 0, r)
    <3>1. /\ Amount(pend[s].part, r) \in Nat /\ prog[s].holds[r] \in Nat /\ held[s][r] \in Nat
          /\ held[s][r] >= prog[s].holds[r] + Amount(pend[s].part, r)
      BY <1>1, Sizes
    <3>2. Amount(p.part, r) = 0 /\ p.own[r] = 0 /\ g.holds[r] = prog[s].holds[r]
      BY <1>10, <1>11, AmountEmpty, BagOf
    <3> QED
      BY <3>1, <3>2 DEF BackedOf
  <2>7. FlowOf(pend'[s], prog'[s], kv'[s].at, OpsIn(stack', s), GivesIn(stack', s))
    BY <1>7, <1>12, <2>1, <2>3
  <2>8. ClearOf(pend'[s], prog'[s], OpsIn(stack', s), ClearsIn(stack', s), LateIn(stack', s)) /\ PartOf(pend'[s])
    BY <1>12, <2>1, <2>4, <2>5
  <2>9. ASSUME NEW r \in Units
        PROVE  BackedOf(pend'[s], prog'[s], held'[s][r], DueIn(stack', s, r), r)
    <3>1. DueIn(stack', s, r) = 0 /\ BackedOf(p, g, held[s][r], 0, r) /\ pend'[s] = p /\ prog'[s] = g /\ held' = held
      BY <1>7, <1>12, <2>1, <2>6
    <3> QED
      BY <3>1
  <2> QED
    BY <2>7, <2>8, <2>9 DEF Flow, Backed
<1>21. Flows'
  BY <1>15, <1>16, <1>18, <1>19, <1>20 DEF Flows
<1>22. ASSUME NEW o \in Sessions
       PROVE  Family1(o)'
  <2>1. CASE o = s
    <3>1. \A c \in K : Unjoined(c)'
      BY <1>6 DEF SpawnView, Unjoined
    <3>2. {c \in K : Unjoined(c)'} = K
      BY <3>1
    <3>3. OpsIn(stack', s) = {}
      BY <1>6 DEF SpawnView
    <3> QED
      BY <1>11, <1>12, <1>15, <2>1, <3>2, <3>3 DEF Family1, K
  <2>2. CASE o # s
    <3>1. ASSUME NEW c \in Kids(o)
          PROVE  c \in Sessions /\ c # s /\ c \notin K
      <4>1. o \in Tops
        BY <3>1 DEF Kids
      <4> QED
        BY <1>1, <2>2, <4>1, Data, WorldIs DEF K
    <3>2. ASSUME NEW c \in Kids(o)
          PROVE  OpsIn(stack', c) = OpsIn(stack, c) /\ prog'[c] = prog[c]
      BY <1>6, <1>12, <3>1 DEF SpawnView, SameView
    <3>3. \A c \in Kids(o) : Unjoined(c)' <=> Unjoined(c)
      BY <3>2 DEF Unjoined
    <3>4. {c \in Kids(o) : Unjoined(c)'} = {c \in Kids(o) : Unjoined(c)}
      BY <3>3
    <3>5. "spawn" \in OpsIn(stack', o) => "spawn" \in OpsIn(stack, o)
      BY <1>6, <2>2 DEF SpawnView, SameView
    <3>6. prog'[o] = prog[o]
      BY <1>12, <2>2
    <3>7. Family1(o)
      BY <1>14 DEF Families
    <3> QED
      BY <1>15, <3>2, <3>4, <3>5, <3>6, <3>7 DEF Family1
  <2> QED
    BY <2>1, <2>2
<1> QED
  BY <1>15, <1>17, <1>21, <1>22 DEF Good, Families

\* What the end of s finds.
LEMMA BuryAt ==
  ASSUME Good, NEW s, s = Head(stack).s, Top("bury")
  PROVE  /\ s \in Sessions /\ Below(Tail(stack), s) /\ At(s, {"bury"}, ClearsIn(Tail(stack), s))
         /\ prog[s].life \in {"done", "aborted"}
         /\ FlowOf(NoPending("off"), prog[s], kv[s].at, {}, FALSE)
         /\ ClearOf(NoPending("off"), prog[s], {}, ClearsIn(Tail(stack), s), {})
         /\ PartOf(NoPending("off")) /\ \A r \in Units : BackedOf(NoPending("off"), prog[s], held[s][r], 0, r)
<1> DEFINE b == Tail(stack)
           q == NoPending("off")
           o == prog[s]
<1>1. Below(b, s) /\ At(s, {"bury"}, ClearsIn(b, s))
  BY AtCall DEF Top, IsThread, ThreadOps
<1>2. s \in Sessions /\ pend[s] \in PendRec /\ o \in ProgRec
  BY <1>1 DEF At
<1>3. q \in PendRec /\ q.mode = "off" /\ q.step = Fetch /\ q.part = <<>> /\ q.own = Nothing /\ q.par = FALSE /\ q.due = FALSE /\ q.flag = FALSE
  BY NewPending DEF Modes
<1>4. FlowOf(pend[s], o, kv[s].at, {"bury"}, FALSE)
  BY <1>1 DEF At
<1> HIDE DEF b, q, o
<1>5. o.life \in {"done", "aborted"} /\ kv[s].at = "none" /\ o.nap = "no" /\ o.joins = 0
  BY <1>4 DEF FlowOf, OpFlow
<1>6. FlowOf(q, o, kv[s].at, {}, FALSE)
  BY <1>3, <1>5, FetchOf DEF FlowOf, Pausing
<1>7. ClearOf(q, o, {}, ClearsIn(b, s), {})
  <2>1. \A r \in ClearsIn(b, s) : Vacant(pend[s], {"bury"}, r)
    BY <1>1 DEF At
  <2>2. \A r \in ClearsIn(b, s) : Vacant(q, {}, r)
    BY <1>3, <2>1, FetchOf DEF Vacant
  <2> QED
    BY <1>5, <2>2 DEF ClearOf
<1>8. PartOf(q)
  <2>1. DOMAIN <<>> = {} /\ Nothing["slots"] = 0 /\ Nothing["mem"] = 0 /\ Nothing["cpu"] = 0
    BY BagOf, UnitsAre
  <2> QED
    BY <1>3, <2>1 DEF PartOf
<1>9. ASSUME NEW r \in Units
      PROVE  BackedOf(q, o, held[s][r], 0, r)
  <2>1. /\ Amount(pend[s].part, r) \in Nat /\ prog[s].holds[r] \in Nat /\ held[s][r] \in Nat
        /\ held[s][r] >= prog[s].holds[r] + Amount(pend[s].part, r)
    BY <1>1, Sizes
  <2>2. Amount(q.part, r) = 0 /\ q.own[r] = 0
    BY <1>3, AmountEmpty, BagOf
  <2> QED
    BY <2>1, <2>2 DEF BackedOf, o
<1> QED
  BY <1>1, <1>2, <1>5, <1>6, <1>7, <1>8, <1>9 DEF b, q, o

\* A session that is nobody's child ends.
LEMMA BuryTop ==
  ASSUME Good, NEW s, s = Head(stack).s, Top("bury"), s \in Tops,
         pend' = [pend EXCEPT ![s] = NoPending("off")], stack' = <<>> \o Tail(stack),
         UNCHANGED <<world, prog, held, lease, kv, aimd>>
  PROVE  Good'
<1> DEFINE b == Tail(stack)
           q == NoPending("off")
           a == <<>>
           ops == {}
           no == FALSE
<1>1. /\ s \in Sessions /\ Below(b, s)
      /\ FlowOf(q, prog[s], kv[s].at, ops, no) /\ ClearOf(q, prog[s], ops, ClearsIn(b, s), ops)
      /\ PartOf(q) /\ \A r \in Units : BackedOf(q, prog[s], held[s][r], 0, r)
  BY BuryAt
<1>2. q \in PendRec
  BY NewPending DEF Modes
<1>3. Volley(a, s, ops, no, ops) /\ no \in BOOLEAN /\ ops = {} /\ \A r : DueIn(a, s, r) = 0
  BY VolleyNone, ViewOfNone
<1>30. stack' = a \o b /\ pend' = [pend EXCEPT ![s] = q]
  OBVIOUS
<1> HIDE DEF b, q, a, no
<1>4. pend' \in [Sessions -> PendRec] /\ pend'[s] = q /\ \A o \in Sessions : o # s => pend'[o] = pend[o]
  BY <1>1, <1>2, <1>30, Data
<1>5. Pays(s, pend'[s], prog[s], held[s], kv[s].at, a, ops, no, ops, ClearsIn(b, s))
  <2>1. ClearOf(q, prog[s], ops, ops \cup ClearsIn(b, s), IF ops = {} THEN {} ELSE ClearsIn(b, s))
    BY <1>1, <1>3
  <2>2. \A r \in Units : BackedOf(q, prog[s], held[s][r], DueIn(a, s, r), r)
    BY <1>1, <1>3
  <2> QED
    BY <1>1, <1>4, <2>1, <2>2 DEF Pays
<1>6. SameFamily(s, ops)
  BY <1>3 DEF SameFamily
<1>7. lease' \in [Sessions -> Bags] /\ aimd' \in [cap : Nat, streak : Nat]
  BY Data
<1> HIDE DEF ops
<1> QED
  BY <1>1, <1>3, <1>30, <1>4, <1>5, <1>6, <1>7, PendStep, ZenonT(40)

\* A parent that joins: it waits for its children, whatever else is called.
Joins(p, s) ==
  /\ p \in Tops /\ p \in Sessions /\ p # s /\ s \in Kids(p) /\ IsFiniteSet(Kids(p)) /\ Kids(p) \subseteq Sessions
  /\ pend[p] \in PendRec /\ prog[p] \in ProgRec /\ prog[p].joins \in Nat /\ prog[p].joins > 0 /\ prog[p].fanned
  /\ pend[p].mode = "join" /\ prog[p].life = "active" /\ OpsIn(stack, p) = {} /\ ~GivesIn(stack, p)
  /\ \A r \in ClearsIn(stack, p) : Vacant(pend[p], {}, r)

LEMMA JoinsIs ==
  ASSUME Good, NEW s \in Sessions, IsKid(s), Unjoined(s)
  PROVE  Joins(Parent(s), s)
<1> DEFINE p == Parent(s)
           K == {c \in Kids(p) : Unjoined(c)}
<1>1. p \in Tops /\ p \in Sessions /\ s \in Kids(p) /\ p # s
  BY Data, ParentIs
<1> HIDE DEF p
<1>2. IsFiniteSet(Kids(p)) /\ Kids(p) \subseteq Sessions
  BY <1>1, Data, WorldIs
<1>3. IsFiniteSet(K) /\ s \in K
  BY <1>1, <1>2, FS_Subset
<1>4. Cardinality(K) \in Nat /\ Cardinality(K) # 0
  BY <1>3, FS_EmptySet, FS_CardinalityType
<1>5. prog[p].joins = Cardinality(K)
  BY <1>1 DEF Good, Families, Family1
<1>6. pend[p] \in PendRec /\ prog[p] \in ProgRec
  BY <1>1, Data
<1>7. /\ FlowOf(pend[p], prog[p], kv[p].at, OpsIn(stack, p), GivesIn(stack, p))
      /\ ClearOf(pend[p], prog[p], OpsIn(stack, p), ClearsIn(stack, p), LateIn(stack, p))
  BY <1>1 DEF Good, Flows, Flow
<1>8. prog[p].joins \in Nat /\ prog[p].joins > 0
  BY <1>4, <1>5
<1>9. pend[p].mode = "join" /\ prog[p].fanned
  BY <1>7, <1>8 DEF FlowOf
<1>10. OpsIn(stack, p) = {}
  <2>1. \A op \in OpsIn(stack, p) : prog[p].joins = 0
    BY <1>7 DEF FlowOf, OpFlow
  <2> QED
    BY <1>8, <2>1
<1>11. prog[p].life = "active" /\ ~GivesIn(stack, p)
  BY <1>7, <1>9, <1>10 DEF FlowOf
<1>12. \A r \in ClearsIn(stack, p) : Vacant(pend[p], {}, r)
  BY <1>7, <1>9, <1>10 DEF ClearOf, Idling
<1> QED
  BY <1>1, <1>2, <1>6, <1>8, <1>9, <1>10, <1>11, <1>12 DEF Joins, p

\* What the parent of a child that ended is left with.
Joined(p, a, ops) ==
  /\ prog' \in [Sessions -> ProgRec] /\ \A x \in Sessions : x # p => prog'[x] = prog[x]
  /\ prog'[p].life = prog[p].life /\ prog'[p].fanned = prog[p].fanned /\ prog'[p].holds = prog[p].holds
  /\ prog'[p].nap = prog[p].nap /\ prog'[p].joins = prog[p].joins - 1
  /\ Volley(a, p, ops, FALSE, {}) /\ \A r : DueIn(a, p, r) = 0
  /\ ops = IF prog[p].joins = 1 THEN {"chat"} ELSE {}

LEMMA ParentFlow ==
  ASSUME NEW x \in PendRec, NEW o \in ProgRec, NEW g, NEW at, NEW ops, NEW clears, NEW late,
         FlowOf(x, o, at, {}, FALSE), x.mode = "join", o.life = "active", o.joins \in Nat, o.joins > 0, o.fanned,
         \A r \in clears : Vacant(x, {}, r),
         g.life = o.life, g.fanned = o.fanned, g.holds = o.holds, g.nap = o.nap, g.joins = o.joins - 1,
         ops = IF o.joins = 1 THEN {"chat"} ELSE {}
  PROVE  FlowOf(x, g, at, ops, FALSE) /\ ClearOf(x, g, ops, clears, late)
<1>1. /\ o.nap = "no" /\ at \notin {"active", "decode"} /\ x.own = Nothing /\ ~x.due /\ x.part = <<>> /\ ~x.par /\ ~x.flag
      /\ x.step.loc = 0
  BY DEF FlowOf, Pausing
<1>2. ASSUME o.joins = 1
      PROVE  OpFlow(x, g, at, "chat")
  BY <1>1, <1>2 DEF OpFlow, Pausing
<1>3. \A op \in ops : OpFlow(x, g, at, op)
  BY <1>2
<1>4. g.joins > 0 \/ "chat" \in ops
  OBVIOUS
<1>5. FlowOf(x, g, at, ops, FALSE)
  BY <1>1, <1>3, <1>4 DEF FlowOf, Pausing
<1>6. \A r \in clears : Vacant(x, ops, r)
  BY DEF Vacant, EarlyOps
<1> QED
  BY <1>5, <1>6 DEF ClearOf

\* A child ends, and its parent may go on.
LEMMA BuryKid ==
  ASSUME Good, NEW s, s = Head(stack).s, Top("bury"), NEW p, Joins(p, s), \A t \in Sessions : s \in Kids(t) => t = p,
         NEW a, NEW ops, Joined(p, a, ops), stack' = a \o Tail(stack),
         pend' = [pend EXCEPT ![s] = NoPending("off")], UNCHANGED <<world, held, lease, kv, aimd>>
  PROVE  Good'
<1> DEFINE b == Tail(stack)
           q == NoPending("off")
           no == FALSE
           none == {}
<1>1. /\ s \in Sessions /\ Below(b, s)
      /\ FlowOf(q, prog[s], kv[s].at, none, no) /\ ClearOf(q, prog[s], none, ClearsIn(b, s), none)
      /\ PartOf(q) /\ \A r \in Units : BackedOf(q, prog[s], held[s][r], 0, r)
      /\ prog[s].life \in {"done", "aborted"}
  BY BuryAt
<1>2. q \in PendRec /\ stack' = a \o b /\ pend' = [pend EXCEPT ![s] = q]
  BY NewPending DEF Modes
<1>3. /\ p \in Tops /\ p \in Sessions /\ p # s /\ s \in Kids(p) /\ IsFiniteSet(Kids(p)) /\ Kids(p) \subseteq Sessions
      /\ pend[p] \in PendRec /\ prog[p] \in ProgRec /\ prog[p].joins \in Nat /\ prog[p].joins > 0 /\ prog[p].fanned
      /\ pend[p].mode = "join" /\ prog[p].life = "active" /\ OpsIn(stack, p) = {} /\ ~GivesIn(stack, p)
      /\ \A r \in ClearsIn(stack, p) : Vacant(pend[p], {}, r)
  BY DEF Joins
<1>4. /\ prog' \in [Sessions -> ProgRec] /\ \A x \in Sessions : x # p => prog'[x] = prog[x]
      /\ prog'[p].life = prog[p].life /\ prog'[p].fanned = prog[p].fanned /\ prog'[p].holds = prog[p].holds
      /\ prog'[p].nap = prog[p].nap /\ prog'[p].joins = prog[p].joins - 1
      /\ Volley(a, p, ops, no, none) /\ \A r : DueIn(a, p, r) = 0
      /\ ops = IF prog[p].joins = 1 THEN {"chat"} ELSE {}
  BY DEF Joined
<1>5. no \in BOOLEAN /\ ~no /\ none = {}
  OBVIOUS
<1>6. b \in Seq(Frame) /\ Orderly(b) /\ OpsIn(b, s) = {} /\ ~GivesIn(b, s) /\ \A o \in Sessions : o # s => SameView(b, stack, o)
  BY <1>1 DEF Below
<1> HIDE DEF b, q, no, none
<1>7. OpsIn(b, p) = {} /\ ~GivesIn(b, p) /\ ClearsIn(b, p) = ClearsIn(stack, p)
  BY <1>3, <1>6 DEF SameView
<1>8. After(a \o b, b, a, p, ops, no, none)
  BY <1>4, <1>5, <1>6, <1>7, Pushed
<1>9. \A o : o # p => SameView(a \o b, b, o)
  BY <1>4, <1>5, <1>6, PushedOther
<1>10. After(stack', b, a, p, ops, no, none) /\ \A o : o # p => SameView(stack', b, o)
  BY <1>2, <1>8, <1>9
<1>11. ASSUME NEW o \in Sessions, o # p, o # s
       PROVE  SameView(stack', stack, o)
  BY <1>6, <1>10, <1>11, SameViews
<1>12. /\ stack' \in Seq(Frame) /\ Orderly(stack') /\ OpsIn(stack', p) = ops /\ GivesIn(stack', p) = FALSE
       /\ ClearsIn(stack', p) = ClearsIn(stack, p) /\ \A r : DueIn(stack', p, r) = 0
  <2>1. GivesIn(stack', p) \in BOOLEAN
    BY DEF GivesIn
  <2> QED
    BY <1>4, <1>5, <1>7, <1>10, <2>1 DEF After
<1>13. /\ OpsIn(stack', s) = {} /\ GivesIn(stack', s) = FALSE /\ ClearsIn(stack', s) = ClearsIn(b, s) /\ LateIn(stack', s) = {}
       /\ \A r : DueIn(stack', s, r) = 0
  <2>1. SameView(stack', b, s)
    BY <1>3, <1>10
  <2>2. LateIn(b, s) = {} /\ \A r : DueIn(b, s, r) = 0
    BY <1>6, NoneLate, NothingDue
  <2>3. GivesIn(stack', s) \in BOOLEAN
    BY DEF GivesIn
  <2> QED
    BY <1>6, <2>1, <2>2, <2>3 DEF SameView
<1>14. /\ pend' \in [Sessions -> PendRec] /\ pend'[s] = q /\ \A x \in Sessions : x # s => pend'[x] = pend[x]
  BY <1>1, <1>2, Data
<1>15. Sessions' = Sessions /\ Frame' = Frame /\ \A o : (Kids(o))' = Kids(o)
  BY WorldKept
<1>16. Typed /\ Flows /\ Families
  BY DEF Good
<1>17. Typed'
  BY <1>4, <1>12, <1>14, <1>15, <1>16 DEF Typed
<1>18. ASSUME NEW o \in Sessions, o # p, o # s
       PROVE  Flow(o)' /\ Backed(o)'
  <2>1. Kept(o)
    BY <1>4, <1>14, <1>18 DEF Kept
  <2>2. pend'[o] \in PendRec
    BY <1>14
  <2>3. Flow(o) /\ Backed(o)
    BY <1>16 DEF Flows
  <2>4. SameView(stack', stack, o)
    BY <1>11, <1>18
  <2> QED
    BY <1>16, <2>1, <2>2, <2>3, <2>4, OtherKeeps
<1>19. Flow(s)' /\ Backed(s)'
  <2>1. pend'[s] = q /\ prog'[s] = prog[s] /\ kv' = kv /\ held' = held
    BY <1>1, <1>3, <1>4, <1>14
  <2>2. FlowOf(pend'[s], prog'[s], kv'[s].at, OpsIn(stack', s), GivesIn(stack', s))
    BY <1>1, <1>13, <2>1 DEF no, none
  <2>3. ClearOf(pend'[s], prog'[s], OpsIn(stack', s), ClearsIn(stack', s), LateIn(stack', s)) /\ PartOf(pend'[s])
    BY <1>1, <1>13, <2>1 DEF none
  <2>4. ASSUME NEW r \in Units
        PROVE  BackedOf(pend'[s], prog'[s], held'[s][r], DueIn(stack', s, r), r)
    <3>1. BackedOf(q, prog[s], held[s][r], 0, r) /\ DueIn(stack', s, r) = 0
      BY <1>1, <1>13
    <3> QED
      BY <2>1, <3>1
  <2> QED
    BY <2>2, <2>3, <2>4 DEF Flow, Backed
<1>20. Flow(p)' /\ Backed(p)'
  <2>1. pend'[p] = pend[p] /\ kv' = kv /\ held' = held
    BY <1>3, <1>14
  <2>2. Flow(p) /\ Backed(p)
    BY <1>3, <1>16 DEF Flows
  <2>3. FlowOf(pend[p], prog[p], kv[p].at, none, no)
    <3>1. no => GivesIn(stack, p)
      BY <1>5
    <3>2. FlowOf(pend[p], prog[p], kv[p].at, OpsIn(stack, p), GivesIn(stack, p))
      BY <2>2 DEF Flow
    <3>3. OpsIn(stack, p) = none
      BY <1>3, <1>5
    <3>4. FlowOf(pend[p], prog[p], kv[p].at, OpsIn(stack, p), no)
      BY <3>1, <3>2, FlowWeaker
    <3> QED
      BY <3>3, <3>4
  <2>4. FlowOf(pend[p], prog[p], kv[p].at, {}, FALSE)
    BY <2>3 DEF none, no
  <2>5. FlowOf(pend[p], prog'[p], kv[p].at, ops, FALSE) /\ ClearOf(pend[p], prog'[p], ops, ClearsIn(stack, p), LateIn(stack', p))
    BY <1>3, <1>4, <2>4, ParentFlow
  <2>6. FlowOf(pend'[p], prog'[p], kv'[p].at, OpsIn(stack', p), GivesIn(stack', p))
    BY <1>12, <2>1, <2>5
  <2>7. ClearOf(pend'[p], prog'[p], OpsIn(stack', p), ClearsIn(stack', p), LateIn(stack', p)) /\ PartOf(pend'[p])
    BY <1>12, <2>1, <2>2, <2>5 DEF Backed
  <2>8. ASSUME NEW r \in Units
        PROVE  BackedOf(pend'[p], prog'[p], held'[p][r], DueIn(stack', p, r), r)
    <3>1. BackedOf(pend[p], prog[p], held[p][r], DueIn(stack, p, r), r) /\ DueIn(stack', p, r) = 0
      BY <1>12, <2>2 DEF Backed
    <3>2. DueIn(stack, p, r) \in Nat /\ Amount(pend[p].part, r) \in Nat /\ held[p][r] \in Int
      <4>1. stack \in Seq(Frame)
        BY Data
      <4>2. DueIn(stack, p, r) \in Nat
        BY <4>1, DueOfConcat
      <4> QED
        BY <1>3, <4>2, Data, PendIs, AmountIs
    <3>3. BackedOf(pend[p], prog'[p], held[p][r], 0, r)
      BY <1>4, <3>1, <3>2 DEF BackedOf
    <3> QED
      BY <2>1, <3>1, <3>3
  <2> QED
    BY <2>6, <2>7, <2>8 DEF Flow, Backed
<1>21. Flows'
  BY <1>12, <1>15, <1>18, <1>19, <1>20 DEF Flows
<1>22. ASSUME NEW o \in Sessions, o # p
       PROVE  Family1(o)'
  <2>1. ASSUME NEW c \in Kids(o)
        PROVE  /\ c \in Sessions /\ OpsIn(stack', c) = OpsIn(stack, c) /\ prog'[c] = prog[c]
    <3>1. o \in Tops
      BY <2>1 DEF Kids
    <3>2. c \in Sessions /\ c \notin Tops
      BY <2>1, <3>1, Data, WorldIs
    <3>3. c # s /\ c # p
      BY <1>3, <1>22, <2>1, <3>2
    <3> QED
      BY <1>4, <1>11, <3>2, <3>3 DEF SameView
  <2>2. \A c \in Kids(o) : Unjoined(c)' <=> Unjoined(c)
    BY <2>1 DEF Unjoined
  <2>3. {c \in Kids(o) : Unjoined(c)'} = {c \in Kids(o) : Unjoined(c)}
    BY <2>2
  <2>4. "spawn" \in OpsIn(stack', o) => "spawn" \in OpsIn(stack, o)
    BY <1>11, <1>13, <1>22 DEF SameView
  <2>5. prog'[o] = prog[o] /\ Family1(o)
    BY <1>4, <1>16, <1>22 DEF Families
  <2> QED
    BY <1>15, <2>1, <2>3, <2>4, <2>5 DEF Family1
<1>23. Family1(p)'
  <2> DEFINE K == {c \in Kids(p) : Unjoined(c)}
             L == {c \in Kids(p) : Unjoined(c)'}
  <2>1. ASSUME NEW c \in Kids(p), c # s
        PROVE  Unjoined(c)' <=> Unjoined(c)
    <3>1. c \in Sessions /\ c \notin Tops
      BY <1>3, <2>1, Data, WorldIs
    <3>2. c # p
      BY <1>3, <3>1
    <3>3. OpsIn(stack', c) = OpsIn(stack, c) /\ prog'[c] = prog[c]
      BY <1>4, <1>11, <2>1, <3>1, <3>2 DEF SameView
    <3> QED
      BY <3>3 DEF Unjoined
  <2>2. ~(Unjoined(s)')
    <3>1. prog'[s] = prog[s]
      BY <1>1, <1>3, <1>4
    <3> QED
      BY <1>1, <1>13, <3>1 DEF Unjoined
  <2>3. Unjoined(s)
    <3>1. "bury" \in OpsIn(stack, s)
      <4>1. At(s, {"bury"}, ClearsIn(Tail(stack), s))
        BY BuryAt
      <4> QED
        BY <4>1 DEF At
    <3> QED
      BY <3>1 DEF Unjoined
  <2>4. L = K \ {s} /\ s \in K
    BY <1>3, <2>1, <2>2, <2>3
  <2>5. IsFiniteSet(K)
    BY <1>3, FS_Subset
  <2>6. prog[p].joins = Cardinality(K)
    BY <1>3, <1>16 DEF Families, Family1
  <2> HIDE DEF K
  <2>7. Cardinality(L) = Cardinality(K) - 1
    BY <2>4, <2>5, FS_RemoveElement
  <2>8. prog'[p].joins = Cardinality(L)
    BY <1>4, <2>6, <2>7
  <2>9. prog'[p].fanned /\ "spawn" \notin OpsIn(stack', p)
    BY <1>3, <1>4, <1>12
  <2> QED
    BY <1>15, <2>8, <2>9 DEF Family1
<1> QED
  BY <1>15, <1>17, <1>21, <1>22, <1>23 DEF Good, Families

\* _child_ended.
LEMMA BuryKeeps ==
  ASSUME Good, NEW s, s = Head(stack).s, Bury
  PROVE  Good'
<1>1. /\ Top("bury") /\ pend' = [pend EXCEPT ![s] = NoPending("off")] /\ UNCHANGED <<world, held, lease, kv, aimd>>
  BY DEF Bury
<1>2. s \in Sessions /\ "bury" \in OpsIn(stack, s)
  <2>1. s \in Sessions /\ At(s, {"bury"}, ClearsIn(Tail(stack), s))
    BY <1>1, BuryAt
  <2> QED
    BY <2>1 DEF At
<1>3. CASE IsKid(s)
  <2> DEFINE p == Parent(s)
             a == IF prog[p].joins = 1 THEN <<Call("chat", p)>> ELSE <<>>
             ops == IF prog[p].joins = 1 THEN {"chat"} ELSE {}
             g == [prog[p] EXCEPT !.joins = prog[p].joins - 1]
  <2>1. Unjoined(s)
    BY <1>2 DEF Unjoined
  <2>2. Joins(p, s) /\ \A t \in Sessions : s \in Kids(t) => t = p
    BY <1>2, <1>3, <2>1, JoinsIs, ParentIs, Data
  <2>3. p \in Sessions /\ prog[p].life = "active" /\ prog[p] \in ProgRec /\ prog[p].joins \in Nat
    BY <2>2 DEF Joins
  <2>4. prog' = [prog EXCEPT ![p] = g]
    <3>1. prog' = [prog EXCEPT ![p].joins = @ - 1]
      BY <1>3 DEF Bury
    <3> QED
      BY <2>3, <3>1, Data
  <2>5. stack' = a \o Tail(stack)
    <3>1. stack' = (IF prog[p].joins = 1 /\ Active(p) THEN <<Call("chat", p)>> ELSE <<>>) \o Tail(stack)
      BY <1>3 DEF Bury, Run
    <3> QED
      BY <2>3, <3>1, SMTT(100) DEF Active
  <2> HIDE DEF p, g
  <2>6. /\ g \in ProgRec /\ g.life = prog[p].life /\ g.fanned = prog[p].fanned /\ g.holds = prog[p].holds
        /\ g.nap = prog[p].nap /\ g.joins = prog[p].joins - 1
    <3> DEFINE n == prog[p].joins - 1
    <3>1. n \in Int
      BY <2>3
    <3>2. g = [prog[p] EXCEPT !.joins = n]
      BY DEF g
    <3> HIDE DEF n
    <3>3. g \in ProgRec
      BY <2>3, <3>1, <3>2 DEF ProgRec
    <3> QED
      BY <2>3, <3>2, <3>3 DEF ProgRec, n
  <2>7. Volley(a, p, ops, FALSE, {}) /\ \A r : DueIn(a, p, r) = 0
    <3>1. CASE prog[p].joins = 1
      <4>1. Volley(<<Call("chat", p)>>, p, {"chat"}, FALSE, {})
        BY <2>3, VolleyCall DEF ThreadOps
      <4>2. <<Call("chat", p)>> \in Seq(Frame) /\ ~GivesIn(<<Call("chat", p)>>, p)
        BY <4>1 DEF Volley
      <4>3. \A r : DueIn(<<Call("chat", p)>>, p, r) = 0
        BY <4>2, NothingDue
      <4> QED
        BY <3>1, <4>1, <4>3
    <3>2. CASE prog[p].joins # 1
      BY <3>2, VolleyNone, ViewOfNone
    <3> QED
      BY <3>1, <3>2
  <2>8. Joined(p, a, ops)
    <3>1. prog' \in [Sessions -> ProgRec] /\ prog'[p] = g /\ \A x \in Sessions : x # p => prog'[x] = prog[x]
      BY <2>3, <2>4, <2>6, Data
    <3> QED
      BY <2>6, <2>7, <3>1 DEF Joined
  <2> HIDE DEF a, ops
  <2> QED
    BY <1>1, <2>2, <2>5, <2>8, BuryKid
<1>4. CASE ~IsKid(s)
  <2>1. s \in Tops /\ prog' = prog /\ stack' = <<>> \o Tail(stack)
    BY <1>2, <1>4 DEF Bury, Run, IsKid
  <2> QED
    BY <1>1, <2>1, BuryTop
<1> QED
  BY <1>3, <1>4

-----------------------------------------------------------------------------
(* The invariant: it holds at first, and every step keeps it.              *)

LEMMA NewProgramIs ==
  ASSUME NEW ctx \in Nat
  PROVE  /\ NewProgram(ctx) \in ProgRec /\ NewProgram(ctx).life = "off" /\ NewProgram(ctx).joins = 0
         /\ NewProgram(ctx).fanned = FALSE /\ NewProgram(ctx).holds = Nothing /\ NewProgram(ctx).nap = "no"
<1>1. Nothing \in Bags
  BY BagOf
<1>2. 0 \in Nat /\ 0 \in Int /\ FALSE \in BOOLEAN
  OBVIOUS
<1> HIDE DEF Nothing
<1> QED
  BY <1>1, <1>2 DEF NewProgram, ProgRec

LEMMA Begins ==
  ASSUME Init
  PROVE  Good
<1>1. /\ world \in Worlds /\ prog = [s \in Sessions |-> NewProgram(world.ctx)] /\ pend = [s \in Sessions |-> NoPending("off")]
      /\ held = [s \in Sessions |-> Nothing] /\ lease = [s \in Sessions |-> Nothing] /\ kv = [s \in Sessions |-> NoEntry]
      /\ stack = <<>> /\ aimd = [cap |-> world.cap["ext"], streak |-> 0]
  BY DEF Init
<1>2. world.ctx \in Nat /\ world.cap["ext"] \in Nat
  <2>1. IsWorld(world)
    BY <1>1, WorldIs
  <2> QED
    BY <2>1, UnitsAre DEF IsWorld
<1> DEFINE p == NoPending("off")
           g == NewProgram(world.ctx)
           no == FALSE
           none == {}
<1>3. p \in PendRec /\ p.mode = "off" /\ p.step = Fetch /\ p.part = <<>> /\ p.own = Nothing /\ p.par = FALSE /\ p.due = FALSE /\ p.flag = FALSE
  BY NewPending DEF Modes
<1>4. g \in ProgRec /\ g.life = "off" /\ g.joins = 0 /\ g.fanned = FALSE /\ g.holds = Nothing /\ g.nap = "no"
  BY <1>2, NewProgramIs
<1>5. NoEntry \in Cache /\ NoEntry.at = "none"
  BY NoEntryIs DEF NoEntries
<1>6. Nothing \in Bags /\ Nothing \in [Units -> Int]
  BY BagOf DEF Bags
<1> HIDE DEF p, g
<1>7. \A s \in Sessions : prog[s] = g /\ pend[s] = p /\ held[s] = Nothing /\ kv[s] = NoEntry
  BY <1>1 DEF p, g
<1>8. Typed
  <2>1. <<>> \in Seq(Frame)
    OBVIOUS
  <2>2. [cap |-> world.cap["ext"], streak |-> 0] \in [cap : Nat, streak : Nat]
    BY <1>2
  <2>3. /\ [s \in Sessions |-> g] \in [Sessions -> ProgRec] /\ [s \in Sessions |-> p] \in [Sessions -> PendRec]
        /\ [s \in Sessions |-> NoEntry] \in [Sessions -> Cache] /\ [s \in Sessions |-> Nothing] \in [Sessions -> Bags]
        /\ [s \in Sessions |-> Nothing] \in [Sessions -> [Units -> Int]]
    BY <1>3, <1>4, <1>5, <1>6
  <2> QED
    BY <1>1, <2>1, <2>2, <2>3 DEF Typed, p, g
<1>9. ASSUME NEW s \in Sessions
      PROVE  /\ Orderly(stack) /\ OpsIn(stack, s) = {} /\ GivesIn(stack, s) = FALSE /\ ClearsIn(stack, s) = {} /\ LateIn(stack, s) = {}
             /\ \A r : DueIn(stack, s, r) = 0
  <2>1. GivesIn(stack, s) \in BOOLEAN
    BY DEF GivesIn
  <2> QED
    BY <1>1, <2>1, ViewOfNone
<1>10. ASSUME NEW s \in Sessions
       PROVE  Flow(s) /\ Backed(s)
  <2>1. FlowOf(p, g, "none", {}, FALSE)
    BY <1>3, <1>4, FetchOf DEF FlowOf, Pausing
  <2>2. ClearOf(p, g, {}, {}, {})
    BY DEF ClearOf
  <2>3. PartOf(p)
    <3>1. DOMAIN <<>> = {} /\ Nothing["slots"] = 0 /\ Nothing["mem"] = 0 /\ Nothing["cpu"] = 0
      BY BagOf, UnitsAre
    <3> QED
      BY <1>3, <3>1 DEF PartOf
  <2>4. ASSUME NEW r \in Units
        PROVE  BackedOf(pend[s], prog[s], held[s][r], DueIn(stack, s, r), r)
    <3>1. Amount(p.part, r) = 0 /\ p.own[r] = 0 /\ g.holds[r] = 0 /\ held[s][r] = 0 /\ DueIn(stack, s, r) = 0
      BY <1>3, <1>4, <1>7, <1>9, AmountEmpty, BagOf
    <3>2. BackedOf(p, g, 0, 0, r)
      BY <3>1 DEF BackedOf
    <3> QED
      BY <1>7, <3>1, <3>2
  <2>5. FlowOf(pend[s], prog[s], kv[s].at, OpsIn(stack, s), GivesIn(stack, s))
    BY <1>5, <1>7, <1>9, <2>1
  <2>6. ClearOf(pend[s], prog[s], OpsIn(stack, s), ClearsIn(stack, s), LateIn(stack, s)) /\ PartOf(pend[s])
    BY <1>7, <1>9, <2>2, <2>3
  <2> QED
    BY <2>4, <2>5, <2>6 DEF Flow, Backed
<1>11. Flows
  <2>1. Orderly(stack)
    BY <1>1, ViewOfNone
  <2> QED
    BY <1>10, <2>1 DEF Flows
<1>12. ASSUME NEW s \in Sessions
       PROVE  Family1(s)
  <2>1. \A c \in Kids(s) : c \in Sessions
    BY <1>1, WorldIs DEF Kids
  <2>2. {c \in Kids(s) : Unjoined(c)} = {}
    BY <1>4, <1>7, <1>9, <2>1 DEF Unjoined
  <2>3. Cardinality({c \in Kids(s) : Unjoined(c)}) = 0
    BY <2>2, FS_EmptySet
  <2> QED
    BY <1>4, <1>7, <1>9, <2>1, <2>3 DEF Family1
<1> QED
  BY <1>8, <1>11, <1>12 DEF Good, Families

LEMMA StutterKeeps ==
  ASSUME Good, UNCHANGED vars
  PROVE  Good'
<1>1. /\ world' = world /\ prog' = prog /\ pend' = pend /\ held' = held /\ lease' = lease /\ kv' = kv
      /\ stack' = stack /\ aimd' = aimd
  BY DEF vars
<1>2. \A o \in Sessions : SameView(stack', stack, o)
  BY <1>1, ViewItself
<1>3. stack' \in Seq(Frame) /\ Orderly(stack')
  BY <1>1, Data DEF Good, Flows
<1>4. \A o \in Sessions : prog'[o] = [prog[o] EXCEPT !.park = prog'[o].park]
  <2> SUFFICES ASSUME NEW o \in Sessions PROVE prog'[o] = [prog[o] EXCEPT !.park = prog'[o].park]
    OBVIOUS
  <2>1. prog[o] \in ProgRec /\ prog'[o] = prog[o]
    BY <1>1, Data
  <2> QED
    BY <2>1 DEF ProgRec
<1> QED
  BY <1>1, <1>2, <1>3, <1>4, Data, ViewsKeep

LEMMA TryRunKeeps ==
  ASSUME Good, NEW s, s = Head(stack).s, TryRun
  PROVE  Good'
<1>1. Top("try")
  BY DEF TryRun
<1>2. \/ TakeNext(s) \/ TakeNothing(s) \/ TakeSpare(s) \/ AwaitSpare(s) \/ AwaitCache(s)
      \/ Pause(s) \/ Refuse(s) \/ Throttle(s) \/ Start(s)
  BY DEF TryRun
<1>3. CASE TakeNext(s)
  BY <1>1, <1>3, TakeNextKeeps
<1>4. CASE TakeNothing(s) \/ AwaitSpare(s) \/ AwaitCache(s)
  BY <1>1, <1>4, AwaitKeeps
<1>5. CASE TakeSpare(s)
  BY <1>1, <1>5, TakeSpareKeeps
<1>6. CASE Pause(s)
  BY <1>1, <1>6, PauseKeeps
<1>7. CASE Refuse(s)
  BY <1>1, <1>7, TryFails
<1>8. CASE Throttle(s)
  BY <1>1, <1>8, ThrottleKeeps
<1>9. CASE Start(s)
  BY <1>1, <1>9, StartKeeps
<1> QED
  BY <1>2, <1>3, <1>4, <1>5, <1>6, <1>7, <1>8, <1>9

LEMMA ReactKeeps ==
  ASSUME Good, NEW s, s = Head(stack).s, React
  PROVE  Good'
<1>1. Top("react") /\ (Retry(s) \/ Abort(s) \/ Replan(s))
  BY DEF React
<1>2. CASE Retry(s)
  BY <1>1, <1>2, RetryKeeps
<1>3. CASE Abort(s)
  BY <1>1, <1>3, AbortKeeps
<1>4. CASE Replan(s)
  BY <1>1, <1>4, ReplanKeeps
<1> QED
  BY <1>1, <1>2, <1>3, <1>4

LEMMA WithinKeeps ==
  ASSUME Good, Within
  PROVE  Good'
<1> SUFFICES ASSUME NEW s, s = Head(stack).s PROVE Good'
  OBVIOUS
<1>1. CASE Release
  BY <1>1, ReleaseKeeps
<1>2. CASE WakeGang
  BY <1>2, WakeGangKeeps
<1>3. CASE WakeBest
  BY <1>3, WakeBestKeeps
<1>4. CASE TryRun
  BY <1>4, TryRunKeeps
<1>5. CASE ReadyChat
  BY <1>5, ReadyChatKeeps
<1>6. CASE React
  BY <1>6, ReactKeeps
<1>7. CASE Gone
  <2>1. Top("gone")
    BY <1>7 DEF Gone
  <2> QED
    BY <1>7, <2>1, GoneAt
<1>8. CASE Bury
  BY <1>8, BuryKeeps
<1>9. CASE ChatReturns
  BY <1>9, ChatReturnsKeeps
<1>10. CASE Proceed
  BY <1>10, ProceedKeeps
<1>11. CASE EndRequest
  BY <1>11, EndRequestKeeps
<1>12. CASE Spawn
  BY <1>12, SpawnKeeps
<1>13. CASE StartKid
  <2>1. Top("start")
    BY <1>13 DEF StartKid
  <2> QED
    BY <1>13, <2>1, StartKidAt
<1>14. CASE JoinPark
  BY <1>14, JoinParkKeeps
<1>15. CASE ToolReturns
  BY <1>15, ToolReturnsKeeps
<1>16. CASE FetchReturns
  BY <1>16, FetchReturnsKeeps
<1>17. CASE CallCounted
  BY <1>17, CallCountedKeeps
<1>18. CASE Throttled
  BY <1>18, ThrottledKeeps
<1> QED
  BY <1>1, <1>2, <1>3, <1>4, <1>5, <1>6, <1>7, <1>8, <1>9, <1>10, <1>11, <1>12, <1>13, <1>14, <1>15, <1>16, <1>17, <1>18
  DEF Within

LEMMA EventKeeps ==
  ASSUME Good, NEW s \in Sessions, Event(s)
  PROVE  Good'
<1>0. UNCHANGED <<world, aimd>>
  BY DEF Event
<1>1. CASE Arrive(s)
  BY <1>0, <1>1, ArriveAt
<1>2. CASE RequestStart(s)
  BY <1>0, <1>2, RequestStartKeeps
<1>3. CASE DueTry(s)
  BY <1>0, <1>3, DueTryKeeps
<1>4. CASE DecodeStart(s)
  BY <1>0, <1>4, DecodeStartKeeps
<1>5. CASE ChatEnd(s)
  BY <1>0, <1>5, ChatEndAt
<1>6. CASE ToolEnd(s)
  BY <1>0, <1>6, ToolEndKeeps
<1>7. CASE ToolLimit(s)
  BY <1>0, <1>7, ToolLimitKeeps
<1>8. CASE FetchEnd(s)
  BY <1>0, <1>8, FetchEndKeeps
<1>9. CASE DeadlockBreak(s) \/ WaitTimeout(s)
  BY <1>0, <1>9, TimeoutKeeps
<1>10. CASE Park(s) \/ ParkIdle(s)
  BY <1>0, <1>10, ParkKeeps
<1>11. CASE Prewarm(s)
  BY <1>0, <1>11, PrewarmKeeps
<1>12. CASE Reannotate(s)
  BY <1>0, <1>12, ReannotateKeeps
<1> QED
  BY <1>1, <1>2, <1>3, <1>4, <1>5, <1>6, <1>7, <1>8, <1>9, <1>10, <1>11, <1>12 DEF Event, Scheduled

LEMMA NextKeeps ==
  ASSUME Good, [Next]_vars
  PROVE  Good'
<1>1. CASE Within
  BY <1>1, WithinKeeps
<1>2. CASE \E s \in Sessions : Event(s) \/ (Expire(s) /\ UNCHANGED <<world, aimd>>)
  <2>1. PICK s \in Sessions : Event(s) \/ (Expire(s) /\ UNCHANGED <<world, aimd>>)
    BY <1>2
  <2>2. CASE Event(s)
    BY <2>2, EventKeeps
  <2>3. CASE Expire(s) /\ UNCHANGED <<world, aimd>>
    BY <2>3, ExpireKeeps
  <2> QED
    BY <2>1, <2>2, <2>3
<1>3. CASE UNCHANGED vars
  BY <1>3, StutterKeeps
<1> QED
  BY <1>1, <1>2, <1>3 DEF Next

LEMMA AlwaysGood == Spec => []Good
BY Begins, NextKeeps, PTL DEF Spec

-----------------------------------------------------------------------------
(* What the invariant says between two events, and of the types.           *)

\* What is held is what is backed, and so never less than nothing.
LEMMA HeldIsNat ==
  ASSUME Good, NEW s \in Sessions, NEW r \in Units
  PROVE  held[s][r] \in Nat
<1>1. pend[s] \in PendRec /\ prog[s] \in ProgRec /\ held[s][r] \in Int
  BY Data
<1>2. pend[s].part \in Parts /\ prog[s].holds[r] \in Nat
  BY <1>1, PendIs, ProgIs DEF Bags
<1>3. Amount(pend[s].part, r) \in Nat
  BY <1>2, AmountIs
<1>4. held[s][r] >= prog[s].holds[r] + Amount(pend[s].part, r)
  BY DEF Good, Flows, Backed, BackedOf
<1> QED
  BY <1>1, <1>2, <1>3, <1>4

\* Nobody joins more children than there are.
LEMMA JoinsBounded ==
  ASSUME Good, NEW p \in Sessions
  PROVE  prog[p].joins \in 0 .. Cardinality(Kids(p))
<1>1. IsFiniteSet(Kids(p))
  BY WorldIs, FS_EmptySet, Data DEF Kids
<1> DEFINE U == {c \in Kids(p) : Unjoined(c)}
<1>2. U \subseteq Kids(p)
  OBVIOUS
<1>3. prog[p].joins = Cardinality(U)
  BY DEF Good, Families, Family1
<1> HIDE DEF U
<1>4. IsFiniteSet(U) /\ Cardinality(U) <= Cardinality(Kids(p))
  BY <1>1, <1>2, FS_Subset
<1>5. Cardinality(U) \in Nat /\ Cardinality(Kids(p)) \in Nat
  BY <1>1, <1>4, FS_CardinalityType
<1> QED
  BY <1>3, <1>4, <1>5

LEMMA GoodIsTyped == Good => TypeOK
<1> SUFFICES ASSUME Good PROVE TypeOK
  OBVIOUS
<1>1. /\ prog \in [Sessions -> ProgRec] /\ pend \in [Sessions -> PendRec] /\ kv \in [Sessions -> Cache]
      /\ held \in [Sessions -> [Units -> Int]] /\ lease \in [Sessions -> Bags]
  BY Data
<1>2. held \in [Sessions -> Bags]
  BY <1>1, HeldIsNat DEF Bags
<1>3. ASSUME NEW s \in Sessions
      PROVE  /\ prog[s].life \in {"off", "active", "done", "aborted"} /\ prog[s].holds \in Bags
             /\ prog[s].joins \in 0..Cardinality(Kids(s)) /\ prog[s].park \in Nat
             /\ pend[s].mode \in Modes /\ pend[s].own \in Bags /\ pend[s].tries \in 0..SdkRetries
             /\ kv[s].at \in {"none", "idle", "active", "decode"} /\ kv[s].tok \in Nat
  <2>1. prog[s] \in ProgRec /\ pend[s] \in PendRec /\ kv[s] \in Cache
    BY <1>1
  <2>2. prog[s].life \in {"off", "active", "done", "aborted"} /\ prog[s].holds \in Bags /\ prog[s].park \in Nat
    BY <2>1, ProgIs
  <2>3. pend[s].mode \in Modes /\ pend[s].own \in Bags /\ pend[s].tries \in 0..SdkRetries
    BY <2>1, PendIs
  <2>4. kv[s].at \in {"none", "idle", "active", "decode"} /\ kv[s].tok \in Nat
    BY <2>1 DEF Cache
  <2> QED
    BY <2>2, <2>3, <2>4, JoinsBounded
<1> QED
  BY <1>1, <1>2, <1>3 DEF TypeOK

\* Every variable of the engine has its type, for any scenario: no hold and
\* no count falls below zero, however the calls of the handlers nest.
THEOREM EngineTyped == Spec => []TypeOK
BY AlwaysGood, GoodIsTyped, PTL

LEMMA GoodJoins == Good => JoinCounts
<1> SUFFICES ASSUME Good, AtRest, NEW p \in Tops
             PROVE  /\ prog[p].joins = Cardinality({c \in Kids(p) : Active(c)})
                    /\ Active(p) => (pend[p].mode = "join" <=> prog[p].joins > 0)
  BY DEF JoinCounts
<1>1. p \in Sessions
  BY WorldIs, Data
<1>2. stack = <<>>
  BY DEF AtRest
<1>3. \A c : OpsIn(stack, c) = {}
  BY <1>2, ViewOfNone
<1>4. \A c : Unjoined(c) <=> Active(c)
  BY <1>3 DEF Unjoined, Active
<1>5. prog[p].joins = Cardinality({c \in Kids(p) : Unjoined(c)})
  BY <1>1 DEF Good, Families, Family1
<1>6. {c \in Kids(p) : Unjoined(c)} = {c \in Kids(p) : Active(c)}
  BY <1>4
<1>7. FlowOf(pend[p], prog[p], kv[p].at, OpsIn(stack, p), GivesIn(stack, p))
  BY <1>1 DEF Good, Flows, Flow
<1>8. pend[p].mode = "join" <=> prog[p].joins > 0
  BY <1>3, <1>7 DEF FlowOf
<1> QED
  BY <1>5, <1>6, <1>8

\* Between two events a parent joins exactly its children that still run, and
\* waits for them as long as there are any (join_left, _child_ended).
THEOREM JoinsCounted == Spec => []JoinCounts
BY AlwaysGood, GoodJoins, PTL
=============================================================================
