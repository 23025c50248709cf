--------------------------- MODULE Engine_room_proofs ---------------------------
(***************************************************************************)
(* Proofs about the engine's capacity, on top of Good (Engine_proofs).     *)
(*                                                                         *)
(* Capacious: no handler, however its calls nest, hands out more than      *)
(* there is.  Roomy: as long as a request is in prefill, all that are      *)
(* leave the reserve free, which is what a chat is admitted with, so that  *)
(* one that begins to answer finds room by evicting the others: RoomIsMade *)
(* shows that the requests that may go are always enough.  Exact: between  *)
(* events, what a resource counts is what sessions will give back, as long *)
(* as no limit ever pauses a group that has taken its sandboxes.           *)
(* Answered: at any point, the units of a resource are being offered, or   *)
(* all that wait for them want more than is free.  Detected: at any point, *)
(* sessions that only each other could help include one that is flagged.   *)
(***************************************************************************)
EXTENDS Engine_proofs

-----------------------------------------------------------------------------
(* Capacities: what the sessions hold in all is at most what there is.     *)

Capacious ==
  /\ \A r \in Units : Used(r) <= world.cap[r]
  /\ aimd.cap <= world.cap["ext"]
  /\ Occupied(kv) <= world.size

LEMMA CapIs ==
  ASSUME Good
  PROVE  /\ \A r \in Units : world.cap[r] \in Nat /\ world.cap[r] > 0
         /\ world.size \in Nat /\ "ext" \in Units /\ aimd.cap \in Nat
         /\ \A s \in Sessions : world.gb[s] \in Nat
<1>1. IsWorld(world)
  BY Data, WorldIs
<1>2. aimd.cap \in Nat
  BY Data
<1> QED
  BY <1>1, <1>2, UnitsAre DEF IsWorld, Sessions

LEMMA UsedIs ==
  ASSUME Good, NEW S \in SUBSET Sessions, NEW r \in Units
  PROVE  HeldBy(S, r) \in Nat
<1> DEFINE f == [s \in Sessions |-> held[s][r]]
<1>1. IsFiniteSet(S)
  BY Data, SessionsFinite, FS_Subset
<1>2. \A x \in S : f[x] \in Nat
  BY HeldIsNat
<1> HIDE DEF f
<1>3. SumFunctionOnSet(f, S) \in Nat
  BY <1>1, <1>2, SumNat
<1> QED
  BY <1>3 DEF HeldBy, f

\* One session's hold of one resource changes.
LEMMA UsedChanges ==
  ASSUME Good, world' = world, NEW r \in Units, NEW s \in Sessions, held' \in [Sessions -> [Units -> Int]],
         \A o \in Sessions : o # s => held'[o][r] = held[o][r]
  PROVE  (Used(r))' = Used(r) + (held'[s][r] - held[s][r])
<1> DEFINE f == [o \in Sessions |-> held[o][r]]
           g == [o \in Sessions |-> held'[o][r]]
<1>1. IsFiniteSet(Sessions) /\ Sessions' = Sessions
  BY Data, SessionsFinite, WorldKept
<1>2. Numbers(f, Sessions) /\ Numbers(g, Sessions) /\ SameBut(f, g, Sessions, s)
  BY Data DEF Numbers, SameBut
<1>3. f[s] = held[s][r] /\ g[s] = held'[s][r]
  OBVIOUS
<1>4. Used(r) = SumFunctionOnSet(f, Sessions)
  BY DEF Used, HeldBy
<1>5. (Used(r))' = SumFunctionOnSet(g, Sessions)
  BY <1>1 DEF Used, HeldBy
<1> HIDE DEF f, g
<1>6. SumFunctionOnSet(g, Sessions) = SumFunctionOnSet(f, Sessions) + (g[s] - f[s])
  BY <1>1, <1>2, SumChange
<1> QED
  BY <1>3, <1>4, <1>5, <1>6

LEMMA UsedSame ==
  ASSUME world' = world, held' = held, NEW r
  PROVE  (Used(r))' = Used(r)
BY WorldKept DEF Used, HeldBy

LEMMA ReservedIs ==
  ASSUME Good, NEW r \in Units, NEW s \in Sessions
  PROVE  Reserved(r, s) \in Nat
<1> DEFINE f == [o \in Sessions |-> Max({0, lease[o][r] - HeldBy(Family(o), r)})]
           S == {o \in Sessions : s \notin Family(o)}
<1>1. IsFiniteSet(S)
  BY Data, SessionsFinite, FS_Subset
<1>2. \A x \in S : f[x] \in Nat
  <2> SUFFICES ASSUME NEW x \in Sessions PROVE f[x] \in Nat
    OBVIOUS
  <2>1. Family(x) \in SUBSET Sessions
    BY WorldIs, Data DEF Family, Kids
  <2>2. HeldBy(Family(x), r) \in Nat
    BY <2>1, UsedIs
  <2>3. lease[x][r] \in Nat
    BY Data DEF Bags
  <2> DEFINE n == lease[x][r] - HeldBy(Family(x), r)
  <2>4. n \in Int
    BY <2>2, <2>3
  <2>5. f[x] = Max({0, n})
    OBVIOUS
  <2> HIDE DEF n, f
  <2>6. Max({0, n}) \in Nat
    BY <2>4, MaxIs
  <2> QED
    BY <2>5, <2>6
<1> HIDE DEF f, S
<1>3. SumFunctionOnSet(f, S) \in Nat
  BY <1>1, <1>2, SumNat
<1> QED
  BY <1>3 DEF Reserved, f, S

\* What fits leaves the rest within the capacity.
LEMMA FreeIs ==
  ASSUME Good, Capacious, NEW r \in Units, NEW s \in Sessions, NEW n \in Nat, Free(r, s) >= n
  PROVE  Used(r) + n <= world.cap[r]
<1>1. Reserved(r, s) \in Nat /\ Used(r) \in Nat
  BY ReservedIs, UsedIs DEF Used
<1>2. CapOf(r) \in Nat /\ CapOf(r) <= world.cap[r]
  BY CapIs DEF CapOf, Capacious
<1>3. world.cap[r] \in Nat
  BY CapIs
<1> QED
  BY <1>1, <1>2, <1>3 DEF Free

LEMMA FitsIs ==
  ASSUME Good, Capacious, NEW r \in Units, NEW s \in Sessions, NEW n \in Nat, Fits(s, r, n)
  PROVE  Used(r) + n <= world.cap[r]
<1>1. r # "kv"
  BY UnitsAre
<1>2. Free(r, s) >= n
  BY <1>1 DEF Fits
<1> QED
  BY <1>2, FreeIs

\* A unit is taken.
LEMMA TakeFits ==
  ASSUME Good, Capacious, NEW s \in Sessions, NEW t \in Units, NEW n \in Nat, Fits(s, t, n), Take(s, t, n)
  PROVE  \A r \in Units : (Used(r))' <= (world.cap[r])'
<1>1. Used(t) + n <= world.cap[t]
  BY FitsIs
<1>2. held \in [Sessions -> [Units -> Int]] /\ held[s] \in [Units -> Int]
  BY Data
<1> DEFINE row == [held[s] EXCEPT ![t] = held[s][t] + n]
<1>3. held' = [held EXCEPT ![s][t] = held[s][t] + n] /\ world' = world
  BY DEF Take
<1>4. held' = [held EXCEPT ![s] = row]
  BY <1>2, <1>3
<1>5. row \in [Units -> Int] /\ \A r \in Units : row[r] = IF r = t THEN held[s][r] + n ELSE held[s][r]
  BY <1>2, RowAdd
<1> HIDE DEF row
<1>6. held' \in [Sessions -> [Units -> Int]] /\ held'[s] = row /\ \A o \in Sessions : o # s => held'[o] = held[o]
  BY <1>2, <1>4, <1>5
<1> SUFFICES ASSUME NEW r \in Units PROVE (Used(r))' <= world.cap[r]
  BY <1>3
<1>7. (Used(r))' = Used(r) + (held'[s][r] - held[s][r])
  BY <1>3, <1>6, UsedChanges
<1>8. Used(r) \in Nat /\ held[s][r] \in Int /\ Used(r) <= world.cap[r] /\ world.cap[r] \in Nat
  BY <1>2, UsedIs, CapIs DEF Used, Capacious
<1>9. held'[s][r] = IF r = t THEN held[s][r] + n ELSE held[s][r]
  BY <1>5, <1>6
<1> QED
  BY <1>1, <1>7, <1>8, <1>9

\* What is taken for one session by other means.
LEMMA RowFits ==
  ASSUME Good, Capacious, world' = world, NEW s \in Sessions, held' \in [Sessions -> [Units -> Int]],
         \A o \in Sessions : o # s => held'[o] = held[o],
         \A r \in Units : held'[s][r] <= held[s][r] \/ Used(r) + (held'[s][r] - held[s][r]) <= world.cap[r]
  PROVE  \A r \in Units : (Used(r))' <= (world.cap[r])'
<1> SUFFICES ASSUME NEW r \in Units PROVE (Used(r))' <= world.cap[r]
  OBVIOUS
<1>1. (Used(r))' = Used(r) + (held'[s][r] - held[s][r])
  BY UsedChanges
<1>2. Used(r) \in Nat /\ held[s][r] \in Int /\ held'[s][r] \in Int /\ Used(r) <= world.cap[r] /\ world.cap[r] \in Nat
  BY Data, UsedIs, CapIs DEF Used, Capacious
<1> QED
  BY <1>1, <1>2

LEMMA ReleaseFits ==
  ASSUME Good, Capacious, Release
  PROVE  \A r \in Units : (Used(r))' <= (world.cap[r])'
<1> SUFFICES ASSUME NEW s, s = Head(stack).s, NEW r, r = Head(stack).r, NEW b, b = Tail(stack)
             PROVE  \A u \in Units : (Used(u))' <= (world.cap[u])'
  OBVIOUS
<1> DEFINE f == Head(stack)
           h == held[s]
           amt == IF f.amt = All THEN h[r] ELSE f.amt
<1>1. s \in Sessions /\ f.amt \in Nat
  BY GiveTop DEF Release, GiveView
<1>2. held \in [Sessions -> [Units -> Int]] /\ h \in [Units -> Int]
  BY <1>1, Data
<1>3. held' = [held EXCEPT ![s][r] = h[r] - amt] /\ world' = world
  BY DEF Release
<1>4. r \in Units => h[r] \in Nat /\ amt \in Nat
  BY <1>1, HeldIsNat
<1> DEFINE v == h[r] - amt
           w == [h EXCEPT ![r] = v]
<1>5. held' = [held EXCEPT ![s] = w]
  BY <1>1, <1>2, <1>3
<1>6. r \in Units => v \in Int /\ v <= h[r]
  BY <1>4
<1> HIDE DEF v, amt, h
<1>7. \A u \in Units : w[u] = IF u = r THEN v ELSE h[u]
  BY <1>2
<1>8. w = [u \in Units |-> w[u]]
  BY <1>2
<1>9. \A u \in Units : h[u] \in Int
  BY <1>2
<1> HIDE DEF w
<1>10. \A u \in Units : w[u] \in Int /\ w[u] <= h[u]
  BY <1>6, <1>7, <1>9
<1>11. w \in [Units -> Int]
  BY <1>8, <1>10
<1>12. held' \in [Sessions -> [Units -> Int]] /\ held'[s] = w /\ \A o \in Sessions : o # s => held'[o] = held[o]
  BY <1>1, <1>2, <1>5, <1>11
<1>13. \A u \in Units : held'[s][u] <= held[s][u]
  BY <1>10, <1>12 DEF h
<1> QED
  BY <1>1, <1>3, <1>12, <1>13, RowFits

LEMMA PrewarmFits ==
  ASSUME Good, Capacious, NEW s \in Sessions, world' = world, Prewarm(s)
  PROVE  \A r \in Units : (Used(r))' <= (world.cap[r])'
<1>1. CASE held' = held
  BY <1>1, UsedSame DEF Capacious
<1>2. CASE Free("mem", s) >= world.gb[s] /\ Free("cpu", s) >= 1
           /\ held' = [held EXCEPT ![s] = [held[s] EXCEPT !["mem"] = held[s]["mem"] + world.gb[s],
                                                          !["cpu"] = held[s]["cpu"] + 1]]
  <2>1. "mem" \in Units /\ "cpu" \in Units
    BY UnitsAre
  <2>2. world.gb[s] \in Nat /\ 1 \in Nat
    BY CapIs
  <2>3. Used("mem") + world.gb[s] <= world.cap["mem"] /\ Used("cpu") + 1 <= world.cap["cpu"]
    BY <1>2, <2>1, <2>2, FreeIs
  <2>4. held \in [Sessions -> [Units -> Int]] /\ held[s] \in [Units -> Int]
    BY Data
  <2> DEFINE m == held[s]["mem"] + world.gb[s]
             c == held[s]["cpu"] + 1
             w == [held[s] EXCEPT !["mem"] = m, !["cpu"] = c]
  <2>5. m \in Int /\ c \in Int /\ m - held[s]["mem"] = world.gb[s] /\ c - held[s]["cpu"] = 1
    BY <2>1, <2>2, <2>4
  <2>6. held' = [held EXCEPT ![s] = w]
    BY <1>2
  <2> HIDE DEF m, c
  <2>7. w \in [Units -> Int] /\ \A u \in Units : w[u] = IF u = "cpu" THEN c ELSE IF u = "mem" THEN m ELSE held[s][u]
    BY <2>4, <2>5
  <2> HIDE DEF w
  <2>8. held' \in [Sessions -> [Units -> Int]] /\ held'[s] = w /\ \A o \in Sessions : o # s => held'[o] = held[o]
    BY <2>4, <2>6, <2>7
  <2>9. ASSUME NEW r \in Units
        PROVE  held'[s][r] <= held[s][r] \/ Used(r) + (held'[s][r] - held[s][r]) <= world.cap[r]
    <3>1. CASE r = "cpu"
      BY <2>3, <2>5, <2>7, <2>8, <3>1
    <3>2. CASE r = "mem"
      BY <2>3, <2>5, <2>7, <2>8, <3>2
    <3>3. CASE r # "cpu" /\ r # "mem"
      BY <2>4, <2>7, <2>8, <3>3
    <3> QED
      BY <3>1, <3>2, <3>3
  <2> QED
    BY <2>8, <2>9, RowFits
<1> QED
  BY <1>1, <1>2 DEF Prewarm

-----------------------------------------------------------------------------
(* The tokens in the cache.                                                *)

LEMMA TokensAre ==
  ASSUME NEW D, IsFiniteSet(D), NEW cache \in [D -> Cache]
  PROVE  Occupied(cache) \in Nat /\ Occupied(cache) = SumFunctionOnSet([x \in D |-> cache[x].tok], D)
<1> DEFINE f == [x \in D |-> cache[x].tok]
<1>1. \A x \in D : f[x] \in Nat
  BY DEF Cache
<1>2. Occupied(cache) = SumFunctionOnSet(f, D)
  BY DEF Occupied, Tokens
<1> HIDE DEF f
<1>3. SumFunctionOnSet(f, D) \in Nat
  BY <1>1, SumNat
<1> QED
  BY <1>2, <1>3 DEF f

LEMMA TokensFall ==
  ASSUME NEW D, IsFiniteSet(D), NEW old \in [D -> Cache], NEW new \in [D -> Cache], \A x \in D : new[x].tok <= old[x].tok
  PROVE  Occupied(new) <= Occupied(old)
<1> DEFINE f == [x \in D |-> new[x].tok]
           g == [x \in D |-> old[x].tok]
<1>1. \A x \in D : f[x] \in Int /\ g[x] \in Int /\ f[x] <= g[x]
  BY DEF Cache
<1>2. Occupied(new) = SumFunctionOnSet(f, D) /\ Occupied(old) = SumFunctionOnSet(g, D)
  BY TokensAre
<1> HIDE DEF f, g
<1>3. SumFunctionOnSet(f, D) <= SumFunctionOnSet(g, D)
  BY <1>1, SumAtMost
<1> QED
  BY <1>2, <1>3

LEMMA TokensChange ==
  ASSUME NEW D, IsFiniteSet(D), NEW old \in [D -> Cache], NEW s \in D, NEW e \in Cache
  PROVE  Occupied([old EXCEPT ![s] = e]) = Occupied(old) + (e.tok - old[s].tok)
<1> DEFINE new == [old EXCEPT ![s] = e]
           f == [x \in D |-> old[x].tok]
           g == [x \in D |-> new[x].tok]
<1>1. new \in [D -> Cache] /\ new[s] = e /\ \A x \in D : x # s => new[x] = old[x]
  OBVIOUS
<1> HIDE DEF new
<1>2. Numbers(f, D) /\ Numbers(g, D) /\ SameBut(f, g, D, s)
  BY <1>1 DEF Numbers, SameBut, Cache
<1>3. Occupied(old) = SumFunctionOnSet(f, D) /\ Occupied(new) = SumFunctionOnSet(g, D)
  BY <1>1, TokensAre
<1>4. f[s] = old[s].tok /\ g[s] = e.tok
  BY <1>1
<1> HIDE DEF f, g
<1>5. SumFunctionOnSet(g, D) = SumFunctionOnSet(f, D) + (g[s] - f[s])
  BY <1>2, SumChange
<1> QED
  BY <1>3, <1>4, <1>5 DEF new

LEMMA KvIs ==
  ASSUME Good
  PROVE  IsFiniteSet(Sessions) /\ kv \in [Sessions -> Cache] /\ world.size \in Nat /\ Occupied(kv) \in Nat
<1>1. IsFiniteSet(Sessions) /\ kv \in [Sessions -> Cache] /\ world.size \in Nat
  BY Data, SessionsFinite, CapIs
<1> QED
  BY <1>1, TokensAre

LEMMA DropFits ==
  ASSUME Good, Capacious, NEW s \in Sessions, kv' = Drop(kv, s)
  PROVE  Occupied(kv') <= world.size
<1> DEFINE new == Drop(kv, s)
<1>1. IsFiniteSet(Sessions) /\ kv \in [Sessions -> Cache] /\ world.size \in Nat /\ Occupied(kv) \in Nat
  BY KvIs
<1>2. new \in [Sessions -> Cache] /\ \A x \in Sessions : new[x] = IF x = s THEN NoEntry ELSE kv[x]
  BY <1>1, NoEntryIs DEF NoEntries, Drop
<1> HIDE DEF new
<1>3. \A x \in Sessions : new[x].tok <= kv[x].tok
  BY <1>1, <1>2, NoEntryIs DEF NoEntries, Cache
<1>4. Occupied(new) <= Occupied(kv) /\ Occupied(new) \in Nat
  BY <1>1, <1>2, <1>3, TokensFall, TokensAre
<1>5. Occupied(kv) <= world.size
  BY DEF Capacious
<1> QED
  BY <1>1, <1>4, <1>5 DEF new

LEMMA ChatEndFits ==
  ASSUME Good, Capacious, NEW s \in Sessions, ChatEnd(s)
  PROVE  Occupied(kv') <= world.size
<1> DEFINE new == [kv EXCEPT ![s].at = "idle"]
<1>1. IsFiniteSet(Sessions) /\ kv \in [Sessions -> Cache] /\ world.size \in Nat /\ Occupied(kv) \in Nat
  BY KvIs
<1>2. kv' = new
  BY DEF ChatEnd, EndDecode
<1>3. \A x \in Sessions : new[x] = IF x = s THEN [kv[x] EXCEPT !.at = "idle"] ELSE kv[x]
  BY <1>1
<1>4. new = [x \in Sessions |-> new[x]]
  BY <1>1
<1> HIDE DEF new
<1>5. \A x \in Sessions : new[x] \in Cache /\ new[x].tok = kv[x].tok
  BY <1>1, <1>3 DEF Cache
<1>6. new \in [Sessions -> Cache]
  BY <1>4, <1>5
<1>7. \A x \in Sessions : new[x].tok <= kv[x].tok
  BY <1>1, <1>5 DEF Cache
<1>8. Occupied(new) <= Occupied(kv) /\ Occupied(new) \in Nat
  BY <1>1, <1>6, <1>7, TokensFall, TokensAre
<1>9. Occupied(kv) <= world.size
  BY DEF Capacious
<1> QED
  BY <1>1, <1>2, <1>8, <1>9

\* A request that enters a cache k in which there is room for what it adds.
LEMMA EntersFits ==
  ASSUME NEW D, IsFiniteSet(D), NEW k \in [D -> Cache], NEW size \in Nat, NEW s \in D, NEW more \in Nat, NEW at, NEW old,
         k[s] = Entry(old, k[s].tok), size - Occupied(k) >= more, Entry(at, k[s].tok + more) \in Cache
  PROVE  Occupied([k EXCEPT ![s] = Entry(at, k[s].tok + more)]) <= size
<1> DEFINE e == Entry(at, k[s].tok + more)
<1>1. e \in Cache /\ e.tok = k[s].tok + more
  BY DEF Entry
<1>2. k[s].tok \in Nat /\ Occupied(k) \in Nat
  BY TokensAre DEF Cache
<1> HIDE DEF e
<1>3. Occupied([k EXCEPT ![s] = e]) = Occupied(k) + (e.tok - k[s].tok)
  BY <1>1, TokensChange
<1>4. Occupied([k EXCEPT ![s] = e]) <= size
  BY <1>1, <1>2, <1>3
<1> QED
  BY <1>4 DEF e

LEMMA DecodeStartFits ==
  ASSUME Good, NEW s \in Sessions, DecodeStart(s)
  PROVE  Occupied(kv') <= world.size
<1> DEFINE out == pend[s].step.out
           size == world.size
<1>1. IsFiniteSet(Sessions) /\ kv \in [Sessions -> Cache] /\ size \in Nat /\ kv[s] \in Cache
  BY KvIs
<1>2. out \in Nat
  BY Data, PendIs, StepIs
<1>3. kv[s].at = "active"
  <2>1. FlowOf(pend[s], prog[s], kv[s].at, OpsIn(stack, s), GivesIn(stack, s))
    BY DEF Good, Flows, Flow
  <2>2. pend[s].mode = "prefill"
    BY DEF DecodeStart
  <2> QED
    BY <2>1, <2>2 DEF FlowOf
<1>4. PICK o \in BeginDecode(kv, size, s, out) : kv' = o.cache
  BY DEF DecodeStart
<1> HIDE DEF out, size
<1>5. PICK k \in [Sessions -> Cache] :
        /\ o.cache = [k EXCEPT ![s] = Entry("decode", kv[s].tok + out)] /\ size - Occupied(k) >= out
        /\ Evicts(k, kv, o.victims)
  BY <1>1, <1>4, DecodeBegins, ZenonT(40)
<1>6. k[s] = kv[s]
  BY <1>1, <1>3, <1>5 DEF Evicts, In
<1>7. kv[s] = Entry("active", kv[s].tok) /\ Entry("decode", kv[s].tok + out) \in Cache
  BY <1>1, <1>2, <1>3 DEF Cache, Entry
<1> DEFINE new == [k EXCEPT ![s] = Entry("decode", k[s].tok + out)]
<1>8. kv' = new
  BY <1>4, <1>5, <1>6
<1>9. k[s] = Entry("active", k[s].tok) /\ Entry("decode", k[s].tok + out) \in Cache /\ size - Occupied(k) >= out
  BY <1>5, <1>6, <1>7
<1>10. Occupied(new) <= size
  BY <1>1, <1>2, <1>5, <1>9, EntersFits
<1> QED
  BY <1>8, <1>10 DEF size

\* What a request that starts leaves in the cache.
LEMMA PrefillFits ==
  ASSUME NEW D, IsFiniteSet(D), NEW cache \in [D -> Cache], NEW size \in Nat, NEW s \in D, NEW context \in Nat,
         NEW o \in BeginPrefill(cache, size, s, context)
  PROVE  Occupied(o.cache) <= size
<1>1. PrefillBegun(o, D, cache, size, s, context)
  BY PrefillBegins
<1>2. PICK k \in [D -> Cache], reused \in Nat, miss \in Nat :
        /\ miss + reused = context
        /\ k[s] = Entry("active", reused) /\ size - Occupied(k) >= miss
        /\ o.cache = [k EXCEPT ![s] = Entry("active", context)]
  BY <1>1 DEF PrefillBegun
<1>3. k[s].tok = reused /\ Entry("active", context) \in Cache
  BY <1>2 DEF Entry, Cache
<1>4. k[s].tok + miss = context
  BY <1>2, <1>3
<1>5. /\ k[s] = Entry("active", k[s].tok) /\ size - Occupied(k) >= miss
      /\ Entry("active", k[s].tok + miss) \in Cache
  BY <1>2, <1>3, <1>4
<1>6. Occupied([k EXCEPT ![s] = Entry("active", k[s].tok + miss)]) <= size
  BY <1>2, <1>5, EntersFits
<1> QED
  BY <1>2, <1>4, <1>6

LEMMA StartFits ==
  ASSUME Good, Capacious, NEW s \in Sessions, Start(s)
  PROVE  Occupied(kv') <= world.size
<1>1. CASE IsChat(s)
  <2> DEFINE size == world.size
             context == ContextOf(s)
  <2>1. IsFiniteSet(Sessions) /\ kv \in [Sessions -> Cache] /\ size \in Nat
    BY KvIs
  <2>2. context \in Nat
    BY Data, ProgIs DEF ContextOf
  <2>3. PICK o \in BeginPrefill(kv, size, s, context) : kv' = o.cache
    BY <1>1 DEF Start
  <2> HIDE DEF size, context
  <2>4. Occupied(o.cache) <= size
    BY <2>1, <2>2, <2>3, PrefillFits
  <2> QED
    BY <2>3, <2>4 DEF size
<1>2. CASE ~IsChat(s)
  <2>1. kv' = kv
    BY <1>2 DEF Start
  <2> QED
    BY <2>1 DEF Capacious
<1> QED
  BY <1>1, <1>2

\* A step that takes no unit.
LEMMA NothingTaken ==
  ASSUME Capacious, world' = world, held' = held, aimd' = aimd \/ aimd'.cap <= world.cap["ext"],
         kv' = kv \/ Occupied(kv') <= world.size
  PROVE  Capacious'
<1>1. \A r \in Units : (Used(r))' = Used(r)
  BY UsedSame
<1>2. \A r \in Units : (Used(r))' <= (world.cap[r])'
  BY <1>1 DEF Capacious
<1>3. aimd'.cap <= world'.cap["ext"]
  BY DEF Capacious
<1>4. Occupied(kv') <= world'.size
  BY DEF Capacious
<1> QED
  BY <1>2, <1>3, <1>4 DEF Capacious

LEMMA SomeTaken ==
  ASSUME Capacious, world' = world, aimd' = aimd, kv' = kv, \A r \in Units : (Used(r))' <= (world.cap[r])'
  PROVE  Capacious'
BY DEF Capacious

LEMMA TryRunFits ==
  ASSUME Good, Capacious, NEW s, s = Head(stack).s, TryRun
  PROVE  Capacious'
<1>1. /\ Top("try")
      /\ \/ TakeNext(s) \/ TakeNothing(s) \/ TakeSpare(s) \/ AwaitSpare(s) \/ AwaitCache(s)
         \/ Pause(s) \/ Refuse(s) \/ Throttle(s) \/ Start(s)
  BY DEF TryRun
<1>2. s \in Sessions
  <2>1. stack # <<>> /\ stack \in Seq(Frame)
    BY <1>1, Data DEF Top
  <2> QED
    BY <2>1, HeadIs, FrameIs
<1>3. CASE TakeNext(s)
  <2> DEFINE t == First(Missing(s))
             n == Needs(s, t)
  <2>2. t \in Units /\ n \in Nat
    BY <1>2, <1>3, MissingIs DEF TakeNext
  <2>3. Fits(s, t, n) /\ Take(s, t, n)
    BY <1>3 DEF TakeNext
  <2> HIDE DEF t, n
  <2>4. \A r \in Units : (Used(r))' <= (world.cap[r])'
    BY <1>2, <2>2, <2>3, TakeFits
  <2>5. world' = world /\ kv' = kv /\ aimd' = aimd
    BY <2>3 DEF Take
  <2> QED
    BY <2>4, <2>5, SomeTaken
<1>4. CASE TakeSpare(s)
  <2> DEFINE n == Extra(pend[s].step)
  <2>1. Fits(s, "cpu", n) /\ Take(s, "cpu", n)
    BY <1>4 DEF TakeSpare, SpareFits
  <2>2. n \in Nat
    BY <1>2, Data, PendIs, ExtraIs
  <2>3. "cpu" \in Units
    BY UnitsAre
  <2> HIDE DEF n
  <2>4. \A r \in Units : (Used(r))' <= (world.cap[r])'
    BY <1>2, <2>1, <2>2, <2>3, TakeFits
  <2>5. world' = world /\ kv' = kv /\ aimd' = aimd
    BY <2>1 DEF Take
  <2> QED
    BY <2>4, <2>5, SomeTaken
<1>5. CASE TakeNothing(s) \/ AwaitSpare(s) \/ AwaitCache(s) \/ Pause(s) \/ Refuse(s)
  <2>1. world' = world /\ held' = held /\ aimd' = aimd /\ kv' = kv
    BY <1>5 DEF TakeNothing, AwaitSpare, AwaitCache, Pause, Refuse, WaitOrFail, Wait, Fail
  <2> QED
    BY <2>1, NothingTaken, SMTT(100)
<1>6. CASE Throttle(s)
  <2> DEFINE x == aimd.cap \div 2
             c == world.cap["ext"]
  <2>1. world' = world /\ held' = held /\ kv' = kv /\ aimd'.cap = Max({1, x})
    BY <1>6 DEF Throttle, Fewer
  <2>2. aimd.cap \in Nat /\ c \in Nat /\ c > 0 /\ aimd.cap <= c
    BY CapIs DEF Capacious
  <2>3. x \in Nat /\ x <= aimd.cap
    BY <2>2
  <2> HIDE DEF x
  <2>4. Max({1, x}) \in Nat /\ (Max({1, x}) = 1 \/ Max({1, x}) = x)
    BY <2>3, MaxOne
  <2>5. aimd'.cap <= c
    BY <2>1, <2>2, <2>3, <2>4
  <2> QED
    BY <2>1, <2>5, NothingTaken
<1>7. CASE Start(s)
  <2>1. world' = world /\ held' = held /\ aimd' = aimd
    BY <1>7 DEF Start
  <2> QED
    BY <1>2, <1>7, <2>1, StartFits, NothingTaken
<1> QED
  BY <1>1, <1>3, <1>4, <1>5, <1>6, <1>7

LEMMA WithinFits ==
  ASSUME Good, Capacious, Within
  PROVE  Capacious'
<1> SUFFICES ASSUME NEW s, s = Head(stack).s PROVE Capacious'
  OBVIOUS
<1>1. CASE Release
  <2>1. world' = world /\ aimd' = aimd /\ kv' = kv
    BY <1>1 DEF Release
  <2> QED
    BY <1>1, <2>1, ReleaseFits, SomeTaken
<1>2. CASE TryRun
  BY <1>2, TryRunFits
<1>3. CASE Gone
  <2>1. world' = world /\ aimd' = aimd /\ held' = held /\ kv' = Drop(kv, s)
    BY <1>3 DEF Gone
  <2>2. s \in Sessions
    <3>1. stack # <<>> /\ stack \in Seq(Frame)
      BY <1>3, Data DEF Gone, Top
    <3> QED
      BY <3>1, HeadIs, FrameIs
  <2> QED
    BY <2>1, <2>2, DropFits, NothingTaken
<1>4. CASE CallCounted
  <2> DEFINE c == world.cap["ext"]
  <2>1. world' = world /\ held' = held /\ kv' = kv /\ aimd' = More
    BY <1>4 DEF CallCounted
  <2>2. aimd \in [cap : Nat, streak : Nat] /\ aimd.cap \in Nat /\ c \in Nat /\ aimd.cap <= c
    BY Data, CapIs DEF Capacious
  <2> DEFINE m == aimd.cap + 1
  <2>3. Min({c, m}) <= c
    <3>1. c \in Int /\ m \in Int
      BY <2>2
    <3> HIDE DEF c, m
    <3> QED
      BY <3>1, MinIs
  <2>4. More.cap = aimd.cap \/ More.cap = Min({c, m})
    BY <2>2 DEF More
  <2>5. aimd'.cap <= c
    BY <2>1, <2>2, <2>3, <2>4
  <2> QED
    BY <2>1, <2>5, NothingTaken
<1>5. CASE WakeGang \/ WakeBest
  <2>1. world' = world /\ held' = held /\ aimd' = aimd /\ kv' = kv
    BY <1>5, ZenonT(40) DEF WakeGang, WakeBest, Unwait
  <2> QED
    BY <2>1, NothingTaken
<1>6. CASE ReadyChat \/ React \/ Proceed \/ FetchReturns
  <2>1. world' = world /\ held' = held /\ aimd' = aimd /\ kv' = kv
    BY <1>6, ZenonT(40) DEF ReadyChat, React, Proceed, FetchReturns, Retry, Abort, Replan, Ready, EndSession
  <2> QED
    BY <2>1, NothingTaken
<1>7. CASE Bury \/ ChatReturns \/ EndRequest \/ Spawn
  <2>1. world' = world /\ held' = held /\ aimd' = aimd /\ kv' = kv
    BY <1>7 DEF Bury, ChatReturns, ChatOver, EndRequest, EndSession, Spawn
  <2> QED
    BY <2>1, NothingTaken
<1>8. CASE StartKid \/ JoinPark \/ ToolReturns \/ Throttled
  <2>1. world' = world /\ held' = held /\ aimd' = aimd /\ kv' = kv
    BY <1>8 DEF StartKid, JoinPark, ToolReturns, Throttled, Fail
  <2> QED
    BY <2>1, NothingTaken
<1> QED
  BY <1>1, <1>2, <1>3, <1>4, <1>5, <1>6, <1>7, <1>8 DEF Within

LEMMA EventFits ==
  ASSUME Good, Capacious, NEW s \in Sessions, Event(s)
  PROVE  Capacious'
<1>0. world' = world /\ aimd' = aimd
  BY DEF Event
<1>1. CASE Prewarm(s)
  <2>1. kv' = kv
    BY <1>1 DEF Prewarm
  <2> QED
    BY <1>0, <1>1, <2>1, PrewarmFits, SomeTaken
<1>2. CASE DecodeStart(s)
  <2>1. held' = held
    BY <1>2 DEF DecodeStart
  <2> QED
    BY <1>0, <1>2, <2>1, DecodeStartFits, NothingTaken
<1>3. CASE ChatEnd(s)
  <2>1. held' = held
    BY <1>3 DEF ChatEnd
  <2> QED
    BY <1>0, <1>3, <2>1, ChatEndFits, NothingTaken
<1>4. CASE DeadlockBreak(s) \/ WaitTimeout(s)
  <2>1. held' = held /\ (kv' = kv \/ kv' = Drop(kv, s))
    BY <1>4 DEF DeadlockBreak, WaitTimeout, TimeoutStep
  <2> QED
    BY <1>0, <2>1, DropFits, NothingTaken
<1>5. CASE Arrive(s) \/ RequestStart(s) \/ DueTry(s)
  <2>1. held' = held /\ kv' = kv
    BY <1>5 DEF Arrive, RequestStart, DueTry
  <2> QED
    BY <1>0, <2>1, NothingTaken
<1>6. CASE ToolEnd(s) \/ ToolLimit(s) \/ FetchEnd(s)
  <2>1. held' = held /\ kv' = kv
    BY <1>6 DEF ToolEnd, ToolLimit, FetchEnd, StepEnd
  <2> QED
    BY <1>0, <2>1, NothingTaken
<1>7. CASE Park(s) \/ ParkIdle(s) \/ Reannotate(s)
  <2>1. held' = held /\ kv' = kv
    BY <1>7 DEF Park, ParkIdle, Reannotate
  <2> QED
    BY <1>0, <2>1, NothingTaken
<1> QED
  BY <1>1, <1>2, <1>3, <1>4, <1>5, <1>6, <1>7 DEF Event, Scheduled

LEMMA CapacityBegins ==
  ASSUME Init
  PROVE  Capacious
<1>1. Good
  BY Begins
<1>2. IsFiniteSet(Sessions)
  BY <1>1, Data, SessionsFinite
<1>3. \A r \in Units : Used(r) <= world.cap[r]
  <2> SUFFICES ASSUME NEW r \in Units PROVE Used(r) <= world.cap[r]
    OBVIOUS
  <2> DEFINE f == [s \in Sessions |-> held[s][r]]
  <2>1. \A x \in Sessions : f[x] = 0
    BY BagOf DEF Init
  <2> HIDE DEF f
  <2>2. SumFunctionOnSet(f, Sessions) = 0
    BY <1>2, <2>1, SumZero
  <2>3. Used(r) = 0
    BY <2>2 DEF Used, HeldBy, f
  <2> QED
    BY <1>1, <2>3, CapIs
<1>4. aimd.cap <= world.cap["ext"]
  BY <1>1, CapIs DEF Init
<1>5. Occupied(kv) <= world.size
  <2> DEFINE f == [x \in Sessions |-> kv[x].tok]
  <2>1. \A x \in Sessions : f[x] = 0
    BY NoEntryIs DEF Init, NoEntries
  <2>2. Occupied(kv) = SumFunctionOnSet(f, Sessions)
    BY <1>1, <1>2, Data, TokensAre
  <2> HIDE DEF f
  <2>3. SumFunctionOnSet(f, Sessions) = 0
    BY <1>2, <2>1, SumZero
  <2> QED
    BY <1>1, <2>2, <2>3, CapIs
<1> QED
  BY <1>3, <1>4, <1>5 DEF Capacious

LEMMA CapacityNext ==
  ASSUME Good, Capacious, [Next]_vars
  PROVE  Capacious'
<1>1. CASE Within
  BY <1>1, WithinFits
<1>2. CASE \E s \in Sessions : Event(s) \/ (Expire(s) /\ UNCHANGED <<world, aimd>>)
  <2>1. PICK s \in Sessions : Event(s) \/ (Expire(s) /\ UNCHANGED <<world, aimd>>)
    BY <1>2
  <2>2. CASE Event(s)
    BY <2>2, EventFits
  <2>3. CASE Expire(s) /\ UNCHANGED <<world, aimd>>
    <3>1. world' = world /\ held' = held /\ aimd' = aimd /\ kv' = kv
      BY <2>3 DEF Expire
    <3> QED
      BY <3>1, NothingTaken
  <2> QED
    BY <2>1, <2>2, <2>3
<1>3. CASE UNCHANGED vars
  <2>1. world' = world /\ held' = held /\ aimd' = aimd /\ kv' = kv
    BY <1>3 DEF vars
  <2> QED
    BY <2>1, NothingTaken
<1> QED
  BY <1>1, <1>2, <1>3 DEF Next

\* However the calls of the handlers nest, the sessions together never hold
\* more of a resource than there is, a gate that learns never allows itself
\* more, and the cache never keeps more tokens than fit, whatever is evicted
\* and whatever the answers are (check_accounting, _make_room).
THEOREM CapacityIsKept == Spec => []CapacityKept
<1>1. Capacious => CapacityKept
  BY DEF Capacious, CapacityKept
<1>2. Spec => []Capacious
  BY AlwaysGood, CapacityBegins, CapacityNext, PTL DEF Spec
<1> QED
  BY <1>1, <1>2, PTL

-----------------------------------------------------------------------------
(* Room for answers: what the requests that are being prefilled keep.      *)

Weights(cache, D) == [x \in D |-> IF cache[x].at = "active" THEN cache[x].tok ELSE 0]
Weight(cache, D) == SumFunctionOnSet(Weights(cache, D), D)

\* A sum over a part of a set, as one over the whole.
LEMMA SumMask ==
  ASSUME NEW S, IsFiniteSet(S), NEW P, NEW f, NEW g, \A x \in S : f[x] \in Int /\ g[x] = IF x \in P THEN f[x] ELSE 0
  PROVE  SumFunctionOnSet(g, S) = SumFunctionOnSet(f, S \cap P)
<1> DEFINE F == {T \in SUBSET S : SumFunctionOnSet(g, T) = SumFunctionOnSet(f, T \cap P)}
<1>1. {} \in F
  <2>1. {} \cap P = {}
    OBVIOUS
  <2> QED
    BY <2>1, SumEmpty
<1>2. ASSUME NEW T \in SUBSET S, NEW x \in S \ T, T \in F
      PROVE  T \cup {x} \in F
  <2>1. IsFiniteSet(T) /\ IsFiniteSet(T \cap P)
    BY FS_Subset
  <2>2. \A y \in T \cup {x} : g[y] \in Int
    OBVIOUS
  <2>3. SumFunctionOnSet(g, T \cup {x}) = g[x] + SumFunctionOnSet(g, T)
    BY <2>1, <2>2, SumAdd
  <2>4. SumFunctionOnSet(g, T) = SumFunctionOnSet(f, T \cap P)
    BY <1>2
  <2>5. SumFunctionOnSet(f, T \cap P) \in Int
    BY <2>1, SumType
  <2>6. CASE x \in P
    <3>1. (T \cup {x}) \cap P = (T \cap P) \cup {x}
      BY <2>6
    <3>2. x \notin T \cap P /\ \A y \in (T \cap P) \cup {x} : f[y] \in Int
      BY <1>2
    <3>3. SumFunctionOnSet(f, (T \cap P) \cup {x}) = f[x] + SumFunctionOnSet(f, T \cap P)
      BY <2>1, <3>2, SumAdd
    <3> QED
      BY <2>3, <2>4, <2>6, <3>1, <3>3
  <2>7. CASE x \notin P
    <3>1. (T \cup {x}) \cap P = T \cap P
      BY <2>7
    <3>2. g[x] = 0
      BY <1>2, <2>7
    <3>3. SumFunctionOnSet(g, T \cup {x}) = SumFunctionOnSet(f, T \cap P)
      BY <2>3, <2>4, <2>5, <3>2
    <3>4. SumFunctionOnSet(f, (T \cup {x}) \cap P) = SumFunctionOnSet(f, T \cap P)
      BY <3>1
    <3>5. T \cup {x} \in SUBSET S
      BY <1>2
    <3> QED
      BY <3>3, <3>4, <3>5
  <2> QED
    BY <2>6, <2>7
<1> HIDE DEF F
<1>3. SUBSET S \subseteq F
  BY <1>1, <1>2, SetInduction
<1>4. S \in F /\ S \cap P = S \cap P
  BY <1>3
<1> QED
  BY <1>4 DEF F

\* Whatever has to go, there is a choice of entries that go.
LEMMA SomeGo ==
  ASSUME NEW D, IsFiniteSet(D), NEW cache \in [D -> Cache], NEW size \in Nat, NEW need \in Nat, NEW places
  PROVE  \E S \in Removed(cache, size, need, places) :
           size - Occupied(Freed(cache, S)) >= need \/ S = In(cache, places)
<1> DEFINE enough(S) == size - Occupied(Freed(cache, S)) >= need
           cands == In(cache, places)
           least == {S \in SUBSET cands : enough(S) /\ \E s \in S : ~enough(S \ {s})}
<1>1. Removed(cache, size, need, places) =
        IF enough({}) THEN {{}} ELSE IF ~enough(cands) THEN {cands} ELSE least
  BY DEF Removed
<1>2. IsFiniteSet(cands)
  <2>1. cands \subseteq D
    BY DEF In
  <2> QED
    BY <2>1, FS_Subset
<1> SUFFICES \E S \in (IF enough({}) THEN {{}} ELSE IF ~enough(cands) THEN {cands} ELSE least) : enough(S) \/ S = cands
  BY <1>1
<1> HIDE DEF enough, cands
<1>3. CASE enough({})
  BY <1>3
<1>4. CASE ~enough({}) /\ ~enough(cands)
  BY <1>4
<1>5. CASE ~enough({}) /\ enough(cands)
  <2> DEFINE F == {T \in SUBSET cands : enough(T) => \E S \in least : enough(S)}
  <2>1. {} \in F
    BY <1>5
  <2>2. ASSUME NEW T \in SUBSET cands, NEW x \in cands \ T, T \in F
        PROVE  T \cup {x} \in F
    <3>1. CASE enough(T)
      BY <2>2, <3>1
    <3>2. CASE ~enough(T) /\ enough(T \cup {x})
      <4>1. (T \cup {x}) \ {x} = T
        BY <2>2
      <4>2. T \cup {x} \in least
        BY <2>2, <3>2, <4>1
      <4> QED
        BY <2>2, <3>2, <4>2
    <3>3. CASE ~enough(T) /\ ~enough(T \cup {x})
      BY <2>2, <3>3
    <3> QED
      BY <3>1, <3>2, <3>3
  <2> HIDE DEF F
  <2>3. SUBSET cands \subseteq F
    BY <1>2, <2>1, <2>2, SetInduction
  <2>4. cands \in F
    BY <2>3
  <2>5. \E S \in least : enough(S)
    BY <1>5, <2>4 DEF F
  <2> HIDE DEF least
  <2> QED
    BY <1>5, <2>5
<1> QED
  BY <1>3, <1>4, <1>5

LEMMA FreedIs ==
  ASSUME NEW D, NEW cache \in [D -> Cache], NEW S
  PROVE  Freed(cache, S) \in [D -> Cache] /\ \A x \in D : Freed(cache, S)[x] = IF x \in S THEN NoEntry ELSE cache[x]
BY NoEntryIs DEF NoEntries, Freed

\* When everything but the requests in prefill may go, there is room.
LEMMA RoomIsMade ==
  ASSUME NEW D, IsFiniteSet(D), NEW cache \in [D -> Cache], \A x \in D : cache[x].at = "none" => cache[x].tok = 0,
         NEW size \in Nat, NEW need \in Nat, Weight(cache, D) + need <= size
  PROVE  MakeRoom(cache, size, need) # {}
<1> DEFINE fits(c) == size - Occupied(c) >= need
<1>1. PICK idle \in Removed(cache, size, need, {"idle"}) : fits(Freed(cache, idle)) \/ idle = In(cache, {"idle"})
  BY SomeGo
<1> DEFINE c == Freed(cache, idle)
<1>2. c \in [D -> Cache] /\ \A x \in D : c[x] = IF x \in idle THEN NoEntry ELSE cache[x]
  BY FreedIs
<1> HIDE DEF c
<1>3. PICK V \in Removed(c, size, need, {"decode"}) : fits(Freed(c, V)) \/ V = In(c, {"decode"})
  BY <1>2, SomeGo
<1>4. fits(Freed(c, V))
  <2>1. CASE fits(c)
    <3>1. Freed(c, V) \in [D -> Cache] /\ \A x \in D : Freed(c, V)[x] = IF x \in V THEN NoEntry ELSE c[x]
      BY <1>2, FreedIs
    <3>2. \A x \in D : Freed(c, V)[x].tok <= c[x].tok
      BY <1>2, <3>1, NoEntryIs DEF NoEntries, Cache
    <3>3. Occupied(Freed(c, V)) <= Occupied(c) /\ Occupied(c) \in Nat /\ Occupied(Freed(c, V)) \in Nat
      BY <1>2, <3>1, <3>2, TokensFall, TokensAre
    <3> QED
      BY <2>1, <3>3
  <2>2. CASE idle = In(cache, {"idle"}) /\ V = In(c, {"decode"})
    <3> DEFINE left == Freed(c, V)
               f == [x \in D |-> left[x].tok]
               g == Weights(cache, D)
    <3>1. left \in [D -> Cache] /\ \A x \in D : left[x] = IF x \in V THEN NoEntry ELSE c[x]
      BY <1>2, FreedIs
    <3>2. Occupied(left) = SumFunctionOnSet(f, D)
      BY <3>1, TokensAre
    <3>3. \A x \in D : f[x] \in Int /\ f[x] = g[x]
      <4> HIDE DEF left
      <4> SUFFICES ASSUME NEW x \in D PROVE left[x].tok \in Int /\ left[x].tok = IF cache[x].at = "active" THEN cache[x].tok ELSE 0
        BY DEF Weights
      <4>0. cache[x] \in Cache /\ left[x] \in Cache
        BY <3>1
      <4>1. x \in idle <=> cache[x].at = "idle"
        BY <2>2 DEF In
      <4>2. x \in V <=> c[x].at = "decode"
        BY <1>2, <2>2 DEF In
      <4>3. CASE cache[x].at = "idle"
        <5>1. c[x] = NoEntry
          BY <1>2, <4>1, <4>3
        <5>2. left[x] = NoEntry
          BY <3>1, <5>1
        <5> QED
          BY <4>3, <5>2, NoEntryIs DEF NoEntries
      <4>4. CASE cache[x].at # "idle"
        <5>1. c[x] = cache[x]
          BY <1>2, <4>1, <4>4
        <5>2. CASE cache[x].at = "decode"
          BY <3>1, <4>2, <5>1, <5>2, NoEntryIs DEF NoEntries
        <5>3. CASE cache[x].at # "decode"
          <6>1. left[x] = cache[x]
            BY <3>1, <4>2, <5>1, <5>3
          <6>2. cache[x].at = "active" \/ (cache[x].at = "none" /\ cache[x].tok = 0)
            BY <4>0, <4>4, <5>3 DEF Cache
          <6>3. cache[x].tok \in Int
            BY <4>0 DEF Cache
          <6> QED
            BY <6>1, <6>2, <6>3
        <5> QED
          BY <5>2, <5>3
      <4> QED
        BY <4>3, <4>4
    <3>4. Occupied(left) \in Nat
      BY <3>1, TokensAre
    <3> HIDE DEF f, g, left
    <3>5. SumFunctionOnSet(f, D) = SumFunctionOnSet(g, D)
      BY <3>3, SumSame
    <3>6. Occupied(left) = Weight(cache, D)
      BY <3>2, <3>5 DEF Weight, g
    <3>7. size - Occupied(left) >= need
      BY <3>4, <3>6
    <3> QED
      BY <3>7 DEF left
  <2>3. idle = In(cache, {"idle"}) \/ fits(c)
    BY <1>1 DEF c
  <2> QED
    BY <1>3, <2>1, <2>2, <2>3
<1> DEFINE o == [cache |-> Freed(c, V), victims |-> V]
<1>5. o \in {[cache |-> Freed(c, victims), victims |-> victims] :
              victims \in {W \in Removed(c, size, need, {"decode"}) : size - Occupied(Freed(c, W)) >= need}}
  BY <1>3, <1>4
<1> HIDE DEF o
<1>6. o \in MakeRoom(cache, size, need)
  BY <1>1, <1>5 DEF MakeRoom, c
<1> QED
  BY <1>6

\* Entries that are not there are empty; what a chat will answer is an answer
\* of the world; and the requests in prefill leave the reserve alone.
Roomy ==
  /\ \A s \in Sessions : kv[s].at = "none" => kv[s].tok = 0
  /\ \A s \in Sessions : IsChat(s) => pend[s].step.out \in world.outs
  /\ \A s \in Sessions : kv[s].at = "active" => Weight(kv, Sessions) + world.reserve <= world.size

StepsKept == \A o \in Sessions : pend'[o].step = pend[o].step \/ (pend'[o].step.kind = "chat" => pend'[o].step.out \in world.outs)
ActiveKept == \A o \in Sessions : kv'[o].at = "active" => kv'[o] = kv[o]
NonesKept == \A o \in Sessions : kv'[o].at = "none" => kv'[o].tok = 0 \/ kv'[o] = kv[o]

LEMMA WeightIs ==
  ASSUME NEW D, IsFiniteSet(D), NEW cache \in [D -> Cache]
  PROVE  Weight(cache, D) \in Nat /\ \A x \in D : Weights(cache, D)[x] \in Nat
<1>1. \A x \in D : Weights(cache, D)[x] \in Nat
  BY DEF Weights, Cache
<1>2. Weight(cache, D) \in Nat
  <2> DEFINE f == Weights(cache, D)
  <2> HIDE DEF f
  <2>1. SumFunctionOnSet(f, D) \in Nat
    BY <1>1, SumNat DEF f
  <2> QED
    BY <2>1 DEF Weight, f
<1> QED
  BY <1>1, <1>2

LEMMA WeightFalls ==
  ASSUME NEW D, IsFiniteSet(D), NEW old \in [D -> Cache], NEW new \in [D -> Cache],
         \A x \in D : new[x].at = "active" => new[x] = old[x]
  PROVE  Weight(new, D) <= Weight(old, D)
<1> DEFINE f == Weights(new, D)
           g == Weights(old, D)
<1>1. \A x \in D : f[x] \in Int /\ g[x] \in Int /\ f[x] <= g[x]
  BY DEF Weights, Cache
<1> HIDE DEF f, g
<1>2. SumFunctionOnSet(f, D) <= SumFunctionOnSet(g, D)
  BY <1>1, SumAtMost
<1> QED
  BY <1>2 DEF Weight, f, g

\* A request enters the cache: others keep their prefills or lose other entries.
LEMMA WeightEnters ==
  ASSUME NEW D, IsFiniteSet(D), NEW old \in [D -> Cache], NEW new \in [D -> Cache], NEW s \in D,
         old[s].at # "active", new[s].at = "active",
         \A x \in D : x # s => (new[x] = old[x] \/ (new[x].at # "active" /\ old[x].at # "active"))
  PROVE  Weight(new, D) = Weight(old, D) + new[s].tok
<1> DEFINE f == Weights(old, D)
           g == Weights(new, D)
<1>1. Numbers(f, D) /\ Numbers(g, D)
  BY WeightIs DEF Numbers
<1>2. SameBut(f, g, D, s)
  BY DEF SameBut, Weights
<1>3. f[s] = 0 /\ g[s] = new[s].tok
  BY DEF Weights
<1>4. Weight(old, D) = SumFunctionOnSet(f, D) /\ Weight(new, D) = SumFunctionOnSet(g, D) /\ Weight(old, D) \in Nat
  BY WeightIs DEF Weight
<1>5. new[s].tok \in Int
  BY DEF Cache
<1> HIDE DEF f, g
<1>6. SumFunctionOnSet(g, D) = SumFunctionOnSet(f, D) + (g[s] - f[s])
  BY <1>1, <1>2, SumChange
<1> QED
  BY <1>3, <1>4, <1>5, <1>6

\* active_tokens counts what is in prefill, and more.
LEMMA WeightActive ==
  ASSUME NEW D, IsFiniteSet(D), NEW cache \in [D -> Cache]
  PROVE  Weight(cache, D) <= ActiveTokens(cache) /\ ActiveTokens(cache) \in Nat
<1> DEFINE P == In(cache, {"active", "decode"})
           f == [x \in D |-> cache[x].tok]
           g == [x \in D |-> IF x \in P THEN f[x] ELSE 0]
           w == Weights(cache, D)
<1>1. \A x \in D : f[x] \in Int /\ g[x] = IF x \in P THEN f[x] ELSE 0
  BY DEF Cache
<1>2. \A x \in D : w[x] \in Int /\ g[x] \in Int /\ w[x] <= g[x] /\ g[x] \in Nat
  BY DEF Cache, In, Weights
<1>3. P \cap D = P /\ D \cap P = P
  BY DEF In
<1>4. ActiveTokens(cache) = SumFunctionOnSet(f, P)
  BY DEF ActiveTokens, Tokens
<1> HIDE DEF f, g, w, P
<1>5. SumFunctionOnSet(g, D) = SumFunctionOnSet(f, D \cap P)
  BY <1>1, SumMask
<1>6. SumFunctionOnSet(w, D) <= SumFunctionOnSet(g, D) /\ SumFunctionOnSet(g, D) \in Nat
  BY <1>2, SumAtMost, SumNat
<1> QED
  BY <1>3, <1>4, <1>5, <1>6 DEF Weight, w

LEMMA RoomyKept ==
  ASSUME Good, Good', Roomy, world' = world, StepsKept, ActiveKept, NonesKept
  PROVE  Roomy'
<1>1. IsFiniteSet(Sessions) /\ kv \in [Sessions -> Cache] /\ Sessions' = Sessions
  BY KvIs, WorldKept
<1>2. kv' \in [Sessions -> Cache] /\ world.size \in Nat /\ world.reserve \in Nat
  <2>1. kv' \in [Sessions -> Cache]
    BY <1>1 DEF Good, Typed
  <2> QED
    BY <2>1, Data, WorldIs DEF IsWorld
<1>3. Weight(kv', Sessions) <= Weight(kv, Sessions) /\ Weight(kv', Sessions) \in Nat /\ Weight(kv, Sessions) \in Nat
  BY <1>1, <1>2, WeightFalls, WeightIs DEF ActiveKept
<1>4. \A s \in Sessions : kv'[s].at = "none" => kv'[s].tok = 0
  BY DEF NonesKept, Roomy
<1>5. \A s \in Sessions : pend'[s].step.kind = "chat" => pend'[s].step.out \in world.outs
  BY DEF StepsKept, Roomy, IsChat
<1>6. \A s \in Sessions : kv'[s].at = "active" => Weight(kv', Sessions) + world.reserve <= world.size
  BY <1>2, <1>3 DEF ActiveKept, Roomy
<1> QED
  BY <1>1, <1>4, <1>5, <1>6 DEF Roomy, IsChat

LEMMA StepsSame ==
  ASSUME pend' = pend
  PROVE  StepsKept
BY DEF StepsKept

LEMMA StepsOne ==
  ASSUME Good, NEW s \in Sessions, NEW q, pend' = [pend EXCEPT ![s] = q], q.step = pend[s].step \/ (q.step.kind = "chat" => q.step.out \in world.outs)
  PROVE  StepsKept
<1>1. pend'[s] = q /\ \A o \in Sessions : o # s => pend'[o] = pend[o]
  BY Data
<1> QED
  BY <1>1 DEF StepsKept

LEMMA KvSame ==
  ASSUME kv' = kv
  PROVE  ActiveKept /\ NonesKept
BY DEF ActiveKept, NonesKept

LEMMA KvOne ==
  ASSUME Good, NEW s \in Sessions, NEW e, kv' = [kv EXCEPT ![s] = e], e.at # "active", e.at = "none" => e.tok = 0
  PROVE  ActiveKept /\ NonesKept
<1>1. kv'[s] = e /\ \A o \in Sessions : o # s => kv'[o] = kv[o]
  BY Data
<1> QED
  BY <1>1 DEF ActiveKept, NonesKept

\* Steps that no call made of them.
LEMMA NewSteps ==
  ASSUME NEW m
  PROVE  NoPending(m).step.kind # "chat"
BY DEF NoPending, Fetch

LEMMA ReadyStep ==
  ASSUME Good, NEW s \in Sessions, NEW step, NEW rest, Ready(s, step, rest), step.kind = "chat" => step.out \in world.outs
  PROVE  StepsKept
<1> DEFINE q == [NoPending("ready") EXCEPT !.step = step, !.rest = rest]
<1>1. q.step = step
  BY DEF NoPending
<1>2. pend' = [pend EXCEPT ![s] = q]
  BY DEF Ready
<1> HIDE DEF q
<1> QED
  BY <1>1, <1>2, StepsOne

LEMMA ChatStep ==
  ASSUME NEW redo, NEW out
  PROVE  Chat(redo, out).kind = "chat" /\ Chat(redo, out).out = out
BY DEF Chat

LEMMA EvictedSteps ==
  ASSUME Good, NEW s \in Sessions, NEW q \in PendRec, q.step = pend[s].step, NEW V, pend' = Evicted([pend EXCEPT ![s] = q], V)
  PROVE  StepsKept
<1> DEFINE mine == [pend EXCEPT ![s] = q]
<1>1. mine \in [Sessions -> PendRec] /\ \A o \in Sessions : mine[o].step = pend[o].step
  BY Data
<1> HIDE DEF mine
<1>2. \A o \in Sessions : pend'[o] = IF o \in V THEN [mine[o] EXCEPT !.mode = "ready", !.due = TRUE] ELSE mine[o]
  BY <1>1 DEF Evicted, mine
<1>3. \A p \in PendRec : [p EXCEPT !.mode = "ready", !.due = TRUE].step = p.step
  BY DEF PendRec
<1>4. \A o \in Sessions : pend'[o].step = mine[o].step
  BY <1>1, <1>2, <1>3, ZenonT(40)
<1> QED
  BY <1>1, <1>4 DEF StepsKept

\* The fields that a call changes in place.
LEMMA StepsInPlace ==
  ASSUME Good, NEW s \in Sessions,
         \/ \E m, w, g, f : pend' = [pend EXCEPT ![s].mode = m, ![s].want = w, ![s].gang = g, ![s].flag = f]
         \/ \E a : pend' = [pend EXCEPT ![s].part = a]
         \/ \E a, b : pend' = [pend EXCEPT ![s].part = a, ![s].par = b]
         \/ \E a, b, c : pend' = [pend EXCEPT ![s].part = a, ![s].par = b, ![s].due = c]
         \/ \E a, b : pend' = [pend EXCEPT ![s].tries = a, ![s].due = b]
         \/ \E a : pend' = [pend EXCEPT ![s].rest = a]
         \/ \E a : pend' = [pend EXCEPT ![s].due = a]
         \/ \E a, b, c : pend' = [pend EXCEPT ![s].own = a, ![s].par = b, ![s].mode = c]
  PROVE  StepsKept
<1>1. pend \in [Sessions -> PendRec] /\ DOMAIN pend = Sessions /\ "step" \in DOMAIN pend[s]
  <2>1. pend \in [Sessions -> PendRec] /\ pend[s] \in PendRec
    BY Data, ZenonT(40)
  <2> QED
    BY <2>1, ZenonT(40) DEF PendRec
<1> DEFINE p == pend[s]
<1> SUFFICES \E q : pend' = [pend EXCEPT ![s] = q] /\ q.step = p.step
  <2> SUFFICES ASSUME NEW q, pend' = [pend EXCEPT ![s] = q], q.step = pend[s].step PROVE StepsKept
    OBVIOUS
  <2> QED
    BY StepsOne, ZenonT(40)
<1>2. CASE \E m, w, g, f : pend' = [pend EXCEPT ![s].mode = m, ![s].want = w, ![s].gang = g, ![s].flag = f]
  <2>1. PICK m, w, g, f : pend' = [pend EXCEPT ![s].mode = m, ![s].want = w, ![s].gang = g, ![s].flag = f]
    BY <1>2
  <2> DEFINE q == [p EXCEPT !.mode = m, !.want = w, !.gang = g, !.flag = f]
  <2>2. pend' = [pend EXCEPT ![s] = q]
    BY <1>1, <2>1, ZenonT(40)
  <2>3. q.step = p.step
    BY <1>1, ZenonT(40)
  <2> QED
    BY <2>2, <2>3, ZenonT(40)
<1>3. CASE \E a : pend' = [pend EXCEPT ![s].part = a]
  <2>1. PICK a : pend' = [pend EXCEPT ![s].part = a]
    BY <1>3
  <2> DEFINE q == [p EXCEPT !.part = a]
  <2>2. pend' = [pend EXCEPT ![s] = q]
    BY <1>1, <2>1, ZenonT(40)
  <2>3. q.step = p.step
    BY <1>1
  <2> QED
    BY <2>2, <2>3, ZenonT(40)
<1>4. CASE \E a, b : pend' = [pend EXCEPT ![s].part = a, ![s].par = b]
  <2>1. PICK a, b : pend' = [pend EXCEPT ![s].part = a, ![s].par = b]
    BY <1>4
  <2> DEFINE q == [p EXCEPT !.part = a, !.par = b]
  <2>2. pend' = [pend EXCEPT ![s] = q]
    BY <1>1, <2>1, ZenonT(40)
  <2>3. q.step = p.step
    BY <1>1
  <2> QED
    BY <2>2, <2>3, ZenonT(40)
<1>5. CASE \E a, b, c : pend' = [pend EXCEPT ![s].part = a, ![s].par = b, ![s].due = c]
  <2>1. PICK a, b, c : pend' = [pend EXCEPT ![s].part = a, ![s].par = b, ![s].due = c]
    BY <1>5
  <2> DEFINE q == [p EXCEPT !.part = a, !.par = b, !.due = c]
  <2>2. pend' = [pend EXCEPT ![s] = q]
    BY <1>1, <2>1, ZenonT(40)
  <2>3. q.step = p.step
    BY <1>1, ZenonT(40)
  <2> QED
    BY <2>2, <2>3, ZenonT(40)
<1>6. CASE \E a, b : pend' = [pend EXCEPT ![s].tries = a, ![s].due = b]
  <2>1. PICK a, b : pend' = [pend EXCEPT ![s].tries = a, ![s].due = b]
    BY <1>6
  <2> DEFINE q == [p EXCEPT !.tries = a, !.due = b]
  <2>2. pend' = [pend EXCEPT ![s] = q]
    BY <1>1, <2>1, ZenonT(40)
  <2>3. q.step = p.step
    BY <1>1, ZenonT(40)
  <2> QED
    BY <2>2, <2>3, ZenonT(40)
<1>7. CASE \E a : pend' = [pend EXCEPT ![s].rest = a]
  <2>1. PICK a : pend' = [pend EXCEPT ![s].rest = a]
    BY <1>7
  <2> DEFINE q == [p EXCEPT !.rest = a]
  <2>2. pend' = [pend EXCEPT ![s] = q]
    BY <1>1, <2>1, ZenonT(40)
  <2>3. q.step = p.step
    BY <1>1, ZenonT(40)
  <2> QED
    BY <2>2, <2>3, ZenonT(40)
<1>8. CASE \E a : pend' = [pend EXCEPT ![s].due = a]
  <2>1. PICK a : pend' = [pend EXCEPT ![s].due = a]
    BY <1>8
  <2> DEFINE q == [p EXCEPT !.due = a]
  <2>2. pend' = [pend EXCEPT ![s] = q]
    BY <1>1, <2>1, ZenonT(40)
  <2>3. q.step = p.step
    BY <1>1
  <2> QED
    BY <2>2, <2>3, ZenonT(40)
<1>9. CASE \E a, b, c : pend' = [pend EXCEPT ![s].own = a, ![s].par = b, ![s].mode = c]
  <2>1. PICK a, b, c : pend' = [pend EXCEPT ![s].own = a, ![s].par = b, ![s].mode = c]
    BY <1>9
  <2> DEFINE q == [p EXCEPT !.own = a, !.par = b, !.mode = c]
  <2>2. pend' = [pend EXCEPT ![s] = q]
    BY <1>1, <2>1, ZenonT(40)
  <2>3. q.step = p.step
    BY <1>1
  <2> QED
    BY <2>2, <2>3, ZenonT(40)
<1> QED
  BY <1>2, <1>3, <1>4, <1>5, <1>6, <1>7, <1>8, <1>9

LEMMA TryRunSteps ==
  ASSUME Good, NEW s \in Sessions, s = Head(stack).s, TryRun, ~Start(s)
  PROVE  StepsKept /\ kv' = kv /\ world' = world
<1>1. \/ TakeNext(s) \/ TakeNothing(s) \/ TakeSpare(s) \/ AwaitSpare(s) \/ AwaitCache(s)
      \/ Pause(s) \/ Refuse(s) \/ Throttle(s)
  BY DEF TryRun
<1>2. CASE TakeNext(s)
  <2>1. kv' = kv /\ world' = world /\ \E a : pend' = [pend EXCEPT ![s].part = a]
    BY <1>2, Data DEF TakeNext, Take
  <2> QED
    BY <2>1, StepsInPlace
<1>3. CASE TakeSpare(s)
  <2>1. kv' = kv /\ world' = world /\ \E a, b : pend' = [pend EXCEPT ![s].part = a, ![s].par = b]
    BY <1>3, Data, ZenonT(40) DEF TakeSpare, Take
  <2> QED
    BY <2>1, StepsInPlace
<1>4. ASSUME NEW r, NEW amt, NEW gang, Wait(s, r, amt, gang)
      PROVE  StepsKept /\ kv' = kv /\ world' = world
  <2>1. kv' = kv /\ world' = world /\ \E m, w, g, f : pend' = [pend EXCEPT ![s].mode = m, ![s].want = w, ![s].gang = g, ![s].flag = f]
    BY <1>4 DEF Wait
  <2> QED
    BY <2>1, StepsInPlace
<1>5. CASE Fail(s)
  <2>1. kv' = kv /\ world' = world /\ \E a, b : pend' = [pend EXCEPT ![s].part = a, ![s].par = b]
    BY <1>5 DEF Fail
  <2> QED
    BY <2>1, StepsInPlace
<1>6. CASE TakeNothing(s) \/ AwaitSpare(s) \/ AwaitCache(s) \/ Refuse(s)
  BY <1>4, <1>5, <1>6 DEF TakeNothing, AwaitSpare, AwaitCache, Refuse, WaitOrFail
<1>7. CASE Pause(s)
  <2>1. kv' = kv /\ world' = world /\ \E a, b, c : pend' = [pend EXCEPT ![s].part = a, ![s].par = b, ![s].due = c]
    BY <1>7 DEF Pause
  <2> QED
    BY <2>1, StepsInPlace, ZenonT(40)
<1>8. CASE Throttle(s)
  <2>1. kv' = kv /\ world' = world /\ pend' = pend
    BY <1>8 DEF Throttle
  <2> QED
    BY <2>1, StepsSame
<1> QED
  BY <1>1, <1>2, <1>3, <1>6, <1>7, <1>8

LEMMA StartSteps ==
  ASSUME Good, NEW s \in Sessions, Start(s)
  PROVE  StepsKept /\ world' = world
<1>1. world' = world
  BY DEF Start
<1> DEFINE p == pend[s]
           own == [r \in Units |-> IF r \in {"ext", "ret"} THEN Amount(p.part, r)
                                   ELSE IF r = "cpu" /\ p.par THEN Extra(p.step) ELSE 0]
           mode == IF IsChat(s) THEN "prefill" ELSE p.step.kind
           q == [p EXCEPT !.part = <<>>, !.own = own, !.mode = mode]
<1>2. PICK o \in IF IsChat(s) THEN BeginPrefill(kv, world.size, s, ContextOf(s)) ELSE {[cache |-> kv, victims |-> {}]} :
        pend' = Evicted([pend EXCEPT ![s] = q], o.victims)
  BY DEF Start
<1>3. pend \in [Sessions -> PendRec] /\ p \in PendRec
  BY Data
<1> HIDE DEF own, mode, p
<1>4. q.step = p.step /\ DOMAIN q = DOMAIN p
  BY <1>3 DEF PendRec
<1> DEFINE mine == [pend EXCEPT ![s] = q]
           V == o.victims
<1>5. DOMAIN mine = Sessions /\ \A u \in Sessions : mine[u].step = pend[u].step /\ "step" \in DOMAIN mine[u]
  <2> HIDE DEF q
  <2>1. "step" \in DOMAIN p /\ \A u \in Sessions : "step" \in DOMAIN pend[u]
    BY <1>3 DEF PendRec
  <2> QED
    BY <1>3, <1>4, <2>1 DEF p
<1> HIDE DEF mine
<1>6. \A u \in Sessions : pend'[u] = IF u \in V THEN [mine[u] EXCEPT !.mode = "ready", !.due = TRUE] ELSE mine[u]
  BY <1>2, <1>5 DEF Evicted, mine
<1>7. ASSUME NEW u \in Sessions
      PROVE  pend'[u].step = pend[u].step
  <2> DEFINE m == mine[u]
  <2>1. "step" \in DOMAIN m /\ m.step = pend[u].step
    BY <1>5
  <2>2. pend'[u] = IF u \in V THEN [m EXCEPT !.mode = "ready", !.due = TRUE] ELSE m
    BY <1>6
  <2> HIDE DEF m
  <2>3. [m EXCEPT !.mode = "ready", !.due = TRUE].step = m.step
    BY <2>1
  <2> QED
    BY <2>1, <2>2, <2>3
<1> QED
  BY <1>1, <1>7 DEF StepsKept

LEMMA TopIsSession ==
  ASSUME Good, stack # <<>>
  PROVE  Head(stack).s \in Sessions
<1>1. stack \in Seq(Frame)
  BY Data
<1> QED
  BY <1>1, HeadIs, FrameIs

LEMMA StartRoomy ==
  ASSUME Good, Good', Roomy, NEW s, s = Head(stack).s, Top("try"), Start(s)
  PROVE  Roomy'
<1>1. s \in Sessions
  BY TopIsSession DEF Top
<1>2. StepsKept /\ world' = world
  BY <1>1, StartSteps
<1>3. CASE ~IsChat(s)
  <2>1. kv' = kv
    BY <1>3 DEF Start
  <2> QED
    BY <1>2, <2>1, KvSame, RoomyKept
<1>4. CASE IsChat(s)
  <2> DEFINE size == world.size
             context == ContextOf(s)
             D == Sessions
  <2>1. IsFiniteSet(D) /\ kv \in [D -> Cache] /\ size \in Nat
    BY KvIs
  <2>2. context \in Nat
    BY <1>1, Data, ProgIs DEF ContextOf
  <2>3. PICK o \in BeginPrefill(kv, size, s, context) : kv' = o.cache
    BY <1>4 DEF Start
  <2>4. world.reserve \in Nat
    BY Data, WorldIs DEF IsWorld
  <2>5. ActiveTokens(kv) + (context + world.reserve) <= size
    BY <1>4 DEF Start, CacheReady, Fits, NeedKV, RoomFor
  <2>6. kv[s].at \notin {"active", "decode"}
    <3>1. IsThread(Head(stack)) /\ Head(stack).op = "try" /\ stack # <<>>
      BY DEF Top, IsThread, ThreadOps
    <3>2. At(s, {"try"}, ClearsIn(Tail(stack), s))
      BY <3>1, AtCall
    <3> QED
      BY <3>2 DEF At, FlowOf, OpFlow
  <2> HIDE DEF size, context, D
  <2>7. PrefillBegun(o, D, kv, size, s, context)
    BY <1>1, <2>1, <2>2, <2>3, PrefillBegins DEF D
  <2>8. PICK k \in [D -> Cache], reused \in Nat :
          /\ o.cache = [k EXCEPT ![s] = Entry("active", context)]
          /\ Evicts(k, [kv EXCEPT ![s] = Entry("active", reused)], o.victims)
    BY <2>7 DEF PrefillBegun
  <2> DEFINE e == Entry("active", context)
  <2>9. e \in Cache /\ e.at = "active" /\ e.tok = context
    BY <2>2 DEF Entry, Cache
  <2> HIDE DEF e
  <2>10. kv' = [k EXCEPT ![s] = e]
    BY <2>3, <2>8 DEF e
  <2>11. kv' \in [D -> Cache] /\ kv'[s] = e /\ \A x \in D : x # s => kv'[x] = k[x]
    BY <1>1, <2>9, <2>10 DEF D
  <2>12. \A x \in D : x # s => k[x] = kv[x] \/ (kv[x].at \in {"idle", "decode"} /\ k[x] = NoEntry)
    <3> DEFINE mine == [kv EXCEPT ![s] = Entry("active", reused)]
    <3>1. DOMAIN mine = D /\ \A x \in D : x # s => mine[x] = kv[x]
      BY <2>1
    <3>2. Evicts(k, mine, o.victims)
      BY <2>8
    <3> HIDE DEF mine
    <3> QED
      BY <3>1, <3>2 DEF Evicts, In
  <2>13. \A x \in D : x # s => kv'[x] = kv[x] \/ (kv'[x].at = "none" /\ kv'[x].tok = 0 /\ kv[x].at # "active")
    BY <2>11, <2>12, NoEntryIs DEF NoEntries
  <2>14. Weight(kv', D) = Weight(kv, D) + context
    <3> DEFINE new == kv'
    <3>1. new \in [D -> Cache] /\ new[s].at = "active" /\ new[s].tok = context /\ kv[s].at # "active" /\ s \in D
      BY <1>1, <2>6, <2>9, <2>11 DEF D
    <3>2. \A x \in D : x # s => (new[x] = kv[x] \/ (new[x].at # "active" /\ kv[x].at # "active"))
      BY <2>13
    <3> HIDE DEF new
    <3>3. Weight(new, D) = Weight(kv, D) + new[s].tok
      BY <2>1, <3>1, <3>2, WeightEnters
    <3> QED
      BY <3>1, <3>3 DEF new
  <2>15. Weight(kv, D) <= ActiveTokens(kv) /\ ActiveTokens(kv) \in Nat /\ Weight(kv, D) \in Nat
    BY <2>1, WeightActive, WeightIs
  <2>16. Weight(kv', D) + world.reserve <= size
    BY <2>1, <2>2, <2>4, <2>5, <2>14, <2>15
  <2>17. \A x \in D : kv'[x].at = "none" => kv'[x].tok = 0
    BY <2>9, <2>11, <2>13 DEF Roomy, D
  <2>18. \A x \in Sessions : pend'[x].step.kind = "chat" => pend'[x].step.out \in world.outs
    BY <1>2 DEF StepsKept, Roomy, IsChat
  <2> QED
    BY <1>2, <2>16, <2>17, <2>18, WorldKept DEF Roomy, IsChat, D, size
<1> QED
  BY <1>3, <1>4

LEMMA DecodeStartRoomy ==
  ASSUME Good, NEW s \in Sessions, DecodeStart(s)
  PROVE  StepsKept /\ ActiveKept /\ NonesKept
<1> DEFINE p == pend[s]
           q == [p EXCEPT !.mode = "decode"]
           out == p.step.out
           size == world.size
<1>1. kv \in [Sessions -> Cache] /\ pend \in [Sessions -> PendRec] /\ p \in PendRec
  BY Data
<1>2. q \in PendRec /\ q.step = p.step
  BY <1>1 DEF PendRec, Modes
<1>3. PICK o \in BeginDecode(kv, size, s, out) : kv' = o.cache /\ pend' = Evicted([pend EXCEPT ![s].mode = "decode"], o.victims)
  BY DEF DecodeStart
<1>4. pend' = Evicted([pend EXCEPT ![s] = q], o.victims)
  BY <1>1, <1>3
<1> HIDE DEF q, out, size
<1>5. StepsKept
  BY <1>2, <1>4, EvictedSteps
<1>6. PICK k \in [Sessions -> Cache] :
        /\ o.cache = [k EXCEPT ![s] = Entry("decode", kv[s].tok + out)]
        /\ Evicts(k, kv, o.victims)
  BY <1>1, <1>3, DecodeBegins, ZenonT(40)
<1>7. kv'[s].at = "decode" /\ \A x \in Sessions : x # s => kv'[x] = k[x]
  BY <1>3, <1>6 DEF Entry
<1>8. \A x \in Sessions : k[x] = kv[x] \/ k[x] = NoEntry
  BY <1>1, <1>6 DEF Evicts
<1>9. \A x \in Sessions : x # s => kv'[x] = kv[x] \/ (kv'[x].at = "none" /\ kv'[x].tok = 0)
  BY <1>7, <1>8, NoEntryIs DEF NoEntries
<1> QED
  BY <1>5, <1>7, <1>9 DEF ActiveKept, NonesKept

LEMMA ChatEndRoomy ==
  ASSUME Good, NEW s \in Sessions, ChatEnd(s)
  PROVE  StepsKept /\ ActiveKept /\ NonesKept
<1> DEFINE e == [kv[s] EXCEPT !.at = "idle"]
<1>1. kv \in [Sessions -> Cache] /\ kv[s] \in Cache
  BY Data
<1>2. kv' = [kv EXCEPT ![s] = e] /\ pend' = pend
  BY <1>1 DEF ChatEnd, EndDecode
<1>3. e.at = "idle"
  BY <1>1 DEF Cache
<1> HIDE DEF e
<1> QED
  BY <1>2, <1>3, KvOne, StepsSame

LEMMA DropRoomy ==
  ASSUME Good, NEW s \in Sessions, kv' = Drop(kv, s)
  PROVE  ActiveKept /\ NonesKept
BY KvOne, NoEntryIs DEF Drop, NoEntries

LEMMA UnwaitSteps ==
  ASSUME Good, NEW s \in Sessions, NEW then, Unwait(s, then)
  PROVE  StepsKept /\ kv' = kv /\ world' = world
<1>1. /\ kv' = kv /\ world' = world
      /\ \E m, w, g, f : pend' = [pend EXCEPT ![s].mode = m, ![s].want = w, ![s].gang = g, ![s].flag = f]
  BY DEF Unwait
<1> QED
  BY <1>1, StepsInPlace

LEMMA NoPendingSteps ==
  ASSUME Good, NEW s \in Sessions, NEW m, pend' = [pend EXCEPT ![s] = NoPending(m)]
  PROVE  StepsKept
<1> DEFINE q == NoPending(m)
<1>1. q.step.kind # "chat" /\ pend' = [pend EXCEPT ![s] = q]
  BY NewSteps
<1> HIDE DEF q
<1> QED
  BY <1>1, StepsOne

LEMMA ReadySteps ==
  ASSUME Good, NEW s \in Sessions, NEW step, NEW rest, Ready(s, step, rest), step.kind = "chat" => step.out \in world.outs
  PROVE  StepsKept /\ kv' = kv /\ world' = world
<1>1. kv' = kv /\ world' = world
  BY DEF Ready
<1> QED
  BY <1>1, ReadyStep

LEMMA ReadyChats ==
  ASSUME Good, NEW s \in Sessions, NEW redo, NEW rest, NEW out \in world.outs, Ready(s, Chat(redo, out), rest)
  PROVE  StepsKept /\ kv' = kv /\ world' = world
<1> DEFINE step == Chat(redo, out)
<1>1. step.out \in world.outs /\ Ready(s, step, rest)
  BY ChatStep
<1> HIDE DEF step
<1> QED
  BY <1>1, ReadySteps

LEMMA WithinSteps ==
  ASSUME Good, NEW s \in Sessions, s = Head(stack).s, Within, ~TryRun
  PROVE  StepsKept /\ (kv' = kv \/ kv' = Drop(kv, s)) /\ world' = world
<1>1. CASE Release \/ StartKid \/ JoinPark \/ ToolReturns \/ CallCounted
  <2>1. pend' = pend /\ kv' = kv /\ world' = world
    BY <1>1 DEF Release, StartKid, JoinPark, ToolReturns, CallCounted
  <2> QED
    BY <2>1, StepsSame
<1>2. CASE WakeGang
  <2>1. \/ \E o \in LapsedGangs(Head(stack).r) : Unwait(o, stack)
        \/ pend' = pend /\ kv' = kv /\ world' = world
    BY <1>2 DEF WakeGang
  <2> QED
    BY <2>1, UnwaitSteps, StepsSame DEF LapsedGangs, Waiters
<1>3. CASE WakeBest
  <2>1. \/ \E o \in FittingWaiters(Head(stack).r) : Unwait(o, stack)
        \/ pend' = pend /\ kv' = kv /\ world' = world
    BY <1>3 DEF WakeBest
  <2> QED
    BY <2>1, UnwaitSteps, StepsSame DEF FittingWaiters, Waiters
<1>4. CASE ReadyChat
  <2>1. Ready(s, Fetch, <<>>) \/ \E out \in world.outs : Ready(s, Chat(<<>>, out), <<>>)
    BY <1>4 DEF ReadyChat
  <2>2. CASE Ready(s, Fetch, <<>>)
    <3>1. Fetch.kind # "chat"
      BY DEF Fetch
    <3> QED
      BY <2>2, <3>1, ReadySteps
  <2> QED
    BY <2>1, <2>2, ReadyChats
<1>5. CASE React
  <2>1. Retry(s) \/ Abort(s) \/ Replan(s)
    BY <1>5, SMTT(100) DEF React
  <2>2. CASE Retry(s)
    <3>1. /\ kv' = kv /\ world' = world
          /\ \E a, b : pend' = [pend EXCEPT ![s].tries = a, ![s].due = b]
      BY <2>2, Data DEF Retry
    <3> QED
      BY <3>1, StepsInPlace
  <2>3. CASE Abort(s)
    <3>1. pend' = pend /\ kv' = kv /\ world' = world
      BY <2>3 DEF Abort, EndSession
    <3> QED
      BY <3>1, StepsSame
  <2>4. CASE Replan(s)
    <3>1. \E out \in world.outs : \E redo : Ready(s, Chat(redo, out), <<>>)
      BY <2>4 DEF Replan
    <3> QED
      BY <3>1, ReadyChats
  <2> QED
    BY <2>1, <2>2, <2>3, <2>4
<1>6. CASE Gone
  <2>1. pend' = pend /\ kv' = Drop(kv, s) /\ world' = world
    BY <1>6 DEF Gone
  <2> QED
    BY <2>1, StepsSame
<1>7. CASE Bury
  <2>1. pend' = [pend EXCEPT ![s] = NoPending("off")] /\ kv' = kv /\ world' = world
    BY <1>7 DEF Bury
  <2> QED
    BY <2>1, NoPendingSteps
<1>8. CASE ChatReturns
  <2>1. \E a : pend' = [pend EXCEPT ![s].rest = a] /\ kv' = kv /\ world' = world
    BY <1>8 DEF ChatReturns, ChatOver
  <2> QED
    BY <2>1, StepsInPlace, ZenonT(40)
<1>9. CASE Proceed
  <2> DEFINE rest == pend[s].rest
  <2>1. CASE rest # <<>>
    <3>1. Ready(s, Head(rest), Tail(rest))
      BY <1>9, <2>1 DEF Proceed
    <3>2. rest \in Seq(Works)
      BY Data, PendIs
    <3>3. Head(rest) \in Works
      BY <2>1, <3>2
    <3>4. Head(rest).kind # "chat"
      BY <3>3, WorkIs
    <3> HIDE DEF rest
    <3> QED
      BY <3>1, <3>4, ReadySteps
  <2>2. CASE rest = <<>>
    <3>1. pend' = [pend EXCEPT ![s] = NoPending("ready")] /\ kv' = kv /\ world' = world
      BY <1>9, <2>2 DEF Proceed
    <3> QED
      BY <3>1, NoPendingSteps
  <2> QED
    BY <2>1, <2>2
<1>10. CASE EndRequest
  <2>1. (pend' = [pend EXCEPT ![s] = NoPending("think")] \/ pend' = pend) /\ kv' = kv /\ world' = world
    BY <1>10 DEF EndRequest, EndSession
  <2> QED
    BY <2>1, NoPendingSteps, StepsSame
<1>11. CASE Spawn
  <2>1. pend' = [pend EXCEPT ![s] = NoPending("join")] /\ kv' = kv /\ world' = world
    BY <1>11 DEF Spawn
  <2> QED
    BY <2>1, NoPendingSteps
<1>12. CASE FetchReturns
  <2>1. \E out \in world.outs : Ready(s, Chat(<<>>, out), <<>>)
    BY <1>12, SMTT(100) DEF FetchReturns
  <2> QED
    BY <2>1, ReadyChats
<1>13. CASE Throttled
  <2>1. kv' = kv /\ world' = world /\ \E a, b : pend' = [pend EXCEPT ![s].part = a, ![s].par = b]
    BY <1>13 DEF Throttled, Fail
  <2> QED
    BY <2>1, StepsInPlace
<1> QED
  BY <1>1, <1>2, <1>3, <1>4, <1>5, <1>6, <1>7, <1>8, <1>9, <1>10, <1>11, <1>12, <1>13 DEF Within

LEMMA WithinRoomy ==
  ASSUME Good, Good', Roomy, Within
  PROVE  Roomy'
<1> SUFFICES ASSUME NEW s, s = Head(stack).s PROVE Roomy'
  OBVIOUS
<1>1. stack # <<>>
  BY DEF Within, Release, WakeGang, WakeBest, TryRun, ReadyChat, React, Gone, Bury, ChatReturns, Proceed, EndRequest, Spawn,
     StartKid, JoinPark, ToolReturns, FetchReturns, CallCounted, Throttled, Top
<1>2. s \in Sessions
  BY <1>1, TopIsSession
<1>3. CASE TryRun
  <2>1. Top("try")
    BY <1>3 DEF TryRun
  <2>2. CASE Start(s)
    <3>1. Good' /\ Roomy
      OBVIOUS
    <3> QED
      BY <2>1, <2>2, <3>1, StartRoomy
  <2>3. CASE ~Start(s)
    <3>1. StepsKept /\ kv' = kv /\ world' = world
      BY <1>2, <1>3, <2>3, TryRunSteps
    <3>2. ActiveKept /\ NonesKept
      BY <3>1, KvSame
    <3> QED
      BY <3>1, <3>2, RoomyKept
  <2> QED
    BY <2>2, <2>3
<1>4. CASE ~TryRun
  BY <1>2, <1>4, WithinSteps, KvSame, DropRoomy, RoomyKept
<1> QED
  BY <1>3, <1>4

LEMMA EventRoomy ==
  ASSUME Good, Good', Roomy, NEW s \in Sessions, Event(s)
  PROVE  Roomy'
<1>0. world' = world
  BY DEF Event
<1>1. CASE Arrive(s) \/ RequestStart(s) \/ Park(s) \/ ParkIdle(s) \/ Prewarm(s) \/ Reannotate(s)
  <2>1. pend' = pend /\ kv' = kv
    BY <1>1 DEF Arrive, RequestStart, Park, ParkIdle, Prewarm, Reannotate
  <2> QED
    BY <1>0, <2>1, StepsSame, KvSame, RoomyKept, SMTT(100)
<1>2. CASE DueTry(s)
  <2>1. kv' = kv /\ \E a : pend' = [pend EXCEPT ![s].due = a]
    BY <1>2 DEF DueTry
  <2> QED
    BY <1>0, <2>1, StepsInPlace, KvSame, RoomyKept
<1>3. CASE DecodeStart(s)
  BY <1>0, <1>3, DecodeStartRoomy, RoomyKept
<1>4. CASE ChatEnd(s)
  BY <1>0, <1>4, ChatEndRoomy, RoomyKept
<1>5. CASE ToolEnd(s) \/ ToolLimit(s) \/ FetchEnd(s)
  <2>1. ASSUME NEW mode, NEW frames, StepEnd(s, mode, frames)
        PROVE  StepsKept /\ kv' = kv
    <3>1. kv' = kv /\ \E a, b, c : pend' = [pend EXCEPT ![s].own = a, ![s].par = b, ![s].mode = c]
      BY <2>1 DEF StepEnd
    <3> QED
      BY <3>1, StepsInPlace
  <2>2. StepsKept /\ kv' = kv
    BY <1>5, <2>1 DEF ToolEnd, ToolLimit, FetchEnd
  <2> QED
    BY <1>0, <2>2, KvSame, RoomyKept
<1>6. CASE DeadlockBreak(s) \/ WaitTimeout(s)
  <2> DEFINE q == [NoPending("ready") EXCEPT !.step = pend[s].step, !.rest = pend[s].rest, !.tries = pend[s].tries]
  <2>1. pend' = [pend EXCEPT ![s] = q] /\ (kv' = kv \/ kv' = Drop(kv, s))
    BY <1>6 DEF DeadlockBreak, WaitTimeout, TimeoutStep
  <2>2. q.step = pend[s].step
    BY DEF NoPending
  <2> HIDE DEF q
  <2>3. StepsKept
    BY <2>1, <2>2, StepsOne
  <2> QED
    BY <1>0, <2>1, <2>3, KvSame, DropRoomy, RoomyKept
<1> QED
  BY <1>1, <1>2, <1>3, <1>4, <1>5, <1>6 DEF Event, Scheduled

LEMMA RoomyNext ==
  ASSUME Good, Good', Roomy, [Next]_vars
  PROVE  Roomy'
<1>1. CASE Within
  BY <1>1, WithinRoomy
<1>2. CASE \E s \in Sessions : Event(s) \/ (Expire(s) /\ UNCHANGED <<world, aimd>>)
  <2>1. PICK s \in Sessions : Event(s) \/ (Expire(s) /\ UNCHANGED <<world, aimd>>)
    BY <1>2
  <2>2. CASE Event(s)
    BY <2>2, EventRoomy
  <2>3. CASE Expire(s) /\ UNCHANGED <<world, aimd>>
    <3>1. world' = world /\ pend' = pend /\ kv' = kv
      BY <2>3 DEF Expire
    <3> QED
      BY <3>1, StepsSame, KvSame, RoomyKept
  <2> QED
    BY <2>1, <2>2, <2>3
<1>3. CASE UNCHANGED vars
  <2>1. world' = world /\ pend' = pend /\ kv' = kv
    BY <1>3 DEF vars
  <2> QED
    BY <2>1, StepsSame, KvSame, RoomyKept
<1> QED
  BY <1>1, <1>2, <1>3 DEF Next

LEMMA RoomyBegins ==
  ASSUME Init
  PROVE  Roomy
<1>1. \A s \in Sessions : kv[s] = NoEntry /\ pend[s] = NoPending("off")
  BY DEF Init
<1>2. \A s \in Sessions : kv[s].at = "none" /\ kv[s].tok = 0 /\ pend[s].step.kind # "chat"
  BY <1>1, NoEntryIs, NewSteps DEF NoEntries
<1> QED
  BY <1>2 DEF Roomy, IsChat

LEMMA RoomyExists == Good /\ Roomy => RoomExists
<1> SUFFICES ASSUME Good, Roomy, \A out \in world.outs : out <= world.reserve, NEW s \in Sessions, pend[s].mode = "prefill"
             PROVE  BeginDecode(kv, world.size, s, pend[s].step.out) # {}
  BY DEF RoomExists
<1> DEFINE out == pend[s].step.out
           size == world.size
           D == Sessions
<1>1. IsFiniteSet(D) /\ kv \in [D -> Cache] /\ size \in Nat
  BY KvIs
<1>2. pend[s].step.kind = "chat" /\ kv[s].at = "active"
  <2>1. FlowOf(pend[s], prog[s], kv[s].at, OpsIn(stack, s), GivesIn(stack, s))
    BY DEF Good, Flows, Flow
  <2> QED
    BY <2>1 DEF FlowOf
<1>3. out \in world.outs
  BY <1>2 DEF Roomy, IsChat
<1>4. out <= world.reserve
  BY <1>3
<1>5. out \in Nat /\ world.reserve \in Nat
  BY <1>3, Data, WorldIs DEF IsWorld
<1>6. Weight(kv, D) + world.reserve <= size
  BY <1>2 DEF Roomy
<1>7. Weight(kv, D) \in Nat
  BY <1>1, WeightIs
<1>8. \A x \in D : kv[x].at = "none" => kv[x].tok = 0
  BY DEF Roomy
<1> HIDE DEF out, size, D
<1>9. Weight(kv, D) + out <= size
  BY <1>1, <1>4, <1>5, <1>6, <1>7
<1>10. MakeRoom(kv, size, out) # {}
  BY <1>1, <1>5, <1>8, <1>9, RoomIsMade
<1>11. BeginDecode(kv, size, s, out) # {}
  BY <1>10 DEF BeginDecode
<1> QED
  BY <1>11 DEF out, size

\* As long as no answer outgrows the reserve that chats are admitted with, a
\* chat that was admitted can begin its answer whatever else was admitted,
\* evicted or grew since: _make_room finds entries to evict and never raises.
THEOREM RoomAlwaysExists == Spec => []RoomExists
<1>1. Init => Roomy
  BY RoomyBegins
<1>2. Good /\ Good' /\ Roomy /\ [Next]_vars => Roomy'
  BY RoomyNext
<1>3. Spec => []Roomy
  BY <1>1, <1>2, AlwaysGood, PTL DEF Spec
<1> QED
  BY <1>3, AlwaysGood, RoomyExists, PTL

-----------------------------------------------------------------------------
(* What the resources count is what the sessions will give back: as long   *)
(* as no limit ever pauses or refuses a mixed parallel group.              *)

\* A tool that a rate limit may hold up works in one sandbox at most.
Mild(t) == world.metered => t.loc <= 1 \/ t.ext = 0
\* No tool makes more calls at once than the resource has units.
Modest == \A l \in world.tools : \A i \in DOMAIN l : l[i].ext <= world.cap["ext"]
Meek(t) == Mild(t) /\ (Modest => t.ext = 0 \/ t.ext <= world.cap["ext"])
MildSteps(p) ==
  /\ Meek(p.step)
  /\ \A i \in DOMAIN p.rest : Meek(p.rest[i])
  /\ \A i \in DOMAIN p.step.redo : Meek(p.step.redo[i])
MildTools == \A l \in world.tools : \A i \in DOMAIN l : Mild(l[i])

\* The account of a resource: h units held, due units of them on their way back.
CountOf(p, g, h, due, r) ==
  /\ h = g.holds[r] + Amount(p.part, r) + (IF g.holds[r] = 0 THEN due ELSE 0)
  /\ g.holds[r] > 0 => due <= g.holds[r]
  /\ Amount(p.part, r) > 0 => g.holds[r] = 0 \/ (r = "cpu" /\ p.par)
  /\ r \in {"ext", "ret"} => g.holds[r] <= p.own[r] + due
  /\ r = "mem" /\ due > 0 => g.holds[r] = 0
\* A sandbox's memory goes together with its CPU, and what ended goes for good.
SandboxOf(g, clears) == g.holds["mem"] = 0 \/ "mem" \in clears => g.holds["cpu"] = 0 \/ "cpu" \in clears
EndedOf(g, clears) == g.life \in {"done", "aborted"} => \A r \in Units : g.holds[r] > 0 => r \in clears

Counted(s) ==
  /\ \A r \in Units : CountOf(pend[s], prog[s], held[s][r], DueIn(stack, s, r), r)
  /\ SandboxOf(prog[s], ClearsIn(stack, s)) /\ EndedOf(prog[s], ClearsIn(stack, s))
\* A group's extra units are taken right before the group starts.
Grouped(s) ==
  pend[s].par /\ pend[s].mode # "tool" => Top("try") /\ Head(stack).s = s /\ Missing(s) = {}
Exact == MildTools /\ \A s \in Sessions : Counted(s) /\ Grouped(s) /\ MildSteps(pend[s])

\* No group is about to start.
Unpaired == \A o \in Sessions : pend[o].par => pend[o].mode = "tool"

\* Steps that leave the gives on the stack alone.
SameDues(q, b, o) == ClearsIn(q, o) = ClearsIn(b, o) /\ \A r : DueIn(q, o, r) = DueIn(b, o, r)
Undue == \A o : SameDues(stack', stack, o)
NoGives(a) == a \in Seq(Frame) /\ \A i \in DOMAIN a : a[i].op # "give"

\* What a step may do to the account of a session, if it moves no units.
Tidy(o) ==
  /\ pend'[o].part = pend[o].part /\ pend'[o].own = pend[o].own /\ pend'[o].par = pend[o].par
  /\ prog'[o].holds = prog[o].holds /\ held'[o] = held[o]
  /\ prog'[o].life = prog[o].life \/ prog'[o].life \in {"off", "active"}

LEMMA OverNoGives ==
  ASSUME NEW a, NoGives(a), NEW b \in Seq(Frame), NEW o
  PROVE  SameDues(a \o b, b, o)
<1>1. a \in Seq(Frame) /\ ~GivesIn(a, o) /\ ClearsIn(a, o) = {}
  BY DEF NoGives, GivesIn, ClearsIn, IsGive, IsClear
<1>2. \A r : DueIn(a, o, r) = 0
  BY <1>1, NothingDue
<1>3. ClearsIn(a \o b, o) = ClearsIn(a, o) \cup ClearsIn(b, o)
  BY <1>1, ViewOfConcat
<1>4. ASSUME NEW r
      PROVE  DueIn(a \o b, o, r) = DueIn(b, o, r)
  <2>1. DueIn(b, o, r) \in Nat /\ DueIn(a \o b, o, r) = DueIn(a, o, r) + DueIn(b, o, r)
    BY <1>1, DueOfConcat
  <2> QED
    BY <1>2, <2>1
<1> QED
  BY <1>1, <1>3, <1>4 DEF SameDues

LEMMA RunUndue ==
  ASSUME Good, stack # <<>>, Head(stack).op # "give", NEW a, NoGives(a), stack' = a \o Tail(stack)
  PROVE  Undue
<1> DEFINE b == Tail(stack)
           e == <<Head(stack)>>
<1>1. b \in Seq(Frame) /\ stack = e \o b /\ e \in Seq(Frame)
  BY Data, HeadIs
<1>2. NoGives(e)
  BY <1>1 DEF NoGives
<1> HIDE DEF b, e
<1> SUFFICES ASSUME NEW o PROVE SameDues(stack', stack, o)
  BY DEF Undue
<1>3. SameDues(a \o b, b, o)
  BY <1>1, OverNoGives
<1>4. SameDues(e \o b, b, o)
  BY <1>1, <1>2, OverNoGives
<1> DEFINE x == a \o b
           y == e \o b
<1>5. stack' = x /\ stack = y /\ SameDues(x, b, o) /\ SameDues(y, b, o)
  BY <1>1, <1>3, <1>4 DEF b
<1> HIDE DEF x, y
<1>6. SameDues(x, y, o)
  BY <1>5 DEF SameDues
<1> QED
  BY <1>5, <1>6

LEMMA HandleUndue ==
  ASSUME stack = <<>>, NEW a, NoGives(a), stack' = a
  PROVE  Undue
<1> SUFFICES ASSUME NEW o PROVE SameDues(stack', stack, o)
  BY DEF Undue
<1>1. <<>> \in Seq(Frame) /\ a \o <<>> = a
  BY DEF NoGives
<1>2. SameDues(a \o <<>>, <<>>, o)
  BY <1>1, OverNoGives
<1> QED
  BY <1>1, <1>2

LEMMA NoGivesNone == NoGives(<<>>)
BY DEF NoGives

LEMMA NoGivesCall ==
  ASSUME NEW s \in Sessions, NEW op \in ThreadOps \cup {"joinpark", "counted"}
  PROVE  NoGives(<<Call(op, s)>>)
<1> DEFINE f == Call(op, s)
<1>1. f \in Frame /\ f.op # "give"
  BY CallIs DEF ThreadOps
<1> HIDE DEF f
<1>2. NoGives(<<f>>)
  BY <1>1 DEF NoGives
<1> QED
  BY <1>2 DEF f

LEMMA NoGivesWake ==
  ASSUME world \in Worlds, NEW r \in Units \cup {"kv"}
  PROVE  NoGives(<<Wake(r)>>)
<1> DEFINE f == Wake(r)
<1>1. f \in Frame /\ f.op # "give"
  BY WakeIs
<1> HIDE DEF f
<1>2. NoGives(<<f>>)
  BY <1>1 DEF NoGives
<1> QED
  BY <1>2 DEF f

LEMMA NoGivesConcat ==
  ASSUME NEW a, NoGives(a), NEW b, NoGives(b)
  PROVE  NoGives(a \o b)
<1>1. a \in Seq(Frame) /\ b \in Seq(Frame)
  BY DEF NoGives
<1>2. /\ a \o b \in Seq(Frame)
      /\ \A k \in DOMAIN (a \o b) : (k \in DOMAIN a /\ (a \o b)[k] = a[k])
                                   \/ (k > Len(a) /\ k - Len(a) \in DOMAIN b /\ (a \o b)[k] = b[k - Len(a)])
  BY <1>1, Concat
<1> DEFINE c == a \o b
<1> HIDE DEF c
<1>3. /\ c \in Seq(Frame)
      /\ \A k \in DOMAIN c : (k \in DOMAIN a /\ c[k] = a[k]) \/ (k - Len(a) \in DOMAIN b /\ c[k] = b[k - Len(a)])
  BY <1>2 DEF c
<1>4. NoGives(c)
  BY <1>3 DEF NoGives
<1> QED
  BY <1>4 DEF c

\* A step that moves no units.
LEMMA TidyCounted ==
  ASSUME NEW o \in Sessions, Counted(o), Tidy(o), SameDues(stack', stack, o)
  PROVE  Counted(o)'
<1> DEFINE p == pend[o]
           q == pend'[o]
           g == prog[o]
           z == prog'[o]
           c == ClearsIn(stack, o)
<1>2. q.part = p.part /\ q.own = p.own /\ q.par = p.par /\ z.holds = g.holds
      /\ held'[o] = held[o] /\ (z.life = g.life \/ z.life \in {"off", "active"})
  BY DEF Tidy
<1>3. ClearsIn(stack', o) = c
  BY DEF SameDues
<1>4. SandboxOf(g, c) /\ EndedOf(g, c)
  BY DEF Counted
<1>5. \A r \in Units : CountOf(p, g, held[o][r], DueIn(stack, o, r), r)
  BY DEF Counted
<1> HIDE DEF p, q, g, z, c
<1>6. SandboxOf(z, c) /\ EndedOf(z, c)
  BY <1>2, <1>4 DEF SandboxOf, EndedOf
<1>7. ASSUME NEW r \in Units
      PROVE  CountOf(q, z, held'[o][r], DueIn(stack', o, r), r)
  <2>1. DueIn(stack', o, r) = DueIn(stack, o, r) /\ held'[o][r] = held[o][r]
    BY <1>2 DEF SameDues
  <2>2. CountOf(p, g, held[o][r], DueIn(stack, o, r), r)
    BY <1>5
  <2>3. CountOf(q, z, held[o][r], DueIn(stack, o, r), r)
    BY <1>2, <2>2 DEF CountOf
  <2> QED
    BY <2>1, <2>3
<1> QED
  BY <1>3, <1>6, <1>7 DEF Counted, q, z

LEMMA NoGroup ==
  ASSUME Good, Exact, ~Top("try") \/ ~pend[Head(stack).s].par
  PROVE  Unpaired
<1> SUFFICES ASSUME NEW o \in Sessions, pend[o].par, pend[o].mode # "tool" PROVE FALSE
  BY DEF Unpaired
<1>1. Top("try") /\ Head(stack).s = o
  BY DEF Exact, Grouped
<1> QED
  BY <1>1

LEMMA ExactKept ==
  ASSUME Good, Exact, world' = world, \A o \in Sessions : Counted(o)', \A o \in Sessions : Grouped(o)',
         \A o \in Sessions : MildSteps(pend'[o])
  PROVE  Exact'
<1>1. Sessions' = Sessions
  BY WorldKept
<1>2. \A t : Meek(t)' <=> Meek(t)
  BY DEF Meek, Mild, Modest
<1>3. MildTools'
  BY DEF MildTools, Exact, Mild
<1>4. \A o \in Sessions : MildSteps(pend[o])'
  BY <1>2 DEF MildSteps
<1> QED
  BY <1>1, <1>3, <1>4 DEF Exact

\* A step that moves no units, while no group is about to start.
LEMMA TidyKeeps ==
  ASSUME Good, Exact, world' = world, Unpaired, Undue, \A o \in Sessions : Tidy(o),
         \A o \in Sessions : pend'[o].par /\ pend[o].mode = "tool" => pend'[o].mode = "tool",
         \A o \in Sessions : MildSteps(pend'[o])
  PROVE  Exact'
<1>1. ASSUME NEW o \in Sessions
      PROVE  Counted(o)'
  <2>1. Counted(o) /\ Tidy(o) /\ SameDues(stack', stack, o)
    BY DEF Exact, Undue
  <2> QED
    BY <2>1, TidyCounted
<1>2. \A o \in Sessions : pend'[o].par => pend'[o].mode = "tool"
  BY DEF Unpaired, Tidy
<1>3. \A o \in Sessions : Grouped(o)'
  BY <1>2 DEF Grouped
<1> QED
  BY <1>1, <1>3, ExactKept

ProgsKept ==
  \A o \in Sessions : /\ prog'[o].holds = prog[o].holds
                      /\ prog'[o].life = prog[o].life \/ prog'[o].life \in {"off", "active"}

\* ... and changes one session's step.
LEMMA OneTidy ==
  ASSUME Good, Exact, world' = world, Unpaired, Undue, ProgsKept, held' = held,
         NEW s \in Sessions, NEW q, pend' = [pend EXCEPT ![s] = q],
         q.part = pend[s].part, q.own = pend[s].own, q.par = pend[s].par,
         q.par /\ pend[s].mode = "tool" => q.mode = "tool", MildSteps(q)
  PROVE  Exact'
<1>1. pend'[s] = q /\ \A o \in Sessions : o # s => pend'[o] = pend[o]
  BY Data
<1>2. \A o \in Sessions : Tidy(o)
  BY <1>1 DEF Tidy, ProgsKept
<1>3. \A o \in Sessions : MildSteps(pend'[o])
  BY <1>1 DEF Exact
<1>4. \A o \in Sessions : pend'[o].par /\ pend[o].mode = "tool" => pend'[o].mode = "tool"
  BY <1>1
<1> QED
  BY <1>2, <1>3, <1>4, TidyKeeps

LEMMA NoneTidy ==
  ASSUME Good, Exact, world' = world, Unpaired, Undue, ProgsKept, held' = held, pend' = pend
  PROVE  Exact'
<1>1. \A o \in Sessions : Tidy(o)
  BY DEF Tidy, ProgsKept
<1>2. \A o \in Sessions : MildSteps(pend'[o])
  BY DEF Exact
<1> QED
  BY <1>1, <1>2, TidyKeeps

\* ... but maybe that of s.
UnpairedBut(s) == \A o \in Sessions : o # s /\ pend[o].par => pend[o].mode = "tool"

LEMMA OthersToo == Unpaired => \A s : UnpairedBut(s)
BY DEF Unpaired, UnpairedBut

LEMMA OthersOnly ==
  ASSUME Exact, NEW s, s = Head(stack).s
  PROVE  UnpairedBut(s)
BY DEF Exact, Grouped, UnpairedBut

\* What the frames a that a step of s pushes make of its account.
Accounts(s, a, clears) ==
  /\ \A r \in Units : CountOf(pend'[s], prog'[s], held'[s][r], DueIn(a, s, r), r)
  /\ SandboxOf(prog'[s], clears) /\ EndedOf(prog'[s], clears)

LEMMA PushKeeps ==
  ASSUME Good, Exact, world' = world, NEW s \in Sessions, UnpairedBut(s), NEW b, Below(b, s),
         NEW a, NEW ops, NEW gives \in BOOLEAN, NEW clears, Volley(a, s, ops, gives, clears), stack' = a \o b,
         \A o \in Sessions : o # s => /\ Tidy(o) /\ pend'[o].step = pend[o].step /\ pend'[o].rest = pend[o].rest
                                      /\ (pend'[o].par /\ pend[o].mode = "tool" => pend'[o].mode = "tool"),
         Accounts(s, a, clears \cup ClearsIn(b, s)), pend'[s].par => pend'[s].mode = "tool", MildSteps(pend'[s])
  PROVE  Exact'
<1>1. b \in Seq(Frame) /\ Orderly(b) /\ OpsIn(b, s) = {} /\ ~GivesIn(b, s)
  BY DEF Below
<1>2. After(a \o b, b, a, s, ops, gives, clears)
  BY <1>1, Pushed
<1>3. ClearsIn(stack', s) = clears \cup ClearsIn(b, s) /\ \A r : DueIn(stack', s, r) = DueIn(a, s, r)
  BY <1>2 DEF After
<1>4. Counted(s)'
  BY <1>3 DEF Accounts, Counted
<1>5. ASSUME NEW o \in Sessions, o # s
      PROVE  Counted(o)'
  <2>1. SameView(a \o b, b, o)
    BY <1>1, <1>5, PushedOther
  <2>2. SameView(b, stack, o)
    BY <1>5 DEF Below
  <2> DEFINE q == a \o b
  <2>3. stack' = q /\ SameView(q, b, o)
    BY <2>1
  <2> HIDE DEF q
  <2>4. SameView(q, stack, o)
    BY <2>2, <2>3, SameViews
  <2>5. SameDues(stack', stack, o)
    BY <2>3, <2>4 DEF SameView, SameDues
  <2>6. Counted(o) /\ Tidy(o)
    BY <1>5 DEF Exact
  <2> QED
    BY <2>5, <2>6, TidyCounted
<1>6. \A o \in Sessions : Grouped(o)'
  BY DEF UnpairedBut, Tidy, Grouped
<1>7. \A o \in Sessions : MildSteps(pend'[o])
  BY DEF Exact, MildSteps
<1> QED
  BY <1>4, <1>5, <1>6, <1>7, ExactKept

\* ... or of one whose step stays the same.
LEMMA OneKept ==
  ASSUME Good, Exact, world' = world, Unpaired, Undue, ProgsKept, held' = held,
         NEW s \in Sessions, NEW q, pend' = [pend EXCEPT ![s] = q],
         q.part = pend[s].part, q.own = pend[s].own, q.par = pend[s].par, q.step = pend[s].step, q.rest = pend[s].rest,
         q.par /\ pend[s].mode = "tool" => q.mode = "tool"
  PROVE  Exact'
<1>1. MildSteps(q)
  BY DEF Exact, MildSteps
<1> QED
  BY <1>1, OneTidy

LEMMA SamePrograms ==
  ASSUME prog' = prog
  PROVE  ProgsKept
BY DEF ProgsKept

LEMMA OneProgram ==
  ASSUME Good, NEW s \in Sessions, NEW g, prog' = [prog EXCEPT ![s] = g], g.holds = prog[s].holds,
         g.life = prog[s].life \/ g.life \in {"off", "active"}
  PROVE  ProgsKept
<1>1. prog'[s] = g /\ \A o \in Sessions : o # s => prog'[o] = prog[o]
  BY Data
<1> QED
  BY <1>1 DEF ProgsKept

\* The handler of a call: whose it is, and that no group waits for it to end.
LEMMA CallExact ==
  ASSUME Good, Exact, NEW op \in ThreadOps, op # "try", Top(op), NEW a, NoGives(a), Run(a)
  PROVE  Unpaired /\ Undue /\ Head(stack).s \in Sessions
<1>1. stack # <<>> /\ Head(stack).op = op /\ op # "give"
  BY DEF Top, ThreadOps
<1>2. Unpaired
  BY <1>1, NoGroup DEF Top
<1>3. Undue
  BY <1>1, RunUndue DEF Run
<1>4. Head(stack).s \in Sessions
  BY <1>1, TopIsSession
<1> QED
  BY <1>2, <1>3, <1>4

LEMMA UnwaitExact ==
  ASSUME Good, Exact, Unpaired, NEW s \in Sessions, Waiting(s), Unwait(s, stack)
  PROVE  Exact'
<1> DEFINE p == pend[s]
           q == [p EXCEPT !.mode = "ready", !.want = <<"none", 0>>, !.gang = FALSE, !.flag = FALSE]
           a == <<Call("try", s)>>
<1>1. p \in PendRec /\ stack \in Seq(Frame) /\ p.mode = "waiting"
  BY Data DEF Waiting
<1>2. q.step = p.step /\ q.rest = p.rest /\ q.part = p.part /\ q.own = p.own /\ q.par = p.par
  BY <1>1 DEF PendRec
<1>3. world' = world /\ prog' = prog /\ held' = held /\ stack' = a \o stack /\ pend' = [pend EXCEPT ![s] = q]
  BY DEF Unwait
<1>4. NoGives(a)
  BY NoGivesCall DEF ThreadOps
<1> HIDE DEF p, q, a
<1>5. Undue
  BY <1>1, <1>3, <1>4, OverNoGives DEF Undue
<1> QED
  BY <1>1, <1>2, <1>3, <1>5, SamePrograms, OneKept DEF p

LEMMA WakeGangExact ==
  ASSUME Good, Exact, WakeGang
  PROVE  Exact'
<1>1. Top("lapse") /\ Unpaired
  BY NoGroup DEF WakeGang, Top
<1>2. ASSUME NEW s \in LapsedGangs(Head(stack).r), Unwait(s, stack)
      PROVE  Exact'
  BY <1>1, <1>2, UnwaitExact DEF LapsedGangs, Waiters
<1>3. ASSUME Run(<<[Head(stack) EXCEPT !.op = "wake"]>>), UNCHANGED <<world, prog, pend, held, lease, kv, aimd>>
      PROVE  Exact'
  <2> DEFINE f == [Head(stack) EXCEPT !.op = "wake"]
  <2>1. Head(stack) \in Frame
    BY <1>1, Data, HeadIs DEF Top
  <2>2. f \in Frame /\ f.op # "give"
    BY <2>1 DEF Frame
  <2> HIDE DEF f
  <2>3. NoGives(<<f>>)
    BY <2>2 DEF NoGives
  <2>4. Undue
    BY <1>1, <1>3, <2>3, RunUndue DEF Top, Run, f
  <2> QED
    BY <1>1, <1>3, <2>4, SamePrograms, NoneTidy
<1> QED
  BY <1>2, <1>3 DEF WakeGang

LEMMA WakeBestExact ==
  ASSUME Good, Exact, WakeBest
  PROVE  Exact'
<1>1. Top("wake") /\ Unpaired
  BY NoGroup DEF WakeBest, Top
<1>2. ASSUME NEW s \in FittingWaiters(Head(stack).r), Unwait(s, stack)
      PROVE  Exact'
  BY <1>1, <1>2, UnwaitExact DEF FittingWaiters, Waiters
<1>3. ASSUME Run(<<>>), UNCHANGED <<world, prog, pend, held, lease, kv, aimd>>
      PROVE  Exact'
  <2>1. Undue
    BY <1>1, <1>3, NoGivesNone, RunUndue DEF Top, Run
  <2> QED
    BY <1>1, <1>3, <2>1, SamePrograms, NoneTidy
<1> QED
  BY <1>2, <1>3 DEF WakeBest

\* _ready.
LEMMA ReadyExact ==
  ASSUME Good, Exact, NEW op \in ThreadOps \ {"try", "throttled"}, Top(op), NEW s, s = Head(stack).s,
         NEW step, NEW rest, Ready(s, step, rest), ProgsKept,
         Meek(step), \A i \in DOMAIN rest : Meek(rest[i]), \A i \in DOMAIN step.redo : Meek(step.redo[i])
  PROVE  Exact'
<1> DEFINE n == NoPending("ready")
           q == [n EXCEPT !.step = step, !.rest = rest]
           a == <<Call("try", s)>>
<1>1. world' = world /\ held' = held /\ Run(a) /\ pend' = [pend EXCEPT ![s] = q]
  BY DEF Ready
<1>2. n \in PendRec /\ n.part = <<>> /\ n.own = Nothing /\ n.par = FALSE
  BY NewPending DEF Modes
<1> HIDE DEF n
<1>3. q.step = step /\ q.rest = rest /\ q.part = <<>> /\ q.own = Nothing /\ q.par = FALSE
  BY <1>2 DEF PendRec
<1>4. At(s, {op}, ClearsIn(Tail(stack), s))
  BY AtCall DEF Top, IsThread
<1>5. s \in Sessions /\ pend[s].part = <<>> /\ ~pend[s].par /\ pend[s].own = Nothing /\ pend[s] \in PendRec
  BY <1>4 DEF At, FlowOf, OpFlow
<1>6. NoGives(a)
  BY <1>5, NoGivesCall DEF ThreadOps
<1> HIDE DEF q, a
<1>7. Unpaired /\ Undue
  BY <1>1, <1>6, CallExact
<1>8. MildSteps(q)
  BY <1>3 DEF MildSteps
<1>9. q.par = pend[s].par
  BY <1>3, <1>5, PendIs
<1> QED
  BY <1>1, <1>3, <1>5, <1>7, <1>8, <1>9, OneTidy

LEMMA MildNew ==
  /\ Meek(Fetch) /\ (\A i \in DOMAIN <<>> : Meek(<<>>[i])) /\ (\A i \in DOMAIN Fetch.redo : Meek(Fetch.redo[i]))
  /\ \A redo, out : Meek(Chat(redo, out)) /\ Chat(redo, out).redo = redo
BY DEF Meek, Mild, Fetch, Chat

LEMMA ReadyChatExact ==
  ASSUME Good, Exact, ReadyChat
  PROVE  Exact'
<1> DEFINE s == Head(stack).s
<1>1. Top("chat") /\ ProgsKept /\ "chat" \in ThreadOps \ {"try", "throttled"}
  BY SamePrograms DEF ReadyChat, ThreadOps
<1>2. CASE Ready(s, Fetch, <<>>)
  BY <1>1, <1>2, MildNew, ReadyExact
<1>3. ASSUME NEW out \in world.outs, Ready(s, Chat(<<>>, out), <<>>)
      PROVE  Exact'
  <2> DEFINE c == Chat(<<>>, out)
  <2>1. Meek(c) /\ \A i \in DOMAIN c.redo : Meek(c.redo[i])
    BY MildNew
  <2> HIDE DEF c
  <2> QED
    BY <1>1, <1>3, <2>1, MildNew, ReadyExact DEF c
<1> QED
  BY <1>2, <1>3 DEF ReadyChat

LEMMA FetchReturnsExact ==
  ASSUME Good, Exact, FetchReturns
  PROVE  Exact'
<1> DEFINE s == Head(stack).s
<1>1. Top("fetched") /\ ProgsKept /\ "fetched" \in ThreadOps \ {"try", "throttled"}
  BY SamePrograms DEF FetchReturns, ThreadOps
<1>2. PICK out \in world.outs : Ready(s, Chat(<<>>, out), <<>>)
  BY DEF FetchReturns
<1> DEFINE c == Chat(<<>>, out)
<1>3. Meek(c) /\ \A i \in DOMAIN c.redo : Meek(c.redo[i])
  BY MildNew
<1> HIDE DEF c
<1> QED
  BY <1>1, <1>2, <1>3, MildNew, ReadyExact DEF c

LEMMA ReplanExact ==
  ASSUME Good, Exact, NEW s, s = Head(stack).s, Top("react"), Replan(s)
  PROVE  Exact'
<1> DEFINE p == pend[s]
           redo == IF IsChat(s) THEN <<>> ELSE <<p.step>> \o p.rest
           g == Failed(s)
<1>1. s \in Sessions /\ p \in PendRec /\ prog[s] \in ProgRec
  BY AtCall DEF Top, IsThread, ThreadOps, At
<1>2. PICK out \in world.outs : Ready(s, Chat(redo, out), <<>>) /\ prog' = [prog EXCEPT ![s] = g]
  BY DEF Replan
<1>3. MildSteps(p) /\ p.rest \in Seq(Works)
  BY <1>1, PendIs DEF Exact
<1>4. \A i \in DOMAIN redo : Meek(redo[i])
  <2>1. CASE IsChat(s)
    BY <2>1
  <2>2. CASE ~IsChat(s)
    <3> DEFINE a == <<p.step>>
               b == p.rest
    <3>1. a \in Seq({p.step}) /\ a \in Seq(Steps) /\ b \in Seq(Steps)
      <4>1. p.step \in Steps /\ \A w \in Works : w \in Steps
        BY <1>1, PendIs, WorkIs
      <4> QED
        BY <1>3, <4>1
    <3>2. (\A i \in DOMAIN a : Meek(a[i])) /\ \A i \in DOMAIN b : Meek(b[i])
      BY <1>3 DEF MildSteps
    <3> HIDE DEF a, b
    <3>3. \A k \in DOMAIN (a \o b) : (k \in DOMAIN a /\ (a \o b)[k] = a[k])
                                   \/ (k > Len(a) /\ k - Len(a) \in DOMAIN b /\ (a \o b)[k] = b[k - Len(a)])
      BY <3>1, Concat
    <3>4. redo = a \o b
      BY <2>2 DEF a, b
    <3> HIDE DEF redo
    <3> QED
      BY <3>2, <3>3, <3>4
  <2> QED
    BY <2>1, <2>2
<1>5. g.holds = prog[s].holds /\ g.life = prog[s].life
  BY <1>1 DEF Failed, ProgRec
<1> HIDE DEF redo, g, p
<1>6. ProgsKept
  BY <1>1, <1>2, <1>5, OneProgram
<1> DEFINE c == Chat(redo, out)
<1>7. Meek(c) /\ \A i \in DOMAIN c.redo : Meek(c.redo[i])
  BY <1>4, MildNew
<1> HIDE DEF c
<1>8. "react" \in ThreadOps \ {"try", "throttled"}
  BY DEF ThreadOps
<1> QED
  BY <1>2, <1>6, <1>7, <1>8, MildNew, ReadyExact DEF c

LEMMA RetryExact ==
  ASSUME Good, Exact, NEW s, s = Head(stack).s, Top("react"), Retry(s)
  PROVE  Exact'
<1> DEFINE p == pend[s]
           q == [p EXCEPT !.tries = p.tries + 1, !.due = TRUE]
<1>1. s \in Sessions /\ p \in PendRec
  BY AtCall DEF Top, IsThread, ThreadOps, At
<1>2. q.step = p.step /\ q.rest = p.rest /\ q.part = p.part /\ q.own = p.own /\ q.par = p.par /\ q.mode = p.mode
  BY <1>1 DEF PendRec
<1>3. /\ world' = world /\ prog' = prog /\ held' = held /\ Run(<<>>) /\ pend' = [pend EXCEPT ![s] = q]
  BY DEF Retry
<1> HIDE DEF p, q
<1>4. Unpaired /\ Undue
  BY <1>3, NoGivesNone, CallExact DEF ThreadOps
<1> QED
  BY <1>1, <1>2, <1>3, <1>4, SamePrograms, OneKept DEF p

\* The step of s is over, for good or for now.
LEMMA NoneExact ==
  ASSUME Good, Exact, NEW op \in ThreadOps \ {"try", "throttled"}, Top(op), NEW s, s = Head(stack).s,
         NEW a, NoGives(a), Run(a), world' = world, held' = held, ProgsKept, NEW m \in Modes, pend' = [pend EXCEPT ![s] = NoPending(m)]
  PROVE  Exact'
<1> DEFINE q == NoPending(m)
<1>1. q.step = Fetch /\ q.rest = <<>> /\ q.part = <<>> /\ q.own = Nothing /\ q.par = FALSE /\ pend' = [pend EXCEPT ![s] = q]
  BY NewPending
<1> HIDE DEF q
<1>2. At(s, {op}, ClearsIn(Tail(stack), s))
  BY AtCall DEF Top, IsThread
<1>3. s \in Sessions /\ pend[s].part = <<>> /\ ~pend[s].par /\ pend[s].own = Nothing /\ pend[s] \in PendRec
  BY <1>2 DEF At, FlowOf, OpFlow
<1>4. Unpaired /\ Undue
  BY CallExact
<1>5. MildSteps(q)
  BY <1>1, MildNew DEF MildSteps
<1>6. q.par = pend[s].par
  BY <1>1, <1>3, PendIs
<1> QED
  BY <1>1, <1>3, <1>4, <1>5, <1>6, OneTidy

\* A call that leaves all steps alone.
LEMMA CallTidy ==
  ASSUME Good, Exact, NEW op \in ThreadOps, op # "try", Top(op), NEW a, NoGives(a), Run(a),
         world' = world, held' = held, ProgsKept, pend' = pend
  PROVE  Exact'
<1>1. Unpaired /\ Undue
  BY CallExact
<1> QED
  BY <1>1, NoneTidy

LEMMA GoneExact ==
  ASSUME Good, Exact, Gone
  PROVE  Exact'
<1> DEFINE s == Head(stack).s
           a == Waking("kv", Tail(stack)) \o <<Call("bury", s)>>
<1>1. Top("gone") /\ Run(a) /\ UNCHANGED <<world, prog, pend, held>>
  BY DEF Gone
<1>2. s \in Sessions
  BY <1>1, TopIsSession DEF Top
<1>3. NoGives(Waking("kv", Tail(stack)))
  BY Data, NoGivesNone, NoGivesWake DEF Waking
<1>4. NoGives(<<Call("bury", s)>>)
  BY <1>2, NoGivesCall DEF ThreadOps
<1>5. NoGives(a)
  BY <1>3, <1>4, NoGivesConcat
<1> HIDE DEF a
<1> QED
  BY <1>1, <1>5, SamePrograms, CallTidy DEF ThreadOps

LEMMA BuryExact ==
  ASSUME Good, Exact, Bury
  PROVE  Exact'
<1> DEFINE s == Head(stack).s
<1>1. /\ Top("bury") /\ world' = world /\ held' = held /\ pend' = [pend EXCEPT ![s] = NoPending("off")]
      /\ "bury" \in ThreadOps \ {"try", "throttled"} /\ "off" \in Modes
  BY DEF Bury, ThreadOps, Modes
<1>2. s \in Sessions /\ world \in Worlds
  BY <1>1, TopIsSession, Data DEF Top
<1>3. CASE IsKid(s)
  <2> DEFINE p == Parent(s)
             n == prog[p].joins - 1
             g == [prog[p] EXCEPT !.joins = n]
             a == IF prog[p].joins = 1 /\ Active(p) THEN <<Call("chat", p)>> ELSE <<>>
  <2>1. p \in Sessions
    BY <1>2, <1>3, ParentIs
  <2>2. prog' = [prog EXCEPT ![p].joins = prog[p].joins - 1] /\ Run(a)
    BY <1>3 DEF Bury
  <2>3. prog' = [prog EXCEPT ![p] = g]
    BY <2>2
  <2>4. prog[p] \in ProgRec
    BY <2>1, Data
  <2> HIDE DEF n
  <2>5. g.holds = prog[p].holds /\ g.life = prog[p].life
    BY <2>4 DEF ProgRec
  <2>6. NoGives(<<Call("chat", p)>>)
    BY <2>1, NoGivesCall DEF ThreadOps
  <2>7. NoGives(a)
    BY <2>6, NoGivesNone
  <2> HIDE DEF a, g, p
  <2>8. ProgsKept
    BY <2>1, <2>3, <2>5, OneProgram
  <2> QED
    BY <1>1, <2>2, <2>7, <2>8, NoneExact
<1>4. CASE ~IsKid(s)
  <2>1. prog' = prog /\ Run(<<>>)
    BY <1>4 DEF Bury
  <2> QED
    BY <1>1, <2>1, SamePrograms, NoGivesNone, NoneExact
<1> QED
  BY <1>3, <1>4

LEMMA ProceedExact ==
  ASSUME Good, Exact, Proceed
  PROVE  Exact'
<1> DEFINE s == Head(stack).s
           rest == pend[s].rest
<1>1. Top("next") /\ "next" \in ThreadOps \ {"try", "throttled"} /\ "ready" \in Modes /\ prog' = prog
  BY DEF Proceed, ThreadOps, Modes
<1>2. s \in Sessions /\ pend[s] \in PendRec
  BY <1>1, TopIsSession, Data DEF Top
<1>3. rest \in Seq(Works) /\ MildSteps(pend[s])
  BY <1>2, PendIs DEF Exact
<1>4. CASE rest # <<>>
  <2>1. Ready(s, Head(rest), Tail(rest))
    BY <1>4 DEF Proceed
  <2> DEFINE h == Head(rest)
             t == Tail(rest)
  <2>2. h \in Works /\ t \in Seq(Works) /\ h = rest[1] /\ 1 \in DOMAIN rest
    BY <1>3, <1>4
  <2>3. Len(t) = Len(rest) - 1 /\ \A i \in 1 .. Len(t) : t[i] = rest[i + 1]
    BY <1>3, <1>4, HeadTailProperties
  <2>4. \A i \in DOMAIN t : i + 1 \in DOMAIN rest /\ t[i] = rest[i + 1]
    <3>1. DOMAIN t = 1 .. Len(t) /\ DOMAIN rest = 1 .. Len(rest) /\ Len(rest) \in Nat
      BY <1>3, <2>2, LenProperties
    <3> QED
      BY <2>3, <3>1
  <2>5. \A i \in DOMAIN rest : Meek(rest[i])
    BY <1>3 DEF MildSteps
  <2>6. h.redo = <<>>
    BY <2>2 DEF Works, ToolSteps, Requests
  <2> HIDE DEF h, t, rest
  <2>7. Meek(h) /\ (\A i \in DOMAIN t : Meek(t[i])) /\ \A i \in DOMAIN h.redo : Meek(h.redo[i])
    BY <2>2, <2>4, <2>5, <2>6
  <2>8. Ready(s, h, t)
    BY <2>1 DEF h, t
  <2> QED
    BY <1>1, <2>7, <2>8, SamePrograms, ReadyExact
<1>5. CASE rest = <<>>
  <2>1. pend' = [pend EXCEPT ![s] = NoPending("ready")] /\ Run(<<Call("chat", s)>>) /\ UNCHANGED <<world, prog, held, lease, kv, aimd>>
    BY <1>5 DEF Proceed
  <2>2. NoGives(<<Call("chat", s)>>)
    BY <1>2, NoGivesCall DEF ThreadOps
  <2> QED
    BY <1>1, <2>1, <2>2, SamePrograms, NoneExact
<1> QED
  BY <1>4, <1>5

LEMMA StartKidExact ==
  ASSUME Good, Exact, StartKid
  PROVE  Exact'
<1> DEFINE s == Head(stack).s
           g == [prog[s] EXCEPT !.life = "active"]
<1>1. Top("start") /\ Run(<<Call("chat", s)>>) /\ UNCHANGED <<world, pend, held>> /\ prog' = [prog EXCEPT ![s] = g]
  BY DEF StartKid
<1>2. s \in Sessions /\ prog[s] \in ProgRec
  BY <1>1, TopIsSession, Data DEF Top
<1>3. g.holds = prog[s].holds /\ g.life = "active"
  BY <1>2 DEF ProgRec
<1>4. NoGives(<<Call("chat", s)>>)
  BY <1>2, NoGivesCall DEF ThreadOps
<1> HIDE DEF g
<1>5. ProgsKept
  BY <1>1, <1>2, <1>3, OneProgram
<1> QED
  BY <1>1, <1>4, <1>5, CallTidy DEF ThreadOps

LEMMA ToolReturnsExact ==
  ASSUME Good, Exact, ToolReturns
  PROVE  Exact'
<1> DEFINE s == Head(stack).s
<1>1. Top("worked") /\ Run(<<Call("next", s)>>) /\ UNCHANGED <<world, prog, pend, held>>
  BY DEF ToolReturns
<1>2. s \in Sessions
  BY <1>1, TopIsSession DEF Top
<1>3. NoGives(<<Call("next", s)>>)
  BY <1>2, NoGivesCall DEF ThreadOps
<1> QED
  BY <1>1, <1>3, SamePrograms, CallTidy DEF ThreadOps

LEMMA JoinParkExact ==
  ASSUME Good, Exact, JoinPark
  PROVE  Exact'
<1> DEFINE s == Head(stack).s
           n == IF prog[s].holds["mem"] > 0 THEN prog[s].park + 1 ELSE prog[s].park
           g == [prog[s] EXCEPT !.park = n]
<1>1. Top("joinpark") /\ Run(<<>>) /\ UNCHANGED <<world, pend, held>> /\ prog' = [prog EXCEPT ![s] = g]
  BY DEF JoinPark
<1>2. s \in Sessions /\ prog[s] \in ProgRec
  BY <1>1, TopIsSession, Data DEF Top
<1> HIDE DEF n
<1>3. g.holds = prog[s].holds /\ g.life = prog[s].life
  BY <1>2 DEF ProgRec
<1> HIDE DEF g
<1>4. ProgsKept
  BY <1>1, <1>2, <1>3, OneProgram
<1>5. Unpaired /\ Undue
  BY <1>1, NoGroup, NoGivesNone, RunUndue DEF Top, Run
<1> QED
  BY <1>1, <1>4, <1>5, NoneTidy

LEMMA CallCountedExact ==
  ASSUME Good, Exact, CallCounted
  PROVE  Exact'
<1>1. Top("counted") /\ Run(<<>>) /\ UNCHANGED <<world, prog, pend, held>>
  BY DEF CallCounted
<1>2. Unpaired /\ Undue
  BY <1>1, NoGroup, NoGivesNone, RunUndue DEF Top, Run
<1> QED
  BY <1>1, <1>2, SamePrograms, NoneTidy

LEMMA SpawnExact ==
  ASSUME Good, Exact, Spawn
  PROVE  Exact'
<1> DEFINE s == Head(stack).s
           kids == SetToSeq(Kids(s))
           k == [i \in DOMAIN kids |-> Call("start", kids[i])]
           a == k \o <<Call("joinpark", s)>>
           g == [prog[s] EXCEPT !.fanned = TRUE, !.joins = Len(kids)]
<1>1. /\ Top("spawn") /\ pend' = [pend EXCEPT ![s] = NoPending("join")] /\ Run(a) /\ world' = world /\ held' = held
      /\ prog' = [prog EXCEPT ![s].fanned = TRUE, ![s].joins = Len(kids)]
  BY DEF Spawn
<1>2. s \in Sessions /\ prog[s] \in ProgRec
  BY <1>1, TopIsSession, Data DEF Top
<1>3. g.holds = prog[s].holds /\ g.life = prog[s].life /\ prog' = [prog EXCEPT ![s] = g]
  BY <1>1, <1>2, Data DEF ProgRec
<1>4. NoGives(k)
  <2>1. IsFiniteSet(Kids(s)) /\ Kids(s) \subseteq Sessions
    BY <1>2, Data, WorldIs, FS_EmptySet DEF Kids
  <2>2. kids \in Seq(Kids(s))
    BY <2>1, SeqOfSet
  <2> HIDE DEF kids
  <2>3. DOMAIN k = DOMAIN kids /\ \A i \in DOMAIN kids : kids[i] \in Sessions
    BY <2>1, <2>2
  <2>4. \A i \in DOMAIN k : k[i] \in Frame /\ k[i].op # "give"
    <3> SUFFICES ASSUME NEW i \in DOMAIN kids PROVE k[i] \in Frame /\ k[i].op # "give"
      BY <2>3
    <3>1. k[i] = Call("start", kids[i]) /\ kids[i] \in Sessions
      BY <2>3
    <3> QED
      BY <3>1, CallIs DEF ThreadOps
  <2>5. k \in Seq(Frame)
    <3>1. DOMAIN k = 1 .. Len(kids) /\ Len(kids) \in Nat
      BY <2>2, LenProperties
    <3>2. k = [i \in DOMAIN kids |-> k[i]]
      OBVIOUS
    <3>3. k \in [1 .. Len(kids) -> Frame]
      BY <2>4, <3>1, <3>2
    <3> QED
      BY <3>1, <3>3, IsASeq
  <2> QED
    BY <2>4, <2>5 DEF NoGives
<1>5. NoGives(<<Call("joinpark", s)>>)
  BY <1>2, NoGivesCall
<1> HIDE DEF k, g, kids
<1>6. NoGives(a)
  BY <1>4, <1>5, NoGivesConcat
<1>7. ProgsKept
  BY <1>2, <1>3, OneProgram
<1> HIDE DEF a
<1> QED
  BY <1>1, <1>6, <1>7, NoneExact DEF ThreadOps, Modes

\* Events.
LEMMA EventExact ==
  ASSUME Good, Exact, NEW a, NoGives(a), Handle(a)
  PROVE  Unpaired /\ Undue
<1>1. stack = <<>> /\ stack' = a
  BY DEF Handle, AtRest
<1>2. Unpaired
  BY <1>1, NoGroup DEF Top
<1> QED
  BY <1>1, <1>2, HandleUndue

LEMMA EventTidy ==
  ASSUME Good, Exact, NEW a, NoGives(a), Handle(a), world' = world, held' = held, ProgsKept, pend' = pend
  PROVE  Exact'
<1>1. Unpaired /\ Undue
  BY EventExact
<1> QED
  BY <1>1, NoneTidy

LEMMA ArriveExact ==
  ASSUME Good, Exact, NEW s \in Sessions, world' = world, Arrive(s)
  PROVE  Exact'
<1> DEFINE g == [prog[s] EXCEPT !.life = "active"]
<1>1. Handle(<<Call("chat", s)>>) /\ UNCHANGED <<pend, held>> /\ prog' = [prog EXCEPT ![s] = g]
  BY DEF Arrive
<1>2. prog[s] \in ProgRec
  BY Data
<1>3. g.holds = prog[s].holds /\ g.life = "active"
  BY <1>2 DEF ProgRec
<1>4. NoGives(<<Call("chat", s)>>)
  BY NoGivesCall DEF ThreadOps
<1> HIDE DEF g
<1>5. ProgsKept
  BY <1>1, <1>3, OneProgram
<1> QED
  BY <1>1, <1>4, <1>5, EventTidy

LEMMA RequestStartExact ==
  ASSUME Good, Exact, NEW s \in Sessions, world' = world, RequestStart(s)
  PROVE  Exact'
<1>1. Handle(<<Call("chat", s)>>) /\ UNCHANGED <<pend, held, prog>>
  BY DEF RequestStart
<1>2. NoGives(<<Call("chat", s)>>)
  BY NoGivesCall DEF ThreadOps
<1> QED
  BY <1>1, <1>2, SamePrograms, EventTidy

LEMMA DueTryExact ==
  ASSUME Good, Exact, NEW s \in Sessions, world' = world, DueTry(s)
  PROVE  Exact'
<1> DEFINE p == pend[s]
           q == [p EXCEPT !.due = FALSE]
<1>1. Handle(<<Call("try", s)>>) /\ UNCHANGED <<prog, held>> /\ pend' = [pend EXCEPT ![s] = q]
  BY DEF DueTry
<1>2. p \in PendRec
  BY Data
<1>3. q.step = p.step /\ q.rest = p.rest /\ q.part = p.part /\ q.own = p.own /\ q.par = p.par /\ q.mode = p.mode
  BY <1>2 DEF PendRec
<1>4. NoGives(<<Call("try", s)>>)
  BY NoGivesCall DEF ThreadOps
<1> HIDE DEF p, q
<1>5. Unpaired /\ Undue
  BY <1>1, <1>4, EventExact
<1> QED
  BY <1>1, <1>3, <1>5, SamePrograms, OneKept DEF p

LEMMA ChatEndExact ==
  ASSUME Good, Exact, NEW s \in Sessions, world' = world, ChatEnd(s)
  PROVE  Exact'
<1> DEFINE a == <<Wake("kv")>>
           b == <<Call("answered", s)>>
<1>1. NoGives(a) /\ NoGives(b)
  BY Data, NoGivesWake, NoGivesCall DEF ThreadOps
<1>2. NoGives(a \o b)
  BY <1>1, NoGivesConcat
<1>3. <<Wake("kv"), Call("answered", s)>> = a \o b
  OBVIOUS
<1>4. Handle(a \o b) /\ UNCHANGED <<prog, pend, held>>
  BY <1>3 DEF ChatEnd
<1> HIDE DEF a, b
<1> QED
  BY <1>2, <1>4, SamePrograms, EventTidy

LEMMA ExpireExact ==
  ASSUME Good, Exact, NEW s \in Sessions, world' = world, Expire(s)
  PROVE  Exact'
<1> DEFINE ended == {r \in Units : lease[s][r] > 0}
<1>1. ended \in SUBSET Units /\ ended # {}
  BY DEF Expire
<1>2. Handle(<<Wake(First(ended))>>) /\ UNCHANGED <<prog, pend, held>>
  BY DEF Expire
<1> HIDE DEF ended
<1>3. First(ended) \in Units
  BY <1>1, FirstIs
<1>4. NoGives(<<Wake(First(ended))>>)
  BY <1>3, Data, NoGivesWake
<1> QED
  BY <1>2, <1>4, SamePrograms, EventTidy

LEMMA ReannotateExact ==
  ASSUME Good, Exact, NEW s \in Sessions, world' = world, Reannotate(s)
  PROVE  Exact'
<1> DEFINE a == <<Wake("slots"), Wake("mem"), Wake("cpu"), Wake("ext"), Wake("ret"), Wake("kv")>>
<1>1. \A r \in Units \cup {"kv"} : Wake(r) \in Frame /\ Wake(r).op # "give"
  BY Data, WakeIs
<1>2. /\ Wake("slots") \in Frame /\ Wake("slots").op # "give" /\ Wake("mem") \in Frame /\ Wake("mem").op # "give"
      /\ Wake("cpu") \in Frame /\ Wake("cpu").op # "give" /\ Wake("ext") \in Frame /\ Wake("ext").op # "give"
      /\ Wake("ret") \in Frame /\ Wake("ret").op # "give" /\ Wake("kv") \in Frame /\ Wake("kv").op # "give"
  BY <1>1, UnitsAre
<1>3. \A u, v, w, x, y, z \in Frame : <<u, v, w, x, y, z>> \in Seq(Frame)
  OBVIOUS
<1>4. \A u, v, w, x, y, z : \A i \in DOMAIN <<u, v, w, x, y, z>> :
        <<u, v, w, x, y, z>>[i] \in {u, v, w, x, y, z}
  OBVIOUS
<1>5. a \in Seq(Frame) /\ \A i \in DOMAIN a : a[i].op # "give"
  <2>1. a \in Seq(Frame)
    BY <1>2, <1>3
  <2>2. \A i \in DOMAIN a : a[i] \in {Wake("slots"), Wake("mem"), Wake("cpu"), Wake("ext"), Wake("ret"), Wake("kv")}
    BY <1>4, ZenonT(30)
  <2> HIDE DEF a
  <2> QED
    BY <1>2, <2>1, <2>2
<1>6. Handle(a) /\ UNCHANGED <<prog, pend, held>>
  BY DEF Reannotate
<1> HIDE DEF a
<1>7. NoGives(a)
  BY <1>5 DEF NoGives
<1> QED
  BY <1>6, <1>7, SamePrograms, EventTidy

\* The sessions that are evicted.
LEMMA EvictedTidy ==
  ASSUME Good, Exact, NEW p \in [Sessions -> PendRec], NEW V, NEW o \in Sessions, pend' = Evicted(p, V),
         p[o].part = pend[o].part, p[o].own = pend[o].own, p[o].par = pend[o].par,
         p[o].step = pend[o].step, p[o].rest = pend[o].rest
  PROVE  /\ pend'[o].part = pend[o].part /\ pend'[o].own = pend[o].own /\ pend'[o].par = pend[o].par
         /\ pend'[o].step = pend[o].step /\ pend'[o].rest = pend[o].rest
         /\ pend'[o].mode = p[o].mode \/ o \in V
<1>1. pend'[o] = IF o \in V THEN [p[o] EXCEPT !.mode = "ready", !.due = TRUE] ELSE p[o]
  BY DEF Evicted
<1>2. p[o] \in PendRec
  OBVIOUS
<1> DEFINE x == p[o]
           y == [x EXCEPT !.mode = "ready", !.due = TRUE]
<1>3. y.part = x.part /\ y.own = x.own /\ y.par = x.par /\ y.step = x.step /\ y.rest = x.rest
  BY <1>2 DEF PendRec
<1> HIDE DEF y
<1> QED
  BY <1>1, <1>3 DEF y

LEMMA DecodeStartExact ==
  ASSUME Good, Exact, NEW s \in Sessions, world' = world, DecodeStart(s)
  PROVE  Exact'
<1> DEFINE r == [pend[s] EXCEPT !.mode = "decode"]
           p == [pend EXCEPT ![s] = r]
           out == pend[s].step.out
<1>1. pend \in [Sessions -> PendRec] /\ pend[s] \in PendRec
  BY Data
<1>2. r \in PendRec /\ r.part = pend[s].part /\ r.own = pend[s].own /\ r.par = pend[s].par /\ r.step = pend[s].step
      /\ r.rest = pend[s].rest
  BY <1>1 DEF PendRec, Modes
<1>3. PICK o \in BeginDecode(kv, world.size, s, out) : kv' = o.cache /\ pend' = Evicted([pend EXCEPT ![s].mode = "decode"], o.victims)
  BY DEF DecodeStart
<1> DEFINE V == o.victims
<1>4. pend' = Evicted(p, V)
  BY <1>1, <1>3
<1> HIDE DEF r, V
<1>5. p \in [Sessions -> PendRec] /\ p[s] = r /\ \A x \in Sessions : x # s => p[x] = pend[x]
  BY <1>1, <1>2
<1> HIDE DEF p
<1>6. \A x \in Sessions : /\ pend'[x].part = pend[x].part /\ pend'[x].own = pend[x].own /\ pend'[x].par = pend[x].par
                          /\ pend'[x].step = pend[x].step /\ pend'[x].rest = pend[x].rest
                          /\ pend'[x].mode = p[x].mode \/ x \in V
  <2> SUFFICES ASSUME NEW x \in Sessions
               PROVE  /\ pend'[x].part = pend[x].part /\ pend'[x].own = pend[x].own /\ pend'[x].par = pend[x].par
                      /\ pend'[x].step = pend[x].step /\ pend'[x].rest = pend[x].rest
                      /\ pend'[x].mode = p[x].mode \/ x \in V
    OBVIOUS
  <2>1. /\ p[x].part = pend[x].part /\ p[x].own = pend[x].own /\ p[x].par = pend[x].par
        /\ p[x].step = pend[x].step /\ p[x].rest = pend[x].rest
    BY <1>2, <1>5
  <2> QED
    BY <1>4, <1>5, <2>1, EvictedTidy
<1>7. \A x \in V : kv[x].at = "decode"
  <2>1. kv \in [Sessions -> Cache]
    BY Data
  <2> DEFINE size == world.size
  <2>2. o \in BeginDecode(kv, size, s, out) /\ out \in Nat
    BY <1>1, <1>3, PendIs, StepIs
  <2> HIDE DEF size, out
  <2>3. \E k \in [Sessions -> Cache] :
           /\ o.cache = [k EXCEPT ![s] = Entry("decode", kv[s].tok + out)] /\ size - Occupied(k) >= out
           /\ Evicts(k, kv, o.victims)
    BY <2>1, <2>2, DecodeBegins, ZenonT(40)
  <2> QED
    BY <2>3 DEF Evicts, In, V
<1>8. Unpaired /\ Undue /\ held' = held /\ prog' = prog /\ pend[s].mode = "prefill"
  BY NoGivesNone, EventExact DEF DecodeStart
<1>9. ASSUME NEW x \in Sessions, pend'[x].par, pend[x].mode = "tool"
      PROVE  pend'[x].mode = "tool"
  <2>1. FlowOf(pend[x], prog[x], kv[x].at, OpsIn(stack, x), GivesIn(stack, x))
    BY DEF Good, Flows, Flow
  <2>2. kv[x].at # "decode" /\ x # s
    BY <1>8, <1>9, <2>1 DEF FlowOf
  <2> QED
    BY <1>5, <1>6, <1>7, <1>9, <2>2
<1>10. \A x \in Sessions : Tidy(x)
  BY <1>6, <1>8 DEF Tidy
<1>11. \A x \in Sessions : MildSteps(pend'[x])
  BY <1>6 DEF Exact, MildSteps
<1>12. \A x \in Sessions : pend'[x].par /\ pend[x].mode = "tool" => pend'[x].mode = "tool"
  BY <1>9
<1> QED
  BY <1>8, <1>10, <1>11, <1>12, TidyKeeps

\* The account that the handler of a call finds: nothing is on its way back.
LEMMA CallCounts ==
  ASSUME Good, Exact, NEW op \in ThreadOps, Top(op), NEW s, s = Head(stack).s
  PROVE  /\ s \in Sessions /\ Below(Tail(stack), s) /\ At(s, {op}, ClearsIn(Tail(stack), s))
         /\ ClearsIn(stack, s) = ClearsIn(Tail(stack), s) /\ \A r : DueIn(stack, s, r) = 0
         /\ \A r \in Units : CountOf(pend[s], prog[s], held[s][r], 0, r)
         /\ SandboxOf(prog[s], ClearsIn(Tail(stack), s)) /\ EndedOf(prog[s], ClearsIn(Tail(stack), s))
         /\ MildSteps(pend[s])
<1>1. stack # <<>> /\ Head(stack).s = s /\ IsThread(Head(stack)) /\ Head(stack).op = op
  BY DEF Top, IsThread
<1>2. Below(Tail(stack), s) /\ At(s, {op}, ClearsIn(Tail(stack), s))
  BY <1>1, AtCall
<1>3. s \in Sessions /\ ClearsIn(Tail(stack), s) = ClearsIn(stack, s) /\ \A r : DueIn(stack, s, r) = 0
  BY <1>1, HandlerOf DEF Good, Typed, Flows
<1>4. Counted(s) /\ MildSteps(pend[s])
  BY <1>3 DEF Exact
<1> QED
  BY <1>2, <1>3, <1>4 DEF Counted

\* A group gets its extra units right before it starts.
LEMMA TryUnpaired ==
  ASSUME Good, Exact, Top("try"), NEW s, s = Head(stack).s,
         Missing(s) # {} \/ Spare(s) \/ IsChat(s) \/ (world.metered /\ pend[s].step.ext > 0)
  PROVE  Unpaired
<1>1. At(s, {"try"}, ClearsIn(Tail(stack), s)) /\ s \in Sessions /\ MildSteps(pend[s])
  BY CallCounts DEF ThreadOps
<1>2. PartOf(pend[s]) /\ pend[s].mode = "ready" /\ pend[s].step \in Steps
  BY <1>1, PendIs DEF At, FlowOf, OpFlow
<1>3. ~pend[s].par
  <2> SUFFICES ASSUME pend[s].par PROVE FALSE
    OBVIOUS
  <2>1. Missing(s) = {}
    BY <1>1, <1>2 DEF Exact, Grouped
  <2>2. Extra(pend[s].step) > 0
    BY <1>2 DEF PartOf
  <2>3. pend[s].step.loc > 1 /\ pend[s].step.kind = "tool" /\ pend[s].step.loc \in Nat /\ pend[s].step.ext \in Nat
    BY <1>2, <2>2, ExtraIs, StepIs
  <2>4. world.metered => pend[s].step.loc <= 1 \/ pend[s].step.ext = 0
    BY <1>1 DEF MildSteps, Meek, Mild
  <2> QED
    BY <2>1, <2>3, <2>4 DEF Spare, IsChat
<1> QED
  BY <1>3, NoGroup

LEMMA WaitExact ==
  ASSUME Good, Exact, Unpaired, Top("try"), NEW s, s = Head(stack).s, NEW u, NEW amt, NEW gang, Wait(s, u, amt, gang)
  PROVE  Exact'
<1> DEFINE p == pend[s]
           c == ~gang /\ InWaitCycle(s, u)
           q == [p EXCEPT !.mode = "waiting", !.want = <<u, amt>>, !.gang = gang, !.flag = c]
<1>1. s \in Sessions /\ p \in PendRec
  BY TopIsSession, Data DEF Top
<1>2. world' = world /\ prog' = prog /\ held' = held /\ Run(<<>>) /\ pend' = [pend EXCEPT ![s] = q]
  BY DEF Wait
<1> HIDE DEF c
<1>3. q.step = p.step /\ q.rest = p.rest /\ q.part = p.part /\ q.own = p.own /\ q.par = p.par
  BY <1>1 DEF PendRec
<1>4. p.mode = "ready"
  <2>1. At(s, {"try"}, ClearsIn(Tail(stack), s))
    BY CallCounts DEF ThreadOps
  <2> QED
    BY <2>1 DEF At, FlowOf, OpFlow
<1> HIDE DEF p, q
<1>5. Undue
  BY <1>2, NoGivesNone, RunUndue DEF Top, Run
<1> QED
  BY <1>1, <1>2, <1>3, <1>4, <1>5, SamePrograms, OneKept DEF p

LEMMA ThrottleExact ==
  ASSUME Good, Exact, Top("try"), NEW s, s = Head(stack).s, Throttle(s)
  PROVE  Exact'
<1>1. Run(<<Call("throttled", s)>>) /\ UNCHANGED <<world, prog, pend, held>> /\ world.metered /\ (IsChat(s) \/ pend[s].step.ext > 0)
  BY DEF Throttle, Metered
<1>2. Unpaired
  BY <1>1, TryUnpaired
<1>3. NoGives(<<Call("throttled", s)>>)
  BY TopIsSession, NoGivesCall DEF ThreadOps, Top
<1>4. Undue
  BY <1>1, <1>3, RunUndue DEF Top, Run
<1> QED
  BY <1>1, <1>2, <1>4, SamePrograms, NoneTidy

\* What the step has taken so far goes back.
LEMMA ReturnCounts ==
  ASSUME Good, NEW s \in Sessions, NEW p \in PendRec, NEW g \in ProgRec, NEW h, NEW q \in PendRec, NEW r \in Units,
         CountOf(p, g, h, 0, r), ~p.par, q.part = <<>>, q.own = p.own
  PROVE  CountOf(q, g, h, Amount(p.part, r), r)
<1>1. Amount(p.part, r) \in Nat /\ g.holds[r] \in Nat /\ p.own[r] \in Nat
  BY AmountIs, PendIs, ProgIs DEF Bags
<1>2. Amount(q.part, r) = 0
  BY AmountEmpty
<1>3. Amount(p.part, r) > 0 => g.holds[r] = 0
  BY Zenon DEF CountOf
<1>4. h = g.holds[r] + Amount(p.part, r) /\ (r \in {"ext", "ret"} => g.holds[r] <= p.own[r])
  BY <1>1 DEF CountOf
<1> DEFINE n == Amount(p.part, r)
           x == g.holds[r]
           o == p.own[r]
<1>5. n \in Nat /\ x \in Nat /\ o \in Nat /\ h = x + n /\ (n > 0 => x = 0) /\ (r \in {"ext", "ret"} => x <= o)
  BY <1>1, <1>3, <1>4
<1>6. q.own[r] = o
  OBVIOUS
<1>7. (n > 0 => x = 0) <=> n = 0 \/ x = 0
  BY <1>5
<1> HIDE DEF n, x, o
<1>8. h = x + 0 + (IF x = 0 THEN n ELSE 0)
  BY <1>5
<1>9. x > 0 => n <= x
  BY <1>5
<1>10. r \in {"ext", "ret"} => x <= o + n
  BY <1>5
<1>11. r = "mem" /\ n > 0 => x = 0
  BY <1>5
<1>12. CountOf(q, g, h, n, r)
  BY <1>2, <1>6, <1>8, <1>9, <1>10, <1>11 DEF CountOf, x
<1> QED
  BY <1>12 DEF n

LEMMA FailExact ==
  ASSUME Good, Exact, Unpaired, NEW op \in {"try", "throttled"}, Top(op), NEW s, s = Head(stack).s, Fail(s)
  PROVE  Exact'
<1> DEFINE b == Tail(stack)
           p == pend[s]
           q == [p EXCEPT !.part = <<>>, !.par = FALSE]
           a == GiveEach(s, p.part) \o <<Call("react", s)>>
           c == ClearsIn(b, s)
<1>0. op \in ThreadOps
  BY DEF ThreadOps
<1>1. /\ s \in Sessions /\ Below(b, s) /\ At(s, {op}, c) /\ MildSteps(p)
      /\ (\A r \in Units : CountOf(p, prog[s], held[s][r], 0, r)) /\ SandboxOf(prog[s], c) /\ EndedOf(prog[s], c)
  BY <1>0, CallCounts
<1>2. p \in PendRec /\ prog[s] \in ProgRec /\ <<>> \in Parts
  BY <1>1 DEF At, Parts
<1>3. q \in PendRec /\ q.step = p.step /\ q.rest = p.rest /\ q.part = <<>> /\ q.own = p.own /\ q.par = FALSE
  BY <1>2, ZenonT(40) DEF PendRec
<1>4. /\ world' = world /\ prog' = prog /\ held' = held /\ stack' = a \o b /\ pend' = [pend EXCEPT ![s] = q]
  BY DEF Fail, Run
<1>5. Volley(a, s, {"react"}, TRUE, {}) /\ \A r \in Units : DueIn(a, s, r) = Amount(p.part, r)
  <2>1. p.part \in Parts /\ \A i \in DOMAIN p.part : p.part[i][2] > 0
    BY <1>1, <1>2, PendIs DEF At, PartOf
  <2> DEFINE e == GiveEach(s, p.part)
  <2>2. Volley(e, s, {}, TRUE, {}) /\ \A r \in Units : DueIn(e, s, r) = Amount(p.part, r)
    BY <1>1, <2>1, VolleyEach
  <2>3. "react" \in ThreadOps
    BY DEF ThreadOps
  <2> HIDE DEF e, p
  <2>4. /\ Volley(e \o <<Call("react", s)>>, s, {"react"}, TRUE, {})
        /\ \A r : DueIn(e \o <<Call("react", s)>>, s, r) = DueIn(e, s, r)
    BY <1>1, <2>2, <2>3, VolleyEnds, ZenonT(40)
  <2> QED
    BY <2>2, <2>4 DEF e
<1>6. p.mode = "ready" /\ ~p.par
  <2>1. p.mode = "ready"
    BY <1>1 DEF At, FlowOf, OpFlow
  <2> QED
    BY <1>1, <2>1 DEF Unpaired
<1> HIDE DEF a, b, p, q
<1>7. pend'[s] = q /\ \A o \in Sessions : o # s => pend'[o] = pend[o]
  BY <1>1, <1>4, Data
<1>8. Accounts(s, a, {} \cup c)
  <2>1. \A r \in Units : CountOf(q, prog[s], held[s][r], Amount(p.part, r), r)
    BY <1>1, <1>2, <1>3, <1>6, ReturnCounts
  <2>2. {} \cup c = c
    OBVIOUS
  <2> HIDE DEF c
  <2> QED
    BY <1>1, <1>4, <1>5, <1>7, <2>1, <2>2 DEF Accounts
<1>9. \A o \in Sessions : o # s => /\ Tidy(o) /\ pend'[o].step = pend[o].step /\ pend'[o].rest = pend[o].rest
                                   /\ (pend'[o].par /\ pend[o].mode = "tool" => pend'[o].mode = "tool")
  BY <1>4, <1>7 DEF Tidy
<1>10. MildSteps(pend'[s]) /\ ~pend'[s].par
  BY <1>1, <1>3, <1>7 DEF MildSteps
<1> DEFINE yes == TRUE
           none == {}
           ops == {"react"}
<1>11. Volley(a, s, ops, yes, none) /\ yes \in BOOLEAN /\ Accounts(s, a, none \cup c)
  BY <1>5, <1>8
<1> HIDE DEF yes, none, ops
<1> QED
  BY <1>1, <1>4, <1>9, <1>10, <1>11, OthersToo, PushKeeps

LEMMA PauseExact ==
  ASSUME Good, Exact, Top("try"), NEW s, s = Head(stack).s, Pause(s)
  PROVE  Exact'
<1> DEFINE b == Tail(stack)
           p == pend[s]
           q == [p EXCEPT !.part = <<>>, !.par = FALSE, !.due = TRUE]
           a == GiveEach(s, p.part)
           c == ClearsIn(b, s)
<1>0. "try" \in ThreadOps
  BY DEF ThreadOps
<1>1. /\ s \in Sessions /\ Below(b, s) /\ At(s, {"try"}, c) /\ MildSteps(p)
      /\ (\A r \in Units : CountOf(p, prog[s], held[s][r], 0, r)) /\ SandboxOf(prog[s], c) /\ EndedOf(prog[s], c)
  BY <1>0, CallCounts
<1>2. p \in PendRec /\ prog[s] \in ProgRec /\ <<>> \in Parts
  BY <1>1 DEF At, Parts
<1>3. q \in PendRec /\ q.step = p.step /\ q.rest = p.rest /\ q.part = <<>> /\ q.own = p.own /\ q.par = FALSE
  BY <1>2, ZenonT(40) DEF PendRec
<1>4. /\ world' = world /\ prog' = prog /\ held' = held /\ stack' = a \o b /\ pend' = [pend EXCEPT ![s] = q]
  BY DEF Pause, Run
<1>5. Volley(a, s, {}, TRUE, {}) /\ \A r \in Units : DueIn(a, s, r) = Amount(p.part, r)
  <2>1. p.part \in Parts /\ \A i \in DOMAIN p.part : p.part[i][2] > 0
    BY <1>1, <1>2, PendIs DEF At, PartOf
  <2> QED
    BY <1>1, <2>1, VolleyEach
<1>51. world.metered /\ (IsChat(s) \/ pend[s].step.ext > 0)
  BY DEF Pause, Metered
<1>52. Unpaired
  BY <1>51, TryUnpaired
<1>6. p.mode = "ready" /\ ~p.par
  <2>1. p.mode = "ready"
    BY <1>1 DEF At, FlowOf, OpFlow
  <2> QED
    BY <1>1, <1>52, <2>1 DEF Unpaired
<1> HIDE DEF a, b, p, q
<1>7. pend'[s] = q /\ \A o \in Sessions : o # s => pend'[o] = pend[o]
  BY <1>1, <1>4, Data
<1>8. Accounts(s, a, {} \cup c)
  <2>1. \A r \in Units : CountOf(q, prog[s], held[s][r], Amount(p.part, r), r)
    BY <1>1, <1>2, <1>3, <1>6, ReturnCounts
  <2>2. {} \cup c = c
    OBVIOUS
  <2> HIDE DEF c
  <2> QED
    BY <1>1, <1>4, <1>5, <1>7, <2>1, <2>2 DEF Accounts
<1>9. \A o \in Sessions : o # s => /\ Tidy(o) /\ pend'[o].step = pend[o].step /\ pend'[o].rest = pend[o].rest
                                   /\ (pend'[o].par /\ pend[o].mode = "tool" => pend'[o].mode = "tool")
  BY <1>4, <1>7 DEF Tidy
<1>10. MildSteps(pend'[s]) /\ ~pend'[s].par
  BY <1>1, <1>3, <1>7 DEF MildSteps
<1> DEFINE yes == TRUE
           none == {}
           ops == {}
<1>11. Volley(a, s, ops, yes, none) /\ yes \in BOOLEAN /\ Accounts(s, a, none \cup c)
  BY <1>5, <1>8
<1> HIDE DEF yes, none, ops
<1> QED
  BY <1>1, <1>4, <1>52, <1>9, <1>10, <1>11, OthersToo, PushKeeps

\* A resource is taken for the step.
LEMMA TakeCounts ==
  ASSUME NEW p \in PendRec, NEW g \in ProgRec, NEW h \in Int, NEW t \in Units, NEW n \in Nat, NEW q \in PendRec, NEW r \in Units,
         CountOf(p, g, h, 0, r), q.part = Append(p.part, <<t, n>>), q.own = p.own, p.par => q.par,
         g.holds[t] = 0 \/ (t = "cpu" /\ q.par)
  PROVE  CountOf(q, g, h + (IF t = r THEN n ELSE 0), 0, r)
<1>1. /\ Amount(p.part, r) \in Nat /\ g.holds[r] \in Nat /\ p.own[r] \in Nat
      /\ Amount(q.part, r) = Amount(p.part, r) + (IF t = r THEN n ELSE 0)
  <2>1. p.part \in Parts /\ p.own \in Bags /\ g.holds \in Bags
    BY PendIs, ProgIs
  <2>2. Amount(p.part, r) \in Nat
    BY <2>1, AmountIs
  <2>3. Amount(Append(p.part, <<t, n>>), r) = Amount(p.part, r) + (IF t = r THEN n ELSE 0)
    BY <2>1, AmountMore
  <2> QED
    BY <2>1, <2>2, <2>3 DEF Bags
<1> DEFINE m == Amount(p.part, r)
           k == IF t = r THEN n ELSE 0
           x == g.holds[r]
<1>2. m \in Nat /\ x \in Nat /\ k \in Nat /\ (t # r => k = 0) /\ Amount(q.part, r) = m + k
  BY <1>1
<1>3. h = x + m
  BY <1>1 DEF CountOf
<1>4. m > 0 => x = 0 \/ (r = "cpu" /\ q.par)
  BY Zenon DEF CountOf
<1>5. r \in {"ext", "ret"} => x <= q.own[r] + 0
  BY <1>1 DEF CountOf
<1>6. t = r => x = 0 \/ (r = "cpu" /\ q.par)
  OBVIOUS
<1> HIDE DEF m, k, x
<1>7. h + k = x + Amount(q.part, r) + (IF x = 0 THEN 0 ELSE 0)
  BY <1>2, <1>3
<1>8. Amount(q.part, r) > 0 => m > 0 \/ t = r
  BY <1>2
<1>9. Amount(q.part, r) > 0 => x = 0 \/ (r = "cpu" /\ q.par)
  BY <1>4, <1>6, <1>8, Zenon
<1>10. x > 0 => 0 <= x
  BY <1>2
<1>11. r = "mem" /\ 0 > 0 => x = 0
  OBVIOUS
<1>12. CountOf(q, g, h + k, 0, r)
  BY <1>5, <1>7, <1>9, <1>10, <1>11, Zenon DEF CountOf, x
<1> QED
  BY <1>12 DEF k

LEMMA TakeExact ==
  ASSUME Good, Exact, Unpaired, Top("try"), NEW s, s = Head(stack).s, NEW t \in Units, NEW n \in Nat, NEW z, Taking(s, t, n, z),
         z.rest = pend[s].rest, pend[s].par => z.par, prog[s].holds[t] = 0 \/ (t = "cpu" /\ z.par),
         z.par => Missing(s)' = {}
  PROVE  Exact'
<1> DEFINE p == pend[s]
           g == prog[s]
           c == ClearsIn(stack, s)
<1>1. /\ s \in Sessions /\ MildSteps(p) /\ (\A r : DueIn(stack, s, r) = 0)
      /\ (\A r \in Units : CountOf(p, g, held[s][r], 0, r)) /\ SandboxOf(g, c) /\ EndedOf(g, c)
  BY CallCounts DEF ThreadOps
<1>2. p \in PendRec /\ g \in ProgRec /\ held[s] \in [Units -> Int]
  BY <1>1, Data
<1>3. /\ z \in PendRec /\ z.part = Append(p.part, <<t, n>>) /\ z.own = p.own /\ z.step = p.step
      /\ world' = world /\ prog' = prog /\ stack' = stack /\ pend' = [pend EXCEPT ![s] = z]
  BY DEF Taking, Take
<1>4. pend'[s] = z /\ \A o \in Sessions : o # s => pend'[o] = pend[o]
  BY <1>1, <1>3, Data
<1>5. (\A r \in Units : held'[s][r] = held[s][r] + (IF t = r THEN n ELSE 0)) /\ \A o \in Sessions : o # s => held'[o] = held[o]
  <2> DEFINE row == [held[s] EXCEPT ![t] = held[s][t] + n]
  <2>1. held' = [held EXCEPT ![s] = row]
    BY <1>1, <1>2, Data DEF Take, Taking
  <2>2. row \in [Units -> Int] /\ \A r \in Units : row[r] = IF r = t THEN held[s][r] + n ELSE held[s][r]
    BY <1>2, RowAdd
  <2> HIDE DEF row
  <2>3. held'[s] = row /\ \A x \in Sessions : x # s => held'[x] = held[x]
    BY <1>1, <2>1, <2>2, Data, SMTT(100)
  <2>4. \A r \in Units : held[s][r] \in Int /\ held[s][r] + 0 = held[s][r]
    BY <1>2
  <2> QED
    BY <2>2, <2>3, <2>4
<1> HIDE DEF p, g, c
<1>6. ASSUME NEW r \in Units
      PROVE  CountOf(z, g, held'[s][r], 0, r)
  <2> DEFINE h == held[s][r]
  <2>1. CountOf(p, g, h, 0, r) /\ h \in Int
    BY <1>1, <1>2
  <2>2. held'[s][r] = h + (IF t = r THEN n ELSE 0)
    BY <1>5
  <2> HIDE DEF h
  <2>3. (p.par => z.par) /\ (g.holds[t] = 0 \/ (t = "cpu" /\ z.par))
    BY DEF p, g
  <2>4. CountOf(z, g, h + (IF t = r THEN n ELSE 0), 0, r)
    BY <1>2, <1>3, <2>1, <2>3, TakeCounts
  <2> QED
    BY <2>2, <2>4
<1>7. Counted(s)'
  <2>1. \A r \in Units : CountOf(pend'[s], prog'[s], held'[s][r], DueIn(stack', s, r), r)
    BY <1>1, <1>3, <1>4, <1>6 DEF g
  <2>2. SandboxOf(prog'[s], ClearsIn(stack', s)) /\ EndedOf(prog'[s], ClearsIn(stack', s))
    BY <1>1, <1>3 DEF g, c
  <2> QED
    BY <2>1, <2>2 DEF Counted
<1>8. ASSUME NEW o \in Sessions, o # s
      PROVE  Counted(o)'
  <2>1. Tidy(o) /\ Counted(o)
    BY <1>3, <1>4, <1>5, <1>8 DEF Tidy, Exact
  <2>2. SameDues(stack', stack, o)
    BY <1>3 DEF SameDues
  <2> QED
    BY <2>1, <2>2, TidyCounted
<1>9. \A o \in Sessions : Grouped(o)'
  <2> SUFFICES ASSUME NEW o \in Sessions PROVE Grouped(o)'
    OBVIOUS
  <2>1. CASE o = s
    <3>1. Top("try")' /\ Head(stack').s = s
      BY <1>3 DEF Top
    <3> QED
      BY <1>4, <2>1, <3>1 DEF Grouped
  <2>2. CASE o # s
    BY <1>4, <2>2 DEF Unpaired, Grouped
  <2> QED
    BY <2>1, <2>2
<1>10. \A o \in Sessions : MildSteps(pend'[o])
  <2>1. MildSteps(z)
    BY <1>1, <1>3 DEF MildSteps, p
  <2> QED
    BY <1>4, <2>1 DEF Exact
<1> QED
  BY <1>3, <1>7, <1>8, <1>9, <1>10, ExactKept

LEMMA TakeNextExact ==
  ASSUME Good, Exact, NEW s, s = Head(stack).s, Top("try"), TakeNext(s)
  PROVE  Exact'
<1> DEFINE t == First(Missing(s))
           n == Needs(s, t)
           p == pend[s]
           z == [p EXCEPT !.part = Append(p.part, <<t, n>>)]
           c == ClearsIn(Tail(stack), s)
<1>1. s \in Sessions /\ p \in PendRec /\ At(s, {"try"}, c) /\ SandboxOf(prog[s], c)
      /\ \A r \in Units : CountOf(p, prog[s], held[s][r], 0, r)
  BY CallCounts DEF ThreadOps, At
<1>2. t \in Units /\ n \in Nat /\ n > 0 /\ Missing(s) # {}
  BY <1>1, MissingIs DEF TakeNext
<1>3. /\ t \in {"mem", "cpu"} => p.step.loc > 0
      /\ t = "ext" => p.step.kind = "tool"
      /\ t = "ret" => p.step.kind = "fetch"
  BY <1>1, <1>2, NeedsIs
<1>4. Take(s, t, n) /\ pend' = [pend EXCEPT ![s] = z] /\ lease' = lease
  BY DEF TakeNext
<1>5. lease' \in [Sessions -> Bags]
  BY <1>4, Data
<1>6. Unpaired
  BY <1>2, TryUnpaired
<1>7. prog[s].holds[t] = 0
  <2>1. p.own[t] = 0 /\ p.step.loc \in Nat /\ prog[s].holds[t] \in Nat
    <3>1. p.own = Nothing
      BY <1>1 DEF At, FlowOf, OpFlow
    <3> QED
      BY <1>1, <1>2, <3>1, BagOf, PendIs, StepIs, ProgIs, Data DEF Bags
  <2>2. CASE t = "slots"
    BY <1>2, <2>2 DEF Needs
  <2>3. CASE t = "mem"
    BY <1>2, <2>3 DEF Needs
  <2>4. CASE t = "cpu"
    <3>1. prog[s].holds["mem"] = 0 /\ p.step.loc > 0
      BY <1>2, <2>4 DEF Needs
    <3>2. "cpu" \notin c
      <4>1. "cpu" \in c => Vacant(p, {"try"}, "cpu")
        BY <1>1 DEF At
      <4> QED
        BY <2>1, <3>1, <4>1 DEF Vacant
    <3> QED
      BY <1>1, <2>4, <3>1, <3>2 DEF SandboxOf
  <2>5. CASE t \in {"ext", "ret"}
    <3>1. prog[s].holds[t] <= p.own[t] + 0
      BY <1>1, <1>2, <2>5 DEF CountOf
    <3> QED
      BY <2>1, <3>1
  <2> QED
    BY <1>2, <2>2, <2>3, <2>4, <2>5, UnitsAre
<1> HIDE DEF t, n
<1>8. Append(p.part, <<t, n>>) \in Parts
  BY <1>1, <1>2, PendIs, AmountMore, SMTT(100)
<1>9. z \in PendRec /\ z.part = Append(p.part, <<t, n>>) /\ z.par = p.par /\ z.mode = p.mode /\ z.step = p.step
      /\ z.own = p.own /\ z.want = p.want /\ z.due = p.due /\ z.flag = p.flag /\ z.gang = p.gang
      /\ z.rest = p.rest /\ z.tries = p.tries
  BY <1>1, <1>8 DEF PendRec
<1> HIDE DEF z
<1>10. Taking(s, t, n, z)
  BY <1>3, <1>4, <1>5, <1>9 DEF Taking
<1>11. ~z.par
  <2>1. p.mode = "ready"
    BY <1>1 DEF At, FlowOf, OpFlow
  <2> QED
    BY <1>1, <1>6, <1>9, <2>1 DEF Unpaired
<1> QED
  BY <1>2, <1>6, <1>7, <1>9, <1>10, <1>11, TakeExact

LEMMA TakeSpareExact ==
  ASSUME Good, Exact, NEW s, s = Head(stack).s, Top("try"), TakeSpare(s)
  PROVE  Exact'
<1> DEFINE n == Extra(pend[s].step)
           p == pend[s]
           z == [p EXCEPT !.part = Append(p.part, <<"cpu", n>>), !.par = TRUE]
<1>1. s \in Sessions /\ p \in PendRec
  BY AtCall DEF Top, IsThread, ThreadOps, At
<1>2. "cpu" \in Units /\ n \in Nat /\ n > 0 /\ n >= n /\ Spare(s)
  BY <1>1, PendIs, ExtraIs, UnitsAre DEF TakeSpare, SpareFits, Spare
<1>3. p.step.loc > 0
  <2>1. p.step \in Steps
    BY <1>1, PendIs
  <2>2. p.step.loc \in Nat /\ p.step.loc > 1
    BY <1>2, <2>1, ExtraIs, StepIs, SMTT(100)
  <2> QED
    BY <2>2
<1>4. Take(s, "cpu", n) /\ pend' = [pend EXCEPT ![s] = z] /\ lease' = [lease EXCEPT ![s]["cpu"] = 0]
  BY DEF TakeSpare
<1>5. lease' \in [Sessions -> Bags]
  <2>1. lease[s] \in Bags
    BY <1>1, Data
  <2>2. [lease[s] EXCEPT !["cpu"] = 0] \in Bags
    BY <2>1 DEF Bags
  <2> QED
    BY <1>4, <2>2, Data
<1>50. n = Extra(p.step)
  OBVIOUS
<1>51. Unpaired
  BY <1>2, TryUnpaired
<1> HIDE DEF n
<1>6. Append(p.part, <<"cpu", n>>) \in Parts /\ \A i \in DOMAIN p.part : i \in DOMAIN Append(p.part, <<"cpu", n>>) /\ Append(p.part, <<"cpu", n>>)[i] = p.part[i]
  <2>1. p.part \in Parts
    BY <1>1, PendIs
  <2> HIDE DEF p
  <2> QED
    BY <1>2, <2>1, SMTT(100) DEF Parts
<1>7. z \in PendRec /\ z.part = Append(p.part, <<"cpu", n>>) /\ z.par = TRUE /\ z.mode = p.mode /\ z.step = p.step
      /\ z.own = p.own /\ z.want = p.want /\ z.due = p.due /\ z.flag = p.flag /\ z.gang = p.gang
      /\ z.rest = p.rest /\ z.tries = p.tries
  BY <1>1, <1>6 DEF PendRec
<1> HIDE DEF z
<1>8. Taking(s, "cpu", n, z)
  BY <1>2, <1>3, <1>4, <1>5, <1>50, <1>7 DEF Taking
<1>9. Missing(s)' = {}
  <2>1. pend'[s] = z /\ prog' = prog /\ world' = world
    BY <1>1, <1>4, Data DEF Take
  <2>2. \A r \in Units : Needs(s, r)' = Needs(s, r)
    BY <1>7, <2>1 DEF Needs
  <2>3. Taken(s) \subseteq Taken(s)'
    <3>1. \A i \in DOMAIN p.part : i \in DOMAIN z.part /\ z.part[i] = p.part[i]
      BY <1>6, <1>7
    <3>2. Taken(s)' = {z.part[i][1] : i \in DOMAIN z.part}
      BY <2>1 DEF Taken
    <3> QED
      BY <3>1, <3>2 DEF Taken
  <2>4. Missing(s) = {}
    BY <1>2 DEF Spare, Complete
  <2> QED
    BY <2>2, <2>3, <2>4 DEF Missing, Units
<1>10. z.rest = pend[s].rest /\ z.par
  BY <1>7
<1> QED
  BY <1>2, <1>8, <1>9, <1>10, <1>51, TakeExact

LEMMA WaitOrFailExact ==
  ASSUME Good, Exact, Unpaired, NEW s, s = Head(stack).s, Top("try"), NEW u, NEW amt, WaitOrFail(s, u, amt)
  PROVE  Exact'
<1>1. CASE Fail(s)
  BY <1>1, FailExact
<1>2. CASE Wait(s, u, amt, FALSE)
  <2> DEFINE no == FALSE
  <2>1. Wait(s, u, amt, no)
    BY <1>2
  <2> HIDE DEF no
  <2> QED
    BY <2>1, WaitExact
<1> QED
  BY <1>1, <1>2 DEF WaitOrFail

LEMMA AwaitExact ==
  ASSUME Good, Exact, NEW s, s = Head(stack).s, Top("try"), TakeNothing(s) \/ AwaitSpare(s) \/ AwaitCache(s) \/ Refuse(s)
  PROVE  Exact'
<1>1. Missing(s) # {} \/ Spare(s) \/ IsChat(s) \/ (world.metered /\ pend[s].step.ext > 0)
  BY DEF TakeNothing, AwaitSpare, SpareReserved, AwaitCache, CacheReady, Refuse, Metered
<1>2. Unpaired
  BY <1>1, TryUnpaired
<1>3. CASE TakeNothing(s)
  BY <1>2, <1>3, WaitOrFailExact DEF TakeNothing
<1>4. CASE AwaitSpare(s)
  BY <1>2, <1>4, WaitExact DEF AwaitSpare
<1>5. CASE AwaitCache(s)
  BY <1>2, <1>5, WaitOrFailExact DEF AwaitCache
<1>6. CASE Refuse(s)
  BY <1>2, <1>6, FailExact DEF Refuse
<1> QED
  BY <1>3, <1>4, <1>5, <1>6

LEMMA ThrottledExact ==
  ASSUME Good, Exact, Throttled
  PROVE  Exact'
<1>1. Top("throttled") /\ Fail(Head(stack).s)
  BY DEF Throttled
<1>2. Unpaired
  BY <1>1, NoGroup DEF Top
<1> QED
  BY <1>1, <1>2, FailExact

\* A session that a step leaves alone, or evicts.
LEMMA KeptTidy ==
  ASSUME Good, NEW o \in Sessions, Kept(o)
  PROVE  /\ Tidy(o) /\ pend'[o].step = pend[o].step /\ pend'[o].rest = pend[o].rest
         /\ (pend'[o].par /\ pend[o].mode = "tool" => pend'[o].mode = "tool")
<1>1. prog'[o] = prog[o] /\ held'[o] = held[o] /\ pend[o] \in PendRec
  BY Data DEF Kept
<1>2. CASE pend'[o] = pend[o]
  BY <1>1, <1>2 DEF Tidy
<1>3. CASE kv[o].at = "decode" /\ pend'[o] = [pend[o] EXCEPT !.mode = "ready", !.due = TRUE]
  <2> DEFINE x == pend[o]
             y == [x EXCEPT !.mode = "ready", !.due = TRUE]
  <2>1. y.part = x.part /\ y.own = x.own /\ y.par = x.par /\ y.step = x.step /\ y.rest = x.rest /\ pend'[o] = y
    BY <1>1, <1>3 DEF PendRec
  <2>2. FlowOf(x, prog[o], kv[o].at, OpsIn(stack, o), GivesIn(stack, o))
    BY DEF Good, Flows, Flow
  <2>3. x.mode # "tool"
    BY <1>3, <2>2 DEF FlowOf
  <2> HIDE DEF y
  <2> QED
    BY <1>1, <2>1, <2>3 DEF Tidy
<1> QED
  BY <1>2, <1>3 DEF Kept

\* A step of s that leaves the others alone.
LEMMA PaidExact ==
  ASSUME Good, Exact, world' = world, NEW s \in Sessions, UnpairedBut(s), NEW b, Below(b, s),
         NEW a, NEW ops, NEW gives \in BOOLEAN, NEW clears, Volley(a, s, ops, gives, clears), stack' = a \o b,
         \A o \in Sessions : o # s => Kept(o),
         Accounts(s, a, clears \cup ClearsIn(b, s)), pend'[s].par => pend'[s].mode = "tool", MildSteps(pend'[s])
  PROVE  Exact'
<1>1. \A o \in Sessions : o # s => /\ Tidy(o) /\ pend'[o].step = pend[o].step /\ pend'[o].rest = pend[o].rest
                                   /\ (pend'[o].par /\ pend[o].mode = "tool" => pend'[o].mode = "tool")
  BY KeptTidy
<1> QED
  BY <1>1, PushKeeps

LEMMA AmountSome ==
  ASSUME NEW part \in Parts, NEW i \in DOMAIN part, part[i][2] > 0
  PROVE  Amount(part, part[i][1]) > 0
<1> DEFINE r == part[i][1]
           F == [j \in DOMAIN part |-> IF part[j][1] = r THEN part[j][2] ELSE 0]
           D == DOMAIN part
<1>1. IsFiniteSet(D) /\ \A j \in D : F[j] \in Nat
  BY LenProperties, FS_Interval, ElementOfSeq, SMTT(100) DEF Parts
<1>2. F[i] = part[i][2] /\ F[i] > 0 /\ F[i] \in Nat /\ i \in D
  BY <1>1
<1>3. Amount(part, r) = SumFunctionOnSet(F, D)
  BY DEF Amount
<1> HIDE DEF F, D, r
<1>4. \A j \in D : F[j] \in Int
  BY <1>1
<1>5. SumFunctionOnSet(F, D) = F[i] + SumFunctionOnSet(F, D \ {i})
  BY <1>1, <1>2, <1>4, SumRemove
<1>6. IsFiniteSet(D \ {i}) /\ \A j \in D \ {i} : F[j] \in Nat
  BY <1>1, FS_RemoveElement
<1>7. SumFunctionOnSet(F, D \ {i}) \in Nat
  BY <1>6, SumNat
<1>8. Amount(part, r) > 0
  BY <1>2, <1>3, <1>5, <1>7
<1> QED
  BY <1>8 DEF r

\* A step that needs a sandbox has one when it has all it needs.
LEMMA SandboxTaken ==
  ASSUME Good, NEW s \in Sessions, pend[s].step.loc > 0, prog[s].holds["mem"] = 0, Missing(s) = {},
         \A i \in DOMAIN pend[s].part : pend[s].part[i][2] > 0
  PROVE  Amount(pend[s].part, "mem") > 0
<1>1. "mem" \in Units /\ world.gb[s] \in Nat \ {0} /\ pend[s].part \in Parts
  BY UnitsAre, Data, WorldIs, PendIs DEF IsWorld, Sessions
<1>2. Needs(s, "mem") > 0
  BY <1>1 DEF Needs
<1>3. "mem" \in Taken(s)
  BY <1>1, <1>2 DEF Missing
<1>4. PICK i \in DOMAIN pend[s].part : pend[s].part[i][1] = "mem"
  BY <1>3 DEF Taken
<1>5. Amount(pend[s].part, pend[s].part[i][1]) > 0
  BY <1>1, AmountSome
<1> QED
  BY <1>4, <1>5

\* A step without one takes nothing of it.
LEMMA SandboxUntaken ==
  ASSUME NEW p \in PendRec, PartOf(p), p.step.loc = 0, NEW r \in {"mem", "cpu"}
  PROVE  Amount(p.part, r) = 0
<1>1. p.part \in Parts /\ r \in Units
  BY PendIs, UnitsAre
<1>2. \A i \in DOMAIN p.part : p.part[i][1] # r
  BY DEF PartOf
<1> QED
  BY <1>1, <1>2, AmountNone

\* Who is evicted when s starts.
LEMMA StartOthers ==
  ASSUME Good, NEW s \in Sessions, NEW q \in PendRec, NEW g \in ProgRec,
         prog' = [prog EXCEPT ![s] = g], held' = held,
         \E x \in IF IsChat(s) THEN BeginPrefill(kv, world.size, s, ContextOf(s)) ELSE {[cache |-> kv, victims |-> {}]} :
           kv' = x.cache /\ pend' = Evicted([pend EXCEPT ![s] = q], x.victims)
  PROVE  pend'[s] = q /\ prog'[s] = g /\ \A o \in Sessions : o # s => Kept(o)
<1>1. PICK x \in IF IsChat(s) THEN BeginPrefill(kv, world.size, s, ContextOf(s)) ELSE {[cache |-> kv, victims |-> {}]} :
         kv' = x.cache /\ pend' = Evicted([pend EXCEPT ![s] = q], x.victims)
  OBVIOUS
<1>2. kv \in [Sessions -> Cache] /\ kv[s] \in Cache /\ world.size \in Nat /\ ContextOf(s) \in Nat
  BY Data, WorldIs, ProgIs DEF IsWorld, ContextOf
<1>3. CASE IsChat(s)
  <2> DEFINE context == ContextOf(s)
             size == world.size
  <2>1. x \in BeginPrefill(kv, size, s, context) /\ size \in Nat /\ context \in Nat
    BY <1>1, <1>2, <1>3
  <2> HIDE DEF context, size
  <2>2. PrefillBegun(x, Sessions, kv, size, s, context)
    BY <1>2, <2>1, PrefillBegins
  <2>3. PICK k \in [Sessions -> Cache], reused \in Nat, miss \in Nat :
           /\ miss + reused = context
           /\ k[s] = Entry("active", reused) /\ size - Occupied(k) >= miss
           /\ x.cache = [k EXCEPT ![s] = Entry("active", context)]
           /\ s \notin x.victims /\ Evicts(k, [kv EXCEPT ![s] = Entry("active", reused)], x.victims)
    BY <2>2 DEF PrefillBegun
  <2> DEFINE e == Entry("active", context)
             d == Entry("active", reused)
             V == x.victims
  <2>4. e \in Cache
    BY <2>1 DEF Entry, Cache
  <2>5. kv' = [k EXCEPT ![s] = e] /\ pend' = Evicted([pend EXCEPT ![s] = q], V) /\ s \notin V /\ Evicts(k, [kv EXCEPT ![s] = d], V)
    BY <1>1, <2>3
  <2> HIDE DEF e, d, V
  <2> QED
    BY <2>4, <2>5, RunKept
<1>4. CASE ~IsChat(s)
  <2> DEFINE e == kv[s]
             V == {}
  <2>1. x = [cache |-> kv, victims |-> {}]
    BY <1>1, <1>4
  <2>2. [kv EXCEPT ![s] = e] = kv
    BY <1>2
  <2>3. kv' = [kv EXCEPT ![s] = e] /\ pend' = Evicted([pend EXCEPT ![s] = q], V)
    BY <1>1, <2>1, <2>2
  <2>4. Evicts(kv, [kv EXCEPT ![s] = e], V) /\ s \notin V
    BY <1>2, <2>2 DEF Evicts, In
  <2>5. e \in Cache
    BY <1>2
  <2> HIDE DEF e, V
  <2> QED
    BY <1>2, <2>3, <2>4, <2>5, RunKept
<1> QED
  BY <1>3, <1>4

\* _commit and _start: what was taken becomes what the session holds.
LEMMA StartCounts ==
  ASSUME NEW p \in PendRec, NEW o \in ProgRec, NEW h, NEW q, NEW g, NEW r \in Units,
         CountOf(p, o, h, 0, r), p.own = Nothing, q.part = <<>>, r \in {"ext", "ret"} => q.own[r] = Amount(p.part, r),
         g.holds[r] = o.holds[r] + Amount(p.part, r)
  PROVE  CountOf(q, g, h, 0, r)
<1> DEFINE n == Amount(p.part, r)
           x == o.holds[r]
<1>1. n \in Nat /\ x \in Nat
  BY AmountIs, PendIs, ProgIs DEF Bags
<1>2. h = x + n /\ (r \in {"ext", "ret"} => x <= 0)
  <2>1. Nothing[r] = 0
    BY BagOf
  <2> QED
    BY <1>1, <2>1 DEF CountOf
<1>3. Amount(q.part, r) = 0 /\ g.holds[r] = x + n
  BY AmountEmpty
<1>4. r \in {"ext", "ret"} => q.own[r] = n
  OBVIOUS
<1> HIDE DEF n, x
<1> DEFINE z == x + n
           m == Amount(q.part, r)
<1>5. z \in Nat /\ h = z + m + (IF z = 0 THEN 0 ELSE 0) /\ (r \in {"ext", "ret"} => z <= n + 0) /\ (z > 0 => 0 <= z) /\ ~(m > 0)
  BY <1>1, <1>2, <1>3
<1>6. r = "mem" /\ 0 > 0 => z = 0
  OBVIOUS
<1>7. g.holds[r] = z
  BY <1>3
<1>8. r \in {"ext", "ret"} => z <= q.own[r] + 0
  BY <1>4, <1>5
<1> HIDE DEF z
<1> QED
  BY <1>5, <1>6, <1>7, <1>8, Zenon DEF CountOf

LEMMA StartExact ==
  ASSUME Good, Exact, NEW s, s = Head(stack).s, Top("try"), Start(s)
  PROVE  Exact'
<1> DEFINE b == Tail(stack)
           p == pend[s]
           o == prog[s]
           own == OwnOf(p)
           mode == IF IsChat(s) THEN "prefill" ELSE p.step.kind
           q == [p EXCEPT !.part = <<>>, !.own = own, !.mode = mode]
           holds == [r \in Units |-> o.holds[r] + Amount(p.part, r)]
           g == [o EXCEPT !.holds = holds]
           c == ClearsIn(b, s)
<1>1. /\ s \in Sessions /\ Below(b, s) /\ At(s, {"try"}, c) /\ MildSteps(p)
      /\ (\A r \in Units : CountOf(p, o, held[s][r], 0, r)) /\ SandboxOf(o, c)
  BY CallCounts DEF ThreadOps
<1>2. /\ p \in PendRec /\ o \in ProgRec /\ PartOf(p) /\ p.mode = "ready" /\ p.own = Nothing /\ o.life = "active"
      /\ \A r \in c : Vacant(p, {"try"}, r)
  BY <1>1 DEF At, FlowOf, OpFlow
<1>3. own \in Bags /\ (p.par => p.step.kind = "tool") /\ \A r \in {"ext", "ret"} : own[r] = Amount(p.part, r)
  <2>1. own \in Bags /\ (p.par => p.step.kind = "tool")
    BY <1>2, OwnIs
  <2>2. \A r \in {"ext", "ret"} : r \in Units /\ own[r] = Amount(p.part, r)
    BY UnitsAre DEF OwnOf
  <2> QED
    BY <2>1, <2>2
<1>4. p.part \in Parts /\ p.step \in Steps /\ o.holds \in Bags
  BY <1>2, PendIs, ProgIs
<1>5. mode \in Modes /\ (p.par => mode = "tool")
  <2>1. p.step.kind \in {"tool", "fetch", "chat"}
    BY <1>4, StepIs
  <2> QED
    BY <1>3, <2>1 DEF IsChat, Modes
<1>6. holds \in Bags /\ \A r \in Units : holds[r] = o.holds[r] + Amount(p.part, r)
  <2>1. \A r \in Units : Amount(p.part, r) \in Nat /\ o.holds[r] \in Nat
    BY <1>4, AmountIs DEF Bags
  <2> HIDE DEF p, o
  <2> QED
    BY <2>1 DEF Bags
<1>7. prog' = [prog EXCEPT ![s] = g] /\ held' = held /\ world' = world /\ stack' = <<>> \o b
  BY SMTT(100) DEF Start, Run
<1>8. \E x \in IF IsChat(s) THEN BeginPrefill(kv, world.size, s, ContextOf(s)) ELSE {[cache |-> kv, victims |-> {}]} :
         kv' = x.cache /\ pend' = Evicted([pend EXCEPT ![s] = q], x.victims)
  BY DEF Start, OwnOf
<1>9. Missing(s) = {}
  BY DEF Start, Collected, Complete
<1> HIDE DEF own, mode, holds
<1>10. <<>> \in Parts
  BY DEF Parts
<1>11. /\ q \in PendRec /\ q.mode = mode /\ q.step = p.step /\ q.part = <<>> /\ q.own = own /\ q.par = p.par /\ q.rest = p.rest
  BY <1>2, <1>3, <1>5, <1>10 DEF PendRec
<1>12. g \in ProgRec /\ g.life = o.life /\ g.holds = holds
  BY <1>2, <1>6 DEF ProgRec
<1> HIDE DEF q, g
<1>13. pend'[s] = q /\ prog'[s] = g /\ \A x \in Sessions : x # s => Kept(x)
  BY <1>1, <1>7, <1>8, <1>11, <1>12, StartOthers
<1>14. \A r \in Units : CountOf(q, g, held[s][r], 0, r)
  <2> SUFFICES ASSUME NEW r \in Units PROVE CountOf(q, g, held[s][r], 0, r)
    OBVIOUS
  <2> DEFINE h == held[s][r]
  <2>1. CountOf(p, o, h, 0, r) /\ g.holds[r] = o.holds[r] + Amount(p.part, r) /\ (r \in {"ext", "ret"} => q.own[r] = Amount(p.part, r))
    BY <1>1, <1>3, <1>6, <1>11, <1>12
  <2> HIDE DEF h, p, o
  <2>2. CountOf(q, g, h, 0, r)
    BY <1>2, <1>11, <2>1, StartCounts
  <2> QED
    BY <2>2 DEF h
<1>15. SandboxOf(g, c)
  <2>1. "mem" \in Units /\ "cpu" \in Units
    BY UnitsAre
  <2>2. o.holds["mem"] \in Nat /\ o.holds["cpu"] \in Nat /\ Amount(p.part, "mem") \in Nat /\ Amount(p.part, "cpu") \in Nat
        /\ holds["mem"] = o.holds["mem"] + Amount(p.part, "mem") /\ holds["cpu"] = o.holds["cpu"] + Amount(p.part, "cpu")
    BY <1>4, <1>6, <2>1, AmountIs DEF Bags
  <2>3. p.step.loc \in Nat
    BY <1>4, StepIs
  <2>4. CASE p.step.loc = 0
    <3>1. Amount(p.part, "mem") = 0 /\ Amount(p.part, "cpu") = 0
      BY <1>2, <2>4, SandboxUntaken
    <3> QED
      BY <1>1, <1>12, <2>2, <3>1 DEF SandboxOf
  <2>5. CASE p.step.loc > 0
    <3>1. "mem" \notin c
      <4>1. "mem" \in c => Vacant(p, {"try"}, "mem")
        BY <1>2
      <4> QED
        BY <2>5, <4>1 DEF Vacant
    <3>2. o.holds["mem"] = 0 => Amount(p.part, "mem") > 0
      BY <1>1, <1>2, <1>9, <2>5, SandboxTaken DEF PartOf
    <3> QED
      BY <1>12, <2>2, <3>1, <3>2 DEF SandboxOf
  <2> QED
    BY <2>3, <2>4, <2>5
<1>16. EndedOf(g, c)
  BY <1>2, <1>12 DEF EndedOf
<1> DEFINE a == <<>>
           no == FALSE
           none == {}
<1>17. Volley(a, s, none, no, none) /\ no \in BOOLEAN /\ stack' = a \o b /\ (\A r : DueIn(a, s, r) = 0) /\ none \cup c = c
  BY <1>7, VolleyNone, ViewOfNone
<1> HIDE DEF a, no, none
<1>18. Accounts(s, a, none \cup c)
  BY <1>7, <1>13, <1>14, <1>15, <1>16, <1>17 DEF Accounts
<1>19. (pend'[s].par => pend'[s].mode = "tool") /\ MildSteps(pend'[s])
  BY <1>1, <1>5, <1>11, <1>13 DEF MildSteps
<1>20. UnpairedBut(s)
  BY OthersOnly
<1> HIDE DEF b, p, o, c
<1> QED
  BY <1>1, <1>7, <1>13, <1>17, <1>18, <1>19, <1>20, PaidExact DEF b, c

\* A call that ends what s was doing: others are left alone, no units move.
LEMMA CallPaid ==
  ASSUME Good, Exact, NEW op \in ThreadOps \ {"try", "throttled"}, Top(op), NEW s, s = Head(stack).s,
         NEW a, NEW ops, NEW clears, Volley(a, s, ops, FALSE, clears), Run(a), world' = world, held' = held,
         NEW z, prog' = [prog EXCEPT ![s] = z], z.holds = prog[s].holds,
         NEW q, pend' = [pend EXCEPT ![s] = q], q.part = <<>>, q.own = Nothing, ~q.par, MildSteps(q),
         SandboxOf(z, clears \cup ClearsIn(Tail(stack), s)), EndedOf(z, clears \cup ClearsIn(Tail(stack), s))
  PROVE  Exact'
<1> DEFINE b == Tail(stack)
           p == pend[s]
           o == prog[s]
           c == ClearsIn(b, s)
           no == FALSE
<1>1. /\ s \in Sessions /\ Below(b, s) /\ At(s, {op}, c) /\ (\A r \in Units : CountOf(p, o, held[s][r], 0, r))
  BY CallCounts
<1>2. p \in PendRec /\ o \in ProgRec /\ p.part = <<>> /\ p.own = Nothing
  BY <1>1 DEF At, FlowOf, OpFlow
<1>3. Unpaired
  BY NoGroup DEF Top
<1>4. stack' = a \o b /\ Volley(a, s, ops, no, clears) /\ no \in BOOLEAN
  BY DEF Run
<1>5. \A r \in Units : DueIn(a, s, r) = 0
  <2>1. a \in Seq(Frame) /\ ~GivesIn(a, s)
    BY DEF Volley
  <2> QED
    BY <2>1, NothingDue
<1>6. pend'[s] = q /\ prog'[s] = z /\ \A x \in Sessions : x # s => pend'[x] = pend[x] /\ prog'[x] = prog[x]
  BY <1>1, Data
<1>7. \A r \in Units : CountOf(q, z, held[s][r], 0, r)
  <2> SUFFICES ASSUME NEW r \in Units PROVE CountOf(q, z, held[s][r], 0, r)
    OBVIOUS
  <2> DEFINE h == held[s][r]
  <2>1. CountOf(p, o, h, 0, r) /\ q.part = p.part /\ q.own = p.own /\ z.holds = o.holds /\ ~(Amount(p.part, r) > 0)
    BY <1>1, <1>2, AmountEmpty
  <2> HIDE DEF h, p, o
  <2>2. CountOf(q, z, h, 0, r)
    BY <2>1 DEF CountOf
  <2> QED
    BY <2>2 DEF h
<1>8. \A x \in Sessions : x # s => /\ Tidy(x) /\ pend'[x].step = pend[x].step /\ pend'[x].rest = pend[x].rest
                                   /\ (pend'[x].par /\ pend[x].mode = "tool" => pend'[x].mode = "tool")
  BY <1>6 DEF Tidy
<1>9. Accounts(s, a, clears \cup c)
  BY <1>5, <1>6, <1>7 DEF Accounts
<1>10. UnpairedBut(s) /\ MildSteps(pend'[s]) /\ ~pend'[s].par
  BY <1>3, <1>6, OthersToo
<1> HIDE DEF b, p, o, c, no
<1> QED
  BY <1>1, <1>4, <1>8, <1>9, <1>10, PushKeeps DEF b, c

\* _end_session: everything goes back.
LEMMA EndExact ==
  ASSUME Good, Exact, NEW op \in {"react", "finish"}, Top(op), NEW s, s = Head(stack).s, NEW z, z.holds = prog[s].holds,
         prog' = [prog EXCEPT ![s] = z], Run(GiveHolds(s) \o <<Call("gone", s)>>), UNCHANGED <<world, pend, held>>
  PROVE  Exact'
<1> DEFINE p == pend[s]
           e == GiveHolds(s)
           a == e \o <<Call("gone", s)>>
           d == {r \in Units : prog[s].holds[r] > 0}
           c == ClearsIn(Tail(stack), s)
           no == FALSE
<1>1. op \in ThreadOps /\ op \in ThreadOps \ {"try", "throttled"} /\ "gone" \in ThreadOps
  BY DEF ThreadOps
<1>2. s \in Sessions /\ At(s, {op}, c) /\ MildSteps(p)
  BY <1>1, CallCounts
<1>3. p \in PendRec /\ prog[s] \in ProgRec /\ p.part = <<>> /\ p.own = Nothing /\ ~p.par
  BY <1>2 DEF At, FlowOf, OpFlow
<1>4. prog[s].holds \in Bags
  BY <1>3, ProgIs
<1>5. Volley(e, s, {}, no, d) /\ no \in BOOLEAN
  BY <1>2, <1>4, VolleyHolds
<1>6. pend' = [pend EXCEPT ![s] = p]
  BY <1>2, Data
<1>7. SandboxOf(z, d \cup c) /\ EndedOf(z, d \cup c)
  <2>1. \A r \in Units : z.holds[r] > 0 => r \in d
    OBVIOUS
  <2>2. "cpu" \in Units /\ z.holds["cpu"] \in Nat
    BY <1>4, UnitsAre DEF Bags
  <2> HIDE DEF d
  <2> QED
    BY <2>1, <2>2 DEF SandboxOf, EndedOf
<1>8. Run(a) /\ world' = world /\ held' = held
  OBVIOUS
<1> HIDE DEF p, e, d, no
<1>9. Volley(e \o <<Call("gone", s)>>, s, {"gone"}, no, d)
  BY <1>1, <1>2, <1>5, VolleyEnds
<1> DEFINE ops == {"gone"}
<1>10. Volley(a, s, ops, FALSE, d)
  BY <1>9 DEF no
<1> HIDE DEF a, ops, c
<1> QED
  BY <1>1, <1>2, <1>3, <1>6, <1>7, <1>8, <1>10, CallPaid DEF c

LEMMA AbortExact ==
  ASSUME Good, Exact, NEW s, s = Head(stack).s, Top("react"), Abort(s)
  PROVE  Exact'
<1> DEFINE z == [Failed(s) EXCEPT !.life = "aborted"]
<1>1. s \in Sessions /\ prog[s] \in ProgRec
  BY AtCall DEF Top, IsThread, ThreadOps, At
<1>2. /\ prog' = [prog EXCEPT ![s] = z] /\ Run(GiveHolds(s) \o <<Call("gone", s)>>) /\ UNCHANGED <<world, pend, held>>
  BY DEF Abort, EndSession
<1>3. z.holds = prog[s].holds
  BY <1>1 DEF Failed, ProgRec
<1> HIDE DEF z
<1> QED
  BY <1>2, <1>3, EndExact

\* The slot goes back: the sandbox stays as it is.
LEMMA SlotCounts ==
  ASSUME NEW o, NEW z, z.holds = o.holds, z.life = o.life, o.life = "active", NEW c, NEW d, d \subseteq {"slots"}, SandboxOf(o, c)
  PROVE  SandboxOf(z, d \cup c) /\ EndedOf(z, d \cup c)
<1>1. \A r \in {"mem", "cpu"} : r \in d \cup c <=> r \in c
  OBVIOUS
<1> QED
  BY <1>1 DEF SandboxOf, EndedOf

LEMMA EndRequestExact ==
  ASSUME Good, Exact, EndRequest
  PROVE  Exact'
<1> DEFINE s == Head(stack).s
           o == prog[s]
           n == o.req + 1
           program == [o EXCEPT !.req = n, !.park = 0, !.fin = FALSE, !.chats = 0]
           c == ClearsIn(Tail(stack), s)
           op == "finish"
<1>1. Top(op) /\ op \in ThreadOps \ {"try", "throttled"} /\ op \in {"react", "finish"} /\ world' = world /\ held' = held
  BY DEF EndRequest, EndSession, ThreadOps
<1>2. s \in Sessions /\ o \in ProgRec /\ At(s, {op}, c) /\ SandboxOf(o, c)
  BY <1>1, CallCounts DEF At
<1>3. o.life = "active"
  BY <1>2 DEF At, FlowOf, OpFlow
<1>4. EndSession(s, "done", program)
      \/ (/\ pend' = [pend EXCEPT ![s] = NoPending("think")] /\ Run(GiveSlot(s))
          /\ \E nap \in Naps(program) : prog' = [prog EXCEPT ![s] = [program EXCEPT !.nap = nap]])
  BY DEF EndRequest
<1>5. program.holds = o.holds /\ program.life = o.life /\ "life" \in DOMAIN program /\ "nap" \in DOMAIN program
  BY <1>2 DEF ProgRec
<1> HIDE DEF program
<1>6. CASE EndSession(s, "done", program)
  <2> DEFINE z == [program EXCEPT !.life = "done"]
  <2>1. /\ prog' = [prog EXCEPT ![s] = z] /\ Run(GiveHolds(s) \o <<Call("gone", s)>>) /\ UNCHANGED <<world, pend, held>>
    BY <1>6 DEF EndSession
  <2>2. z.holds = o.holds
    BY <1>5
  <2> HIDE DEF z, op
  <2> QED
    BY <1>1, <2>1, <2>2, EndExact
<1>7. ASSUME pend' = [pend EXCEPT ![s] = NoPending("think")], Run(GiveSlot(s)), NEW nap,
             prog' = [prog EXCEPT ![s] = [program EXCEPT !.nap = nap]]
      PROVE  Exact'
  <2> DEFINE z == [program EXCEPT !.nap = nap]
             q == NoPending("think")
             a == GiveSlot(s)
             d == IF o.holds["slots"] > 0 THEN {"slots"} ELSE {}
             none == {}
  <2>m. "think" \in Modes
    BY DEF Modes
  <2>1. q.part = <<>> /\ q.own = Nothing /\ q.par = FALSE /\ q.step = Fetch /\ q.rest = <<>>
    BY <2>m, NewPending
  <2>2. Volley(a, s, none, FALSE, d) /\ d \subseteq {"slots"}
    BY <1>2, SlotVolley
  <2>3. z.holds = o.holds /\ z.life = o.life
    BY <1>5
  <2>4. prog' = [prog EXCEPT ![s] = z] /\ pend' = [pend EXCEPT ![s] = q] /\ Run(a)
    BY <1>7
  <2> HIDE DEF z, q, a, d, none
  <2>5. MildSteps(q)
    BY <2>1, MildNew DEF MildSteps
  <2>6. SandboxOf(z, d \cup c) /\ EndedOf(z, d \cup c)
    BY <1>2, <1>3, <2>2, <2>3, SlotCounts
  <2> QED
    BY <1>1, <2>1, <2>2, <2>3, <2>4, <2>5, <2>6, CallPaid
<1> QED
  BY <1>4, <1>6, <1>7

LEMMA ChatOverExact ==
  ASSUME Good, Exact, NEW s, s = Head(stack).s, Top("answered"), NEW then \in {"finish", "spawn", "next"}, NEW todo,
         \A i \in DOMAIN todo : Meek(todo[i]), ChatOver(s, then, todo)
  PROVE  Exact'
<1> DEFINE p == pend[s]
           o == prog[s]
           op == "answered"
           c == ClearsIn(Tail(stack), s)
           q == [p EXCEPT !.rest = todo]
           x == IF Held(s, todo) THEN <<>> ELSE GiveSlot(s)
           d == IF Held(s, todo) THEN {} ELSE IF prog[s].holds["slots"] > 0 THEN {"slots"} ELSE {}
           no == FALSE
<1>1. op \in ThreadOps \ {"try", "throttled"} /\ Top(op) /\ then \in ThreadOps
  BY DEF ThreadOps
<1>2. s \in Sessions /\ At(s, {op}, c) /\ SandboxOf(o, c) /\ MildSteps(p)
  BY <1>1, CallCounts
<1>3. o.life = "active" /\ p.part = <<>> /\ p.own = Nothing /\ ~p.par /\ p \in PendRec /\ o \in ProgRec
  BY <1>2 DEF At, FlowOf, OpFlow
<1>4. PICK fin \in BOOLEAN : prog' = ChatDone(s, fin)
  BY DEF ChatOver
<1> DEFINE ctx == Compacted(o.ctx + p.step.out)
           n == o.chats + 1
           z == [o EXCEPT !.ctx = ctx, !.chats = n, !.fin = fin]
<1>5. prog' = [prog EXCEPT ![s] = z]
  BY <1>4 DEF ChatDone
<1> HIDE DEF ctx, n
<1>6. z.holds = o.holds /\ z.life = o.life
  BY <1>3 DEF ProgRec
<1>7. q.part = p.part /\ q.own = p.own /\ q.par = p.par /\ q.step = p.step /\ q.rest = todo
  BY <1>3 DEF PendRec
<1>8. Run(x \o <<Call(then, s)>>) /\ pend' = [pend EXCEPT ![s] = q] /\ world' = world /\ held' = held
  BY DEF ChatOver
<1>9. Volley(x, s, {}, no, d) /\ d \subseteq {"slots"} /\ no \in BOOLEAN
  <2>1. CASE Held(s, todo)
    BY <2>1, VolleyNone
  <2>2. CASE ~Held(s, todo)
    BY <1>2, <2>2, SlotVolley
  <2> QED
    BY <2>1, <2>2
<1> HIDE DEF z, q, x, d, no
<1>10. Volley(x \o <<Call(then, s)>>, s, {then}, no, d)
  BY <1>1, <1>2, <1>9, VolleyEnds
<1> DEFINE a == x \o <<Call(then, s)>>
           ops == {then}
<1>11. Volley(a, s, ops, FALSE, d) /\ Run(a)
  BY <1>8, <1>10 DEF no
<1> HIDE DEF a, ops
<1>12. MildSteps(q)
  BY <1>2, <1>7 DEF MildSteps
<1>13. SandboxOf(z, d \cup c) /\ EndedOf(z, d \cup c)
  BY <1>2, <1>3, <1>6, <1>9, SlotCounts
<1> HIDE DEF op, c
<1> QED
  BY <1>1, <1>3, <1>5, <1>6, <1>7, <1>8, <1>11, <1>12, <1>13, CallPaid DEF c

LEMMA ChatReturnsExact ==
  ASSUME Good, Exact, ChatReturns
  PROVE  Exact'
<1> DEFINE s == Head(stack).s
           redo == pend[s].step.redo
           todo == IF redo # <<>> THEN {redo} ELSE world.tools
<1>0. Top("answered")
  BY DEF ChatReturns
<1>1. s \in Sessions
  BY <1>0, TopIsSession DEF Top
<1>2. \A i \in DOMAIN redo : Meek(redo[i])
  BY <1>1 DEF Exact, MildSteps
<1>3. \A l \in todo : \A i \in DOMAIN l : Meek(l[i])
  BY <1>2 DEF Exact, MildTools, Meek, Modest
<1>4. \/ ChatOver(s, "finish", redo)
      \/ ChatOver(s, "spawn", redo)
      \/ \E l \in todo : ChatOver(s, "next", l)
  BY DEF ChatReturns
<1> HIDE DEF s, redo, todo
<1>5. CASE ChatOver(s, "finish", redo)
  BY <1>0, <1>2, <1>5, ChatOverExact DEF s
<1>6. CASE ChatOver(s, "spawn", redo)
  BY <1>0, <1>2, <1>6, ChatOverExact DEF s
<1>7. ASSUME NEW l \in todo, ChatOver(s, "next", l)
      PROVE  Exact'
  BY <1>0, <1>3, <1>7, ChatOverExact DEF s
<1> QED
  BY <1>4, <1>5, <1>6, <1>7

\* The account that an event of s finds.
LEMMA EventCounts ==
  ASSUME Good, Exact, stack = <<>>, NEW s \in Sessions
  PROVE  /\ Below(<<>>, s) /\ At(s, {}, {}) /\ ClearsIn(<<>>, s) = {} /\ UnpairedBut(s) /\ Unpaired
         /\ \A r \in Units : CountOf(pend[s], prog[s], held[s][r], 0, r)
         /\ SandboxOf(prog[s], {}) /\ EndedOf(prog[s], {}) /\ MildSteps(pend[s])
<1>1. Below(<<>>, s) /\ At(s, {}, {}) /\ ClearsIn(<<>>, s) = {} /\ \A r : DueIn(<<>>, s, r) = 0
  BY AtEvent, ViewOfNone
<1>2. Unpaired
  BY NoGroup DEF Top
<1>3. Counted(s) /\ MildSteps(pend[s])
  BY DEF Exact
<1> QED
  BY <1>1, <1>2, <1>3, OthersToo DEF Counted

\* An event of s that leaves the others alone.
LEMMA EventPaid ==
  ASSUME Good, Exact, stack = <<>>, world' = world, NEW s \in Sessions,
         NEW a, NEW ops, NEW clears, Volley(a, s, ops, TRUE, clears), clears \subseteq {"slots"}, stack' = a,
         NEW q, pend' = [pend EXCEPT ![s] = q], ~q.par, MildSteps(q), prog' = prog, held' = held,
         \A r \in Units : CountOf(q, prog[s], held[s][r], DueIn(a, s, r), r)
  PROVE  Exact'
<1> DEFINE b == <<>>
           yes == TRUE
<1>1. Below(b, s) /\ ClearsIn(b, s) = {} /\ UnpairedBut(s) /\ SandboxOf(prog[s], {}) /\ EndedOf(prog[s], {})
  BY EventCounts
<1>2. a \o b = a
  <2>1. a \in Seq(Frame)
    BY DEF Volley
  <2> QED
    BY <2>1
<1>3. pend'[s] = q /\ prog'[s] = prog[s] /\ held'[s] = held[s] /\ \A x \in Sessions : x # s => pend'[x] = pend[x]
  BY Data
<1>4. SandboxOf(prog[s], clears \cup ClearsIn(b, s)) /\ EndedOf(prog[s], clears \cup ClearsIn(b, s))
  <2>1. \A r \in {"mem", "cpu"} : r \notin clears \cup ClearsIn(b, s)
    BY <1>1
  <2> QED
    BY <1>1, <2>1 DEF SandboxOf, EndedOf
<1>5. Accounts(s, a, clears \cup ClearsIn(b, s))
  BY <1>3, <1>4 DEF Accounts
<1>6. \A x \in Sessions : x # s => /\ Tidy(x) /\ pend'[x].step = pend[x].step /\ pend'[x].rest = pend[x].rest
                                   /\ (pend'[x].par /\ pend[x].mode = "tool" => pend'[x].mode = "tool")
  BY <1>3 DEF Tidy
<1>7. yes \in BOOLEAN /\ Volley(a, s, ops, yes, clears) /\ stack' = a \o b /\ ~pend'[s].par /\ MildSteps(pend'[s])
  BY <1>2, <1>3
<1> HIDE DEF b, yes
<1> QED
  BY <1>1, <1>5, <1>6, <1>7, PushKeeps

\* _finish_step_holds.
LEMMA StepEndExact ==
  ASSUME Good, Exact, NEW s \in Sessions, world' = world, NEW mode \in {"tool", "fetch"}, NEW op, NEW frames,
         Volley(frames, s, {op}, TRUE, {}),
         \A r \in Units : DueIn(frames, s, r) = IF r \in {"ext", "ret", "cpu"} THEN pend[s].own[r] ELSE 0,
         StepEnd(s, mode, frames)
  PROVE  Exact'
<1> DEFINE p == pend[s]
           q == [p EXCEPT !.own = Nothing, !.par = FALSE, !.mode = "ready"]
           none == {}
           ops == {op}
<1>1. stack = <<>> /\ stack' = frames /\ pend' = [pend EXCEPT ![s] = q] /\ prog' = prog /\ held' = held /\ p.mode = mode
  BY DEF StepEnd, Handle, AtRest
<1>2. At(s, {}, {}) /\ (\A r \in Units : CountOf(p, prog[s], held[s][r], 0, r)) /\ MildSteps(p)
  BY <1>1, EventCounts
<1>3. p \in PendRec /\ p.part = <<>>
  BY <1>1, <1>2 DEF At, FlowOf
<1>4. q.step = p.step /\ q.rest = p.rest /\ q.part = p.part /\ q.own = Nothing /\ q.par = FALSE
  BY <1>3 DEF PendRec
<1> HIDE DEF q
<1>5. ~q.par /\ MildSteps(q)
  BY <1>2, <1>4 DEF MildSteps
<1>6. ASSUME NEW r \in Units
      PROVE  CountOf(q, prog[s], held[s][r], DueIn(frames, s, r), r)
  <2> DEFINE g == prog[s]
             h == held[s][r]
             due == DueIn(frames, s, r)
             n == p.own[r]
  <2>1. g.holds[r] \in Nat /\ n \in Nat /\ h \in Nat /\ n <= g.holds[r]
    BY <1>2, Sizes
  <2>2. CountOf(p, g, h, 0, r) /\ due = IF r \in {"ext", "ret", "cpu"} THEN n ELSE 0
    BY <1>2
  <2>3. Amount(p.part, r) = 0 /\ q.own[r] = 0
    BY <1>3, <1>4, AmountEmpty, BagOf
  <2> HIDE DEF p, g, h, due, n
  <2>4. h = g.holds[r] /\ (r \in {"ext", "ret"} => g.holds[r] <= n)
    BY <2>1, <2>2, <2>3 DEF CountOf, n
  <2>5. CountOf(q, g, h, due, r)
    BY <1>4, <2>1, <2>2, <2>3, <2>4 DEF CountOf
  <2> QED
    BY <2>5 DEF g, h, due
<1>7. Volley(frames, s, ops, TRUE, none) /\ none \subseteq {"slots"}
  OBVIOUS
<1> HIDE DEF none, ops
<1> QED
  BY <1>1, <1>5, <1>6, <1>7, EventPaid

LEMMA ToolEndExact ==
  ASSUME Good, Exact, NEW s \in Sessions, world' = world, ToolEnd(s)
  PROVE  Exact'
<1> DEFINE count == IF Calls(s) THEN <<Call("counted", s)>> ELSE <<>>
           frames == GiveUnit(s, "ext") \o count \o GiveUnit(s, "ret") \o GiveUnit(s, "cpu") \o <<Call("worked", s)>>
<1>1. StepEnd(s, "tool", frames)
  BY DEF ToolEnd
<1>2. count = <<>> \/ count = <<Call("counted", s)>>
  OBVIOUS
<1> HIDE DEF count
<1>3. pend[s].own \in Bags /\ "worked" \in ThreadOps
  BY OwnBag
<1>4. /\ Volley(frames, s, {"worked"}, TRUE, {})
      /\ \A r \in Units : DueIn(frames, s, r) = IF r \in {"ext", "ret", "cpu"} THEN pend[s].own[r] ELSE 0
  BY <1>2, <1>3, ToolEndVolley
<1> HIDE DEF frames
<1> QED
  BY <1>1, <1>4, StepEndExact, ZenonT(40)

LEMMA ToolLimitExact ==
  ASSUME Good, Exact, NEW s \in Sessions, world' = world, ToolLimit(s)
  PROVE  Exact'
<1> DEFINE frames == GiveOwn(s) \o <<Call("react", s)>>
<1>1. StepEnd(s, "tool", frames)
  BY DEF ToolLimit
<1>2. pend[s].own \in Bags /\ "react" \in ThreadOps
  BY OwnBag
<1>3. /\ Volley(frames, s, {"react"}, TRUE, {})
      /\ \A r \in Units : DueIn(frames, s, r) = IF r \in {"ext", "ret", "cpu"} THEN pend[s].own[r] ELSE 0
  BY <1>2, OwnVolley
<1> HIDE DEF frames
<1> QED
  BY <1>1, <1>3, StepEndExact, ZenonT(40)

LEMMA FetchEndExact ==
  ASSUME Good, Exact, NEW s \in Sessions, world' = world, FetchEnd(s)
  PROVE  Exact'
<1> DEFINE frames == GiveOwn(s) \o <<Call("fetched", s)>>
<1>1. StepEnd(s, "fetch", frames)
  BY DEF FetchEnd
<1>2. pend[s].own \in Bags /\ "fetched" \in ThreadOps
  BY OwnBag
<1>3. /\ Volley(frames, s, {"fetched"}, TRUE, {})
      /\ \A r \in Units : DueIn(frames, s, r) = IF r \in {"ext", "ret", "cpu"} THEN pend[s].own[r] ELSE 0
  BY <1>2, OwnVolley
<1> HIDE DEF frames
<1> QED
  BY <1>1, <1>3, StepEndExact, ZenonT(40)

\* _timeout_step: what the step took and owns goes back, and the slot with it.
LEMMA TimeoutCounts ==
  ASSUME NEW p \in PendRec, NEW g \in ProgRec, NEW h \in Nat, NEW r \in Units, NEW due, NEW q,
         CountOf(p, g, h, 0, r), p.own[r] <= g.holds[r], ~p.par,
         due = Amount(p.part, r) + (IF r \in {"ext", "ret", "cpu"} THEN p.own[r] ELSE 0),
         q.part = <<>>, q.own = Nothing
  PROVE  CountOf(q, g, h, due, r)
<1>1. Amount(p.part, r) \in Nat /\ g.holds[r] \in Nat /\ p.own[r] \in Nat
  BY AmountIs, PendIs, ProgIs DEF Bags
<1>2. Amount(q.part, r) = 0 /\ q.own[r] = 0
  BY AmountEmpty, BagOf
<1> DEFINE n == Amount(p.part, r)
           m == g.holds[r]
           k == p.own[r]
<1>3. /\ h = m + n /\ (n > 0 => m = 0) /\ (r \in {"ext", "ret"} => m <= k) /\ k <= m
      /\ due = n + (IF r \in {"ext", "ret", "cpu"} THEN k ELSE 0) /\ n \in Nat /\ m \in Nat /\ k \in Nat
  BY <1>1 DEF CountOf
<1> HIDE DEF n, m, k
<1>4. /\ h = m + 0 + (IF m = 0 THEN due ELSE 0) /\ (m > 0 => due <= m)
      /\ (r \in {"ext", "ret"} => m <= 0 + due) /\ (r = "mem" /\ due > 0 => m = 0)
  BY <1>3
<1> QED
  BY <1>2, <1>4 DEF CountOf, m

LEMMA TimeoutExact ==
  ASSUME Good, Exact, NEW s \in Sessions, world' = world, WaitTimeout(s) \/ DeadlockBreak(s)
  PROVE  Exact'
<1> DEFINE p == pend[s]
           n == NoPending("ready")
           q == [n EXCEPT !.step = p.step, !.rest = p.rest, !.tries = p.tries]
           w == IF p.mode \in {"prefill", "decode"} THEN <<Wake("kv")>> ELSE <<>>
           a == GiveEach(s, pend[s].part) \o w \o GiveOwn(s) \o GiveSlot(s) \o <<Call("react", s)>>
           d == IF prog[s].holds["slots"] > 0 THEN {"slots"} ELSE {}
           ops == {"react"}
<1>1. stack = <<>> /\ stack' = a /\ pend' = [pend EXCEPT ![s] = q] /\ prog' = prog /\ held' = held
  BY DEF WaitTimeout, DeadlockBreak, TimeoutStep, Handle, AtRest
<1>2. At(s, {}, {}) /\ (\A r \in Units : CountOf(p, prog[s], held[s][r], 0, r)) /\ MildSteps(p) /\ Unpaired
  BY <1>1, EventCounts
<1>3. p \in PendRec /\ prog[s] \in ProgRec /\ p.mode # "tool"
  <2>1. p \in PendRec /\ prog[s] \in ProgRec /\ (p.flag => p.mode = "waiting")
    BY <1>2 DEF At, FlowOf
  <2> QED
    BY <2>1 DEF WaitTimeout, DeadlockBreak
<1>4. ~p.par
  BY <1>2, <1>3 DEF Unpaired
<1>5. q.step = p.step /\ q.rest = p.rest /\ q.part = <<>> /\ q.own = Nothing /\ q.par = FALSE
  <2>1. n \in PendRec /\ n.part = <<>> /\ n.own = Nothing /\ n.par = FALSE
    BY NewPending DEF Modes
  <2> HIDE DEF n
  <2> QED
    BY <2>1 DEF PendRec
<1> HIDE DEF n, q
<1>6. /\ Volley(a, s, ops, TRUE, d)
      /\ \A r \in Units : DueIn(a, s, r) = Amount(p.part, r) + (IF r \in {"ext", "ret", "cpu"} THEN p.own[r] ELSE 0)
  <2>1. p.part \in Parts /\ p.own \in Bags /\ \A i \in DOMAIN p.part : p.part[i][2] > 0
    BY <1>2, <1>3, PendIs DEF At, PartOf
  <2>2. prog[s].holds["slots"] \in Nat
    BY <1>2, UnitsAre, Sizes
  <2>3. Volley(w, s, {}, FALSE, {})
    <3>1. Wake("kv") \in Frame /\ Wake("kv").op = "lapse"
      BY Data, WakeIs
    <3>2. ~IsThread(Wake("kv"))
      BY <3>1 DEF IsThread, ThreadOps
    <3>3. Volley(<<Wake("kv")>>, s, {}, FALSE, {})
      BY <3>1, <3>2, VolleyNeutral
    <3> QED
      BY <3>3, VolleyNone
  <2> HIDE DEF w
  <2> QED
    BY <2>1, <2>2, <2>3, TimeoutVolley
<1> HIDE DEF a
<1>7. ASSUME NEW r \in Units
      PROVE  CountOf(q, prog[s], held[s][r], DueIn(a, s, r), r)
  <2>1. held[s][r] \in Nat /\ p.own[r] <= prog[s].holds[r] /\ CountOf(p, prog[s], held[s][r], 0, r)
    BY <1>2, Sizes
  <2> HIDE DEF p
  <2> QED
    BY <1>3, <1>4, <1>5, <1>6, <2>1, TimeoutCounts
<1>8. ~q.par /\ MildSteps(q)
  BY <1>2, <1>5 DEF MildSteps
<1>9. d \subseteq {"slots"} /\ Volley(a, s, ops, TRUE, d)
  BY <1>6
<1> HIDE DEF d, ops, p
<1> QED
  BY <1>1, <1>7, <1>8, <1>9, EventPaid

\* What a parked sandbox's timers do: it goes back, or nothing does.
LEMMA ParkedExact ==
  ASSUME Good, Exact, NEW s \in Sessions, world' = world, Parked(s), NEW g, g.holds = prog[s].holds, g.life = prog[s].life,
         prog' = [prog EXCEPT ![s] = g], UNCHANGED <<pend, held>>
  PROVE  Exact'
<1> DEFINE a == <<Give(s, "mem", All), Give(s, "cpu", All)>>
           b == <<>>
           both == {"mem", "cpu"}
           none == {}
           no == FALSE
<1>1. stack = <<>>
  BY DEF Parked, Handle, AtRest
<1>2. CASE Handle(<<>>)
  <2>1. ProgsKept
    BY OneProgram
  <2> QED
    BY <1>2, <2>1, NoGivesNone, EventTidy
<1>3. CASE Handle(a)
  <2>1. /\ Below(b, s) /\ ClearsIn(b, s) = {} /\ UnpairedBut(s) /\ Unpaired /\ EndedOf(prog[s], {}) /\ MildSteps(pend[s])
        /\ \A r \in Units : CountOf(pend[s], prog[s], held[s][r], 0, r)
    BY <1>1, EventCounts
  <2>2. Volley(a, s, none, no, both) /\ (\A r : DueIn(a, s, r) = 0) /\ no \in BOOLEAN
    BY ParkedVolley
  <2>3. stack' = a \o b
    BY <1>3 DEF Handle
  <2> HIDE DEF a, b, none, no
  <2>4. prog'[s] = g /\ pend'[s] = pend[s] /\ held'[s] = held[s]
        /\ \A x \in Sessions : x # s => pend'[x] = pend[x] /\ prog'[x] = prog[x]
    BY Data
  <2>5. SandboxOf(g, both \cup ClearsIn(b, s)) /\ EndedOf(g, both \cup ClearsIn(b, s))
    BY <2>1 DEF SandboxOf, EndedOf
  <2>6. \A r \in Units : CountOf(pend[s], g, held[s][r], DueIn(a, s, r), r)
    BY <2>1, <2>2 DEF CountOf
  <2>7. Accounts(s, a, both \cup ClearsIn(b, s))
    BY <2>4, <2>5, <2>6 DEF Accounts
  <2>8. \A x \in Sessions : x # s => /\ Tidy(x) /\ pend'[x].step = pend[x].step /\ pend'[x].rest = pend[x].rest
                                     /\ (pend'[x].par /\ pend[x].mode = "tool" => pend'[x].mode = "tool")
    BY <2>4 DEF Tidy
  <2>9. (pend'[s].par => pend'[s].mode = "tool") /\ MildSteps(pend'[s])
    BY <2>1 DEF Unpaired
  <2> HIDE DEF both
  <2> QED
    BY <2>1, <2>2, <2>3, <2>7, <2>8, <2>9, PushKeeps
<1> QED
  BY <1>2, <1>3 DEF Parked

LEMMA ParkExact ==
  ASSUME Good, Exact, NEW s \in Sessions, world' = world, Park(s) \/ ParkIdle(s)
  PROVE  Exact'
<1>1. prog[s] \in ProgRec
  BY Data
<1>2. CASE Park(s)
  <2> DEFINE o == prog[s]
             g == [o EXCEPT !.park = o.park - 1]
  <2>1. Parked(s) /\ prog' = [prog EXCEPT ![s] = g] /\ UNCHANGED <<pend, held>>
    BY <1>2, Data DEF Park
  <2>2. g.holds = o.holds /\ g.life = o.life
    BY <1>1 DEF ProgRec
  <2> HIDE DEF g
  <2> QED
    BY <2>1, <2>2, ParkedExact
<1>3. CASE ParkIdle(s)
  <2> DEFINE o == prog[s]
             g == [o EXCEPT !.nap = IF o.nap = "park" THEN "no" ELSE "warm"]
  <2>1. Parked(s) /\ prog' = [prog EXCEPT ![s] = g] /\ UNCHANGED <<pend, held>>
    BY <1>3, Data DEF ParkIdle
  <2>2. g.holds = o.holds /\ g.life = o.life
    BY <1>1 DEF ProgRec
  <2> HIDE DEF g
  <2> QED
    BY <2>1, <2>2, ParkedExact
<1> QED
  BY <1>2, <1>3

\* _prewarm: a sandbox is taken whole, by a session that has none.
LEMMA WarmExact ==
  ASSUME Good, Exact, NEW s \in Sessions, world' = world, Handle(<<>>), ~HasStep(s), prog[s].nap = "warm",
         prog[s].holds["mem"] = 0, NEW k,
         held' = [held EXCEPT ![s] = [held[s] EXCEPT !["mem"] = held[s]["mem"] + world.gb[s], !["cpu"] = held[s]["cpu"] + 1]],
         prog' = [prog EXCEPT ![s] = [prog[s] EXCEPT !.holds = [prog[s].holds EXCEPT !["mem"] = world.gb[s], !["cpu"] = 1],
                                                     !.nap = "no", !.park = k]],
         pend' = pend
  PROVE  Exact'
<1> DEFINE b == <<>>
           p == pend[s]
           o == prog[s]
           m == world.gb[s]
           h == held[s]
           bag == [o.holds EXCEPT !["mem"] = m, !["cpu"] = 1]
           g == [o EXCEPT !.holds = bag, !.nap = "no", !.park = k]
           row == [h EXCEPT !["mem"] = h["mem"] + m, !["cpu"] = h["cpu"] + 1]
           none == {}
           no == FALSE
<1>1. stack = <<>> /\ stack' = b \o b
  BY DEF Handle, AtRest
<1>2. /\ Below(b, s) /\ At(s, {}, {}) /\ ClearsIn(b, s) = {} /\ UnpairedBut(s) /\ Unpaired /\ SandboxOf(o, {}) /\ MildSteps(p)
      /\ \A r \in Units : CountOf(p, o, h[r], 0, r)
  BY <1>1, EventCounts
<1>3. p \in PendRec /\ o \in ProgRec /\ h \in [Units -> Int] /\ o.holds \in Bags /\ m \in Nat \ {0}
      /\ "mem" \in Units /\ "cpu" \in Units
  BY <1>2, ProgIs, Data, WorldIs, UnitsAre DEF At, IsWorld, Sessions
<1>4. p.part = <<>> /\ o.life = "active"
  BY <1>2 DEF At, FlowOf, HasStep, Pausing
<1>5. \A r \in Units : bag[r] = IF r = "mem" THEN m ELSE IF r = "cpu" THEN 1 ELSE o.holds[r]
  BY <1>3 DEF Bags
<1>6. \A r \in Units : row[r] = IF r = "mem" THEN h[r] + m ELSE IF r = "cpu" THEN h[r] + 1 ELSE h[r]
  BY <1>3
<1>7. g.holds = bag /\ g.life = o.life
  BY <1>3 DEF ProgRec
<1>8. pend'[s] = p /\ prog' = [prog EXCEPT ![s] = g] /\ held' = [held EXCEPT ![s] = row]
  OBVIOUS
<1> HIDE DEF bag, g, row
<1>9. prog'[s] = g /\ held'[s] = row /\ \A x \in Sessions : x # s => prog'[x] = prog[x] /\ held'[x] = held[x]
  BY <1>8, Data
<1>10. o.holds["cpu"] = 0
  BY <1>2 DEF SandboxOf
<1>11. ASSUME NEW r \in Units
       PROVE  CountOf(p, g, row[r], DueIn(b, s, r), r)
  <2>1. DueIn(b, s, r) = 0 /\ Amount(p.part, r) = 0
    BY <1>4, ViewOfNone, AmountEmpty
  <2>2. CountOf(p, o, h[r], 0, r) /\ h[r] \in Int /\ o.holds[r] \in Nat
    BY <1>2, <1>3 DEF Bags
  <2>3. g.holds[r] = IF r = "mem" THEN m ELSE IF r = "cpu" THEN 1 ELSE o.holds[r]
    BY <1>5, <1>7
  <2>4. row[r] = IF r = "mem" THEN h[r] + m ELSE IF r = "cpu" THEN h[r] + 1 ELSE h[r]
    BY <1>6
  <2> DEFINE x == row[r]
             y == h[r]
             z == g.holds[r]
             v == o.holds[r]
  <2>5. y = v
    BY <2>1, <2>2 DEF CountOf
  <2>6. (r = "mem" => v = 0) /\ (r = "cpu" => v = 0)
    BY <1>10
  <2>7. x = z /\ (z > 0 => 0 <= z) /\ (r \in {"ext", "ret"} => z = v) /\ z \in Nat
    BY <1>3, <2>2, <2>3, <2>4, <2>5, <2>6
  <2>8. r \in {"ext", "ret"} => v <= p.own[r] + 0
    BY <2>2 DEF CountOf
  <2> QED
    BY <2>1, <2>7, <2>8 DEF CountOf
<1>12. SandboxOf(g, none \cup ClearsIn(b, s)) /\ EndedOf(g, none \cup ClearsIn(b, s))
  <2>1. g.holds["mem"] # 0 /\ none \cup ClearsIn(b, s) = {}
    BY <1>2, <1>3, <1>5, <1>7
  <2> QED
    BY <1>4, <1>7, <2>1 DEF SandboxOf, EndedOf
<1>13. Accounts(s, b, none \cup ClearsIn(b, s))
  BY <1>8, <1>9, <1>11, <1>12 DEF Accounts
<1>14. \A x \in Sessions : x # s => /\ Tidy(x) /\ pend'[x].step = pend[x].step /\ pend'[x].rest = pend[x].rest
                                    /\ (pend'[x].par /\ pend[x].mode = "tool" => pend'[x].mode = "tool")
  BY <1>9 DEF Tidy
<1>15. (pend'[s].par => pend'[s].mode = "tool") /\ MildSteps(pend'[s]) /\ no \in BOOLEAN /\ Volley(b, s, none, no, none)
  BY <1>2, VolleyNone DEF Unpaired
<1> HIDE DEF b, none, no
<1> QED
  BY <1>1, <1>2, <1>13, <1>14, <1>15, PushKeeps

LEMMA PrewarmExact ==
  ASSUME Good, Exact, NEW s \in Sessions, world' = world, Prewarm(s)
  PROVE  Exact'
<1> DEFINE warm == ~HasStep(s) /\ prog[s].holds["mem"] = 0 /\ Free("mem", s) >= world.gb[s] /\ Free("cpu", s) >= 1
<1>1. prog[s].nap = "warm" /\ Handle(<<>>) /\ pend' = pend /\ prog[s] \in ProgRec
  BY Data DEF Prewarm
<1>2. CASE warm
  <2>1. \E park \in PrewarmHolds :
          /\ held' = [held EXCEPT ![s] = [held[s] EXCEPT !["mem"] = held[s]["mem"] + world.gb[s],
                                                         !["cpu"] = held[s]["cpu"] + 1]]
          /\ prog' = [prog EXCEPT ![s] =
                        [prog[s] EXCEPT !.holds = [prog[s].holds EXCEPT !["mem"] = world.gb[s], !["cpu"] = 1],
                                        !.nap = "no", !.park = prog[s].park + park]]
    BY <1>2 DEF Prewarm
  <2> QED
    BY <1>1, <1>2, <2>1, WarmExact
<1>3. CASE ~warm
  <2> DEFINE o == prog[s]
             g == [o EXCEPT !.nap = "no"]
  <2>1. prog' = [prog EXCEPT ![s] = g] /\ held' = held
    BY <1>3, Data DEF Prewarm
  <2>2. g.holds = o.holds /\ g.life = o.life
    BY <1>1 DEF ProgRec
  <2> HIDE DEF g
  <2>3. ProgsKept
    BY <2>1, <2>2, OneProgram
  <2> QED
    BY <1>1, <2>1, <2>3, NoGivesNone, EventTidy
<1> QED
  BY <1>2, <1>3

\* What is given back leaves the account even.
LEMMA ReleaseCounts ==
  ASSUME NEW p, NEW g, NEW z, NEW h, NEW k, NEW r, NEW u, NEW amt, NEW due, NEW rest, NEW gives, NEW at, NEW ops, NEW clears, NEW late,
         Account(p, g, z, h, k, r, u, amt, due, rest, gives, at, ops, clears, late), CountOf(p, g, h, due, u)
  PROVE  CountOf(p, z, k, rest, u)
<1>0. /\ p \in PendRec /\ g \in ProgRec /\ z \in ProgRec /\ u \in Units /\ amt \in Nat /\ due \in Nat /\ rest \in Nat
      /\ gives \in BOOLEAN /\ h \in Int
      /\ FlowOf(p, g, at, ops, gives) /\ ClearOf(p, g, ops, clears, late) /\ PartOf(p)
      /\ due = (IF u = r THEN amt ELSE 0) + rest
      /\ (amt # 0 => gives) /\ (amt = 0 => r \in clears /\ rest = 0)
      /\ k = IF u = r THEN h - (IF amt = 0 THEN h ELSE amt) ELSE h
      /\ z.holds[u] = IF u = r THEN (IF amt = 0 \/ g.holds[r] <= amt THEN 0 ELSE g.holds[r] - amt) ELSE g.holds[u]
  BY DEF Account
<1>1. Amount(p.part, u) \in Nat /\ g.holds[u] \in Nat /\ p.own[u] \in Nat
  BY <1>0, PendIs, ProgIs, AmountIs DEF Bags
<1> DEFINE x == g.holds[u]
           y == z.holds[u]
           n == Amount(p.part, u)
           m == p.own[u]
<1>2. /\ x \in Nat /\ n \in Nat /\ m \in Nat /\ amt \in Nat /\ due \in Nat /\ rest \in Nat /\ h \in Int
      /\ h = x + n + (IF x = 0 THEN due ELSE 0) /\ (x > 0 => due <= x)
      /\ (n > 0 => x = 0 \/ (u = "cpu" /\ p.par)) /\ (u \in {"ext", "ret"} => x <= m + due)
      /\ (u = "mem" /\ due > 0 => x = 0)
  BY <1>0, <1>1 DEF CountOf
<1>3. CASE u # r
  <2>1. k = h /\ rest = due /\ z.holds[u] = g.holds[u]
    BY <1>0, <1>3
  <2> QED
    BY <2>1 DEF CountOf
<1>4. CASE u = r /\ amt # 0
  <2>1. p.part = <<>> /\ p.own = Nothing
    BY <1>0, <1>4 DEF FlowOf
  <2>2. n = 0 /\ m = 0
    BY <1>0, <2>1, AmountEmpty, BagOf
  <2>3. due = amt + rest /\ k = h - amt /\ y = IF x <= amt THEN 0 ELSE x - amt
    BY <1>0, <1>4
  <2> HIDE DEF x, y, n, m
  <2>4. /\ k = y + n + (IF y = 0 THEN rest ELSE 0) /\ (y > 0 => rest <= y)
        /\ (u \in {"ext", "ret"} => y <= m + rest) /\ (u = "mem" /\ rest > 0 => y = 0)
    <3>1. CASE x = 0
      BY <1>2, <1>4, <2>2, <2>3, <3>1
    <3>2. CASE x > 0 /\ x <= amt
      <4>1. due = amt /\ rest = 0 /\ x = amt /\ y = 0 /\ k = 0
        BY <1>2, <1>4, <2>2, <2>3, <3>2
      <4> QED
        BY <2>2, <4>1
    <3>3. CASE x > amt
      <4>1. y = x - amt /\ y > 0 /\ k = y /\ rest <= y
        BY <1>2, <1>4, <2>2, <2>3, <3>3
      <4>2. u \in {"ext", "ret"} => y <= rest
        BY <1>2, <2>2, <2>3, <4>1
      <4>3. u = "mem" /\ rest > 0 => y = 0
        BY <1>2, <2>3, <3>3
      <4> QED
        BY <1>2, <2>2, <4>1, <4>2, <4>3
    <3> QED
      BY <1>2, <3>1, <3>2, <3>3
  <2> QED
    BY <2>2, <2>4 DEF CountOf, y, n, m
<1>5. CASE u = r /\ amt = 0
  <2>1. k = 0 /\ rest = 0 /\ z.holds[u] = 0
    BY <1>0, <1>5
  <2>2. Vacant(p, ops, r) \/ Idling(p, r)
    BY <1>0, <1>5 DEF ClearOf
  <2>3. n = 0
    <3>1. CASE Idling(p, r)
      BY <1>0, <3>1, AmountEmpty DEF Idling
    <3>2. CASE Vacant(p, ops, r)
      <4>1. r \in {"mem", "cpu"} /\ p.step.loc = 0
        BY <3>2 DEF Vacant
      <4>2. \A i \in DOMAIN p.part : p.part[i][1] # u
        BY <1>0, <1>5, <4>1 DEF PartOf
      <4> QED
        BY <1>0, <4>2, PendIs, AmountNone
    <3> QED
      BY <2>2, <3>1, <3>2
  <2> QED
    BY <1>1, <2>1, <2>3 DEF CountOf
<1> QED
  BY <1>3, <1>4, <1>5

\* What a frame on top of b clears.
LEMMA TopClears ==
  ASSUME Good, Top("give"), NEW s, s = Head(stack).s, NEW x
  PROVE  x \in ClearsIn(stack, s) => x \in ClearsIn(Tail(stack), s) \/ (x = Head(stack).r /\ Head(stack).amt = All)
<1> DEFINE f == Head(stack)
           b == Tail(stack)
<1>1. f \in Frame /\ b \in Seq(Frame) /\ <<f>> \in Seq(Frame) /\ stack = <<f>> \o b
  BY Data, HeadIs DEF Top
<1> HIDE DEF f, b
<1>2. ClearsIn(stack, s) = ClearsIn(<<f>>, s) \cup ClearsIn(b, s)
  BY <1>1, ViewOfConcat
<1>3. ClearsIn(<<f>>, s) = IF f.s = s /\ IsClear(f) THEN {f.r} ELSE {}
  BY <1>1, ViewOfOne
<1> QED
  BY <1>2, <1>3 DEF IsClear, f, b

\* _release.
LEMMA ReleaseExact ==
  ASSUME Good, Exact, Release
  PROVE  Exact'
<1> SUFFICES ASSUME NEW s, s = Head(stack).s, NEW r, r = Head(stack).r, NEW n, n = Head(stack).amt,
                    NEW b, b = Tail(stack)
             PROVE  Exact'
  OBVIOUS
<1> DEFINE a == Waking(r, b)
           g == prog[s]
           z == prog'[s]
           C == ClearsIn(stack, s)
           D == ClearsIn(b, s)
<1>0. Releases(s, r, n, b)
  BY ReleaseFinds
<1>1. /\ Top("give") /\ GiveView(s, b, r, n)
      /\ \A y \in Sessions : y # s => prog'[y] = prog[y]
      /\ \A y \in Sessions : y # s => held'[y] = held[y]
      /\ z.life = g.life
      /\ Neutral(a) /\ stack' = a \o b /\ world' = world /\ pend' = pend
  BY <1>0 DEF Releases
<1>2. \A u \in Units :
        Account(pend[s], g, z, held[s][u], held'[s][u], r, u, n, DueIn(stack, s, u), DueIn(b, s, u),
                GivesIn(stack, s), kv[s].at, OpsIn(stack, s), C, LateIn(stack, s))
  BY <1>0 DEF Releases
<1>3. s \in Sessions /\ b \in Seq(Frame) /\ Orderly(b) /\ (\A o : o # s => SameView(b, stack, o)) /\ D \subseteq C
  BY <1>1 DEF GiveView
<1>4. \A o : SameView(stack', b, o)
  BY <1>1, <1>3, NeutralView
<1>5. Counted(s) /\ Unpaired
  BY <1>1, <1>3, NoGroup DEF Exact, Top
<1>6. \A u \in Units : CountOf(pend[s], z, held'[s][u], DueIn(b, s, u), u)
  <2>1. \A u \in Units : CountOf(pend[s], g, held[s][u], DueIn(stack, s, u), u)
    BY <1>5 DEF Counted
  <2> HIDE DEF g, z, C
  <2> QED
    BY <1>2, <2>1, ReleaseCounts
<1>7. \A x : x \in C => x \in D \/ (x = r /\ n = 0)
  BY <1>1, TopClears DEF All
<1>8. \A u \in Units : /\ g.holds[u] \in Nat /\ n \in Nat
                       /\ z.holds[u] = IF u = r THEN (IF n = 0 \/ g.holds[r] <= n THEN 0 ELSE g.holds[r] - n) ELSE g.holds[u]
  <2>1. \A u \in Units : /\ g \in ProgRec /\ n \in Nat
                         /\ z.holds[u] = IF u = r THEN (IF n = 0 \/ g.holds[r] <= n THEN 0 ELSE g.holds[r] - n) ELSE g.holds[u]
    BY <1>2 DEF Account
  <2> QED
    BY <2>1, ProgIs DEF Bags
<1>9. r = "mem" /\ n > 0 => g.holds["mem"] = 0
  <2>1. "mem" \in Units
    BY UnitsAre
  <2>2. CountOf(pend[s], g, held[s]["mem"], DueIn(stack, s, "mem"), "mem")
    BY <1>5, <2>1 DEF Counted
  <2>3. r = "mem" => DueIn(stack, s, "mem") = n + DueIn(b, s, "mem") /\ DueIn(b, s, "mem") \in Nat /\ n \in Nat
    BY <1>2, <2>1 DEF Account
  <2> QED
    BY <2>2, <2>3 DEF CountOf
<1>10. SandboxOf(g, C) /\ EndedOf(g, C)
  BY <1>5 DEF Counted
<1>11. "mem" \in Units /\ "cpu" \in Units
  BY UnitsAre
<1> HIDE DEF a, g, z, C, D
<1>12. SandboxOf(z, D)
  <2> SUFFICES ASSUME z.holds["mem"] = 0 \/ "mem" \in D PROVE z.holds["cpu"] = 0 \/ "cpu" \in D
    BY DEF SandboxOf
  <2>1. g.holds["mem"] = 0 \/ "mem" \in C
    <3>1. CASE r # "mem"
      BY <1>3, <1>8, <1>11, <3>1
    <3>2. CASE r = "mem" /\ n > 0
      BY <1>9, <3>2
    <3>3. CASE r = "mem" /\ n = 0
      <4>1. r \in C
        BY <1>2, <1>11, <3>3 DEF Account
      <4> QED
        BY <3>3, <4>1
    <3>4. n \in Nat
      BY <1>8, <1>11
    <3> QED
      BY <3>1, <3>2, <3>3, <3>4
  <2>2. g.holds["cpu"] = 0 \/ "cpu" \in C
    BY <1>10, <2>1 DEF SandboxOf
  <2>3. g.holds["cpu"] = 0 => z.holds["cpu"] = 0
    BY <1>8, <1>11
  <2>4. r = "cpu" /\ n = 0 => z.holds["cpu"] = 0
    BY <1>8, <1>11
  <2> QED
    BY <1>7, <2>2, <2>3, <2>4
<1>13. EndedOf(z, D)
  <2> SUFFICES ASSUME z.life \in {"done", "aborted"}, NEW u \in Units, z.holds[u] > 0 PROVE u \in D
    BY DEF EndedOf
  <2>1. g.holds[u] > 0 /\ ~(u = r /\ n = 0)
    BY <1>8
  <2>2. u \in C
    BY <1>1, <1>10, <2>1 DEF EndedOf
  <2> QED
    BY <1>7, <2>1, <2>2
<1>14. Counted(s)'
  <2>1. ClearsIn(stack', s) = D /\ \A u : DueIn(stack', s, u) = DueIn(b, s, u)
    BY <1>4 DEF SameView, D
  <2> QED
    BY <1>1, <1>6, <1>12, <1>13, <2>1 DEF Counted, z
<1>15. ASSUME NEW o \in Sessions, o # s
       PROVE  Counted(o)'
  <2>1. SameView(stack', b, o) /\ SameView(b, stack, o)
    BY <1>3, <1>4, <1>15
  <2>2. SameDues(stack', stack, o)
    BY <2>1 DEF SameView, SameDues
  <2>3. Counted(o) /\ Tidy(o)
    BY <1>1, <1>15 DEF Exact, Tidy
  <2> QED
    BY <2>2, <2>3, TidyCounted
<1>16. \A o \in Sessions : Grouped(o)'
  BY <1>1, <1>5 DEF Unpaired, Grouped
<1>17. \A o \in Sessions : MildSteps(pend'[o])
  BY <1>1 DEF Exact
<1> QED
  BY <1>1, <1>14, <1>15, <1>16, <1>17, ExactKept

-----------------------------------------------------------------------------
(* The account holds at first, and every step keeps it.                    *)

LEMMA TryRunExact ==
  ASSUME Good, Exact, NEW s, s = Head(stack).s, TryRun
  PROVE  Exact'
<1>1. Top("try")
  BY DEF TryRun
<1>2. \/ TakeNext(s) \/ TakeSpare(s) \/ Pause(s) \/ Throttle(s) \/ Start(s)
      \/ (TakeNothing(s) \/ AwaitSpare(s) \/ AwaitCache(s) \/ Refuse(s))
  BY DEF TryRun
<1> QED
  BY <1>1, <1>2, TakeNextExact, TakeSpareExact, PauseExact, ThrottleExact, StartExact, AwaitExact

LEMMA ReactExact ==
  ASSUME Good, Exact, NEW s, s = Head(stack).s, React
  PROVE  Exact'
<1>1. Top("react") /\ (Retry(s) \/ Abort(s) \/ Replan(s))
  BY DEF React
<1> QED
  BY <1>1, RetryExact, AbortExact, ReplanExact

LEMMA WithinExact ==
  ASSUME Good, Exact, Within
  PROVE  Exact'
<1> SUFFICES ASSUME NEW s, s = Head(stack).s PROVE Exact'
  OBVIOUS
<1>1. CASE Release
  BY <1>1, ReleaseExact
<1>2. CASE WakeGang \/ WakeBest
  BY <1>2, WakeGangExact, WakeBestExact
<1>3. CASE TryRun \/ React
  BY <1>3, TryRunExact, ReactExact
<1>4. CASE ReadyChat \/ Proceed \/ EndRequest \/ ChatReturns
  BY <1>4, ReadyChatExact, ProceedExact, EndRequestExact, ChatReturnsExact
<1>5. CASE Gone \/ Bury \/ Spawn \/ StartKid \/ JoinPark
  BY <1>5, GoneExact, BuryExact, SpawnExact, StartKidExact, JoinParkExact
<1>6. CASE ToolReturns \/ FetchReturns \/ CallCounted \/ Throttled
  BY <1>6, ToolReturnsExact, FetchReturnsExact, CallCountedExact, ThrottledExact
<1> QED
  BY <1>1, <1>2, <1>3, <1>4, <1>5, <1>6 DEF Within

LEMMA EventsExact ==
  ASSUME Good, Exact, NEW s \in Sessions, Event(s)
  PROVE  Exact'
<1>0. world' = world
  BY DEF Event
<1>1. CASE Arrive(s) \/ RequestStart(s) \/ DueTry(s) \/ DecodeStart(s) \/ ChatEnd(s)
  BY <1>0, <1>1, ArriveExact, RequestStartExact, DueTryExact, DecodeStartExact, ChatEndExact
<1>2. CASE ToolEnd(s) \/ ToolLimit(s) \/ FetchEnd(s)
  BY <1>0, <1>2, ToolEndExact, ToolLimitExact, FetchEndExact
<1>3. CASE DeadlockBreak(s) \/ WaitTimeout(s)
  BY <1>0, <1>3, TimeoutExact
<1>4. CASE Park(s) \/ ParkIdle(s)
  BY <1>0, <1>4, ParkExact
<1>5. CASE Prewarm(s) \/ Reannotate(s)
  BY <1>0, <1>5, PrewarmExact, ReannotateExact
<1> QED
  BY <1>1, <1>2, <1>3, <1>4, <1>5 DEF Event, Scheduled

LEMMA StutterExact ==
  ASSUME Exact, UNCHANGED vars
  PROVE  Exact'
<1>1. world' = world /\ prog' = prog /\ pend' = pend /\ held' = held /\ stack' = stack
  BY DEF vars
<1>2. Sessions' = Sessions
  BY <1>1, WorldKept
<1>3. ASSUME NEW o \in Sessions
      PROVE  Counted(o)' /\ Grouped(o)' /\ MildSteps(pend'[o])
  <2>1. Counted(o) /\ Grouped(o) /\ MildSteps(pend[o])
    BY DEF Exact
  <2>2. Counted(o)'
    BY <1>1, <2>1 DEF Counted
  <2>3. (Missing(o))' = Missing(o)
    <3>1. \A r : Needs(o, r)' = Needs(o, r)
      BY <1>1 DEF Needs
    <3>2. Taken(o)' = Taken(o)
      BY <1>1 DEF Taken
    <3> QED
      BY <3>1, <3>2 DEF Missing
  <2>4. Grouped(o)'
    BY <1>1, <2>1, <2>3 DEF Grouped, Top
  <2> QED
    BY <1>1, <2>1, <2>2, <2>4
<1>4. \A t : Meek(t)' = Meek(t)
  BY <1>1 DEF Meek, Mild, Modest
<1>5. MildTools' /\ \A o \in Sessions : MildSteps(pend[o])'
  BY <1>1, <1>3, <1>4 DEF MildTools, Exact, MildSteps, Mild
<1> QED
  BY <1>1, <1>2, <1>3, <1>5 DEF Exact

LEMMA ExactNext ==
  ASSUME Good, Exact, [Next]_vars
  PROVE  Exact'
<1>1. CASE Within
  BY <1>1, WithinExact
<1>2. CASE \E s \in Sessions : Event(s) \/ (Expire(s) /\ UNCHANGED <<world, aimd>>)
  <2>1. PICK s \in Sessions : Event(s) \/ (Expire(s) /\ UNCHANGED <<world, aimd>>)
    BY <1>2
  <2> QED
    BY <2>1, EventsExact, ExpireExact
<1>3. CASE UNCHANGED vars
  BY <1>3, StutterExact
<1> QED
  BY <1>1, <1>2, <1>3 DEF Next

LEMMA ExactBegins ==
  ASSUME Init, MildTools
  PROVE  Exact
<1> DEFINE p == NoPending("off")
           g == NewProgram(world.ctx)
<1>1. p.part = <<>> /\ p.own = Nothing /\ p.par = FALSE /\ p.step = Fetch /\ p.rest = <<>>
  BY NewPending DEF Modes
<1>2. g.holds = Nothing /\ g.life = "off"
  <2>1. world.ctx \in Nat
    <3>1. IsWorld(world)
      BY WorldIs DEF Init
    <3> QED
      BY <3>1 DEF IsWorld
  <2> QED
    BY <2>1, NewProgramIs
<1>3. \A s \in Sessions : prog[s] = g /\ pend[s] = p /\ held[s] = Nothing
  BY DEF Init
<1>4. stack = <<>>
  BY DEF Init
<1> HIDE DEF p, g
<1>5. ASSUME NEW s \in Sessions
      PROVE  Counted(s) /\ Grouped(s) /\ MildSteps(pend[s])
  <2>1. ClearsIn(stack, s) = {} /\ \A r : DueIn(stack, s, r) = 0
    BY <1>4, ViewOfNone
  <2>2. ASSUME NEW r \in Units
        PROVE  CountOf(pend[s], prog[s], held[s][r], DueIn(stack, s, r), r)
    <3>1. Amount(p.part, r) = 0 /\ p.own[r] = 0 /\ g.holds[r] = 0 /\ held[s][r] = 0
      BY <1>1, <1>2, <1>3, AmountEmpty, BagOf
    <3>2. CountOf(p, g, 0, 0, r)
      BY <3>1 DEF CountOf
    <3> QED
      BY <1>3, <2>1, <3>1, <3>2
  <2>3. SandboxOf(g, {}) /\ EndedOf(g, {})
    BY <1>2, BagOf, UnitsAre DEF SandboxOf, EndedOf
  <2>4. Counted(s)
    BY <1>3, <2>1, <2>2, <2>3 DEF Counted
  <2>5. Fetch.redo = <<>> /\ Meek(Fetch)
    BY DEF Fetch, Meek, Mild
  <2>6. DOMAIN <<>> = {}
    OBVIOUS
  <2> HIDE DEF Fetch
  <2>7. MildSteps(p)
    BY <1>1, <2>5, <2>6 DEF MildSteps
  <2> QED
    BY <1>1, <1>3, <2>4, <2>7 DEF Grouped
<1> QED
  BY <1>5 DEF Exact

LEMMA AlwaysExact == Spec /\ MildTools => []Exact
<1>1. Init /\ MildTools => Exact
  BY ExactBegins
<1>2. Good /\ Exact /\ [Next]_vars => Exact'
  BY ExactNext
<1> QED
  BY <1>1, <1>2, AlwaysGood, PTL DEF Spec

LEMMA ExactAccounts == Good /\ Exact => HoldsAccounted
<1> SUFFICES ASSUME Good, Exact, AtRest, NEW s \in Sessions, NEW r \in Units
             PROVE  held[s][r] = prog[s].holds[r] + Amount(pend[s].part, r)
  BY DEF HoldsAccounted
<1>1. CountOf(pend[s], prog[s], held[s][r], 0, r)
  BY EventCounts DEF AtRest
<1>2. pend[s] \in PendRec /\ prog[s] \in ProgRec
  BY Data
<1>3. Amount(pend[s].part, r) \in Nat /\ prog[s].holds[r] \in Nat
  BY <1>2, PendIs, ProgIs, AmountIs DEF Bags
<1> QED
  BY <1>1, <1>3 DEF CountOf

\* Between two events what the engine counts as a session's share of a
\* resource is exactly what its program holds for the session and what the
\* step that waits has taken so far (_take, _give, SimSession.held,
\* Pending.taken): nothing is kept that nobody will release, however the
\* releases, the failures and the retries nest.  It holds in the scenarios
\* where no rate limit meets a group that mixes parallel sandboxes with
\* external calls; such a group leaks, see the run engine_leak.
THEOREM HoldsAreAccounted == Spec /\ MildTools => []HoldsAccounted
BY AlwaysExact, AlwaysGood, ExactAccounts, PTL

LEMMA EndedLeakNothing == Good /\ Roomy /\ Exact => NoLeakedHolds
<1> SUFFICES ASSUME Good, Roomy, Exact, AtRest, NEW s \in Sessions, ~Active(s)
             PROVE  held[s] = Nothing /\ kv[s] = NoEntry
  BY DEF NoLeakedHolds
<1>1. stack = <<>>
  BY DEF AtRest
<1>2. pend[s] \in PendRec /\ prog[s] \in ProgRec /\ kv[s] \in Cache /\ held[s] \in [Units -> Int]
  BY Data
<1>3. prog[s].life \in {"off", "active", "done", "aborted"} /\ prog[s].life # "active"
  BY <1>2, ProgIs DEF Active
<1>4. FlowOf(pend[s], prog[s], kv[s].at, {}, GivesIn(stack, s))
  BY <1>1, ViewOfNone DEF Good, Flows, Flow
<1>5. kv[s].at = "none" /\ pend[s].mode = "off" /\ pend[s].part = <<>> /\ (prog[s].life = "off" => prog[s].holds = Nothing)
  BY <1>3, <1>4 DEF FlowOf
<1>6. kv[s] = NoEntry
  BY <1>2, <1>5 DEF Roomy, Cache, NoEntry
<1>7. EndedOf(prog[s], {}) /\ \A r \in Units : CountOf(pend[s], prog[s], held[s][r], 0, r)
  BY <1>1, EventCounts
<1>8. ASSUME NEW r \in Units
      PROVE  held[s][r] = 0
  <2>1. prog[s].holds[r] \in Nat
    BY <1>2, ProgIs DEF Bags
  <2>2. prog[s].holds[r] = 0
    BY <1>3, <1>5, <1>7, <2>1, BagOf DEF EndedOf
  <2>3. Amount(pend[s].part, r) = 0
    BY <1>5, AmountEmpty
  <2> QED
    BY <1>7, <2>2, <2>3 DEF CountOf
<1>9. held[s] = Nothing
  BY <1>2, <1>8 DEF Nothing
<1> QED
  BY <1>6, <1>9

\* A session that has ended, or has not arrived, holds no unit of any
\* resource and no entry of the model's cache between two events (_end_session
\* and the releases it leaves to the handlers; run.py: "no leaked holds"), in
\* the same scenarios.
THEOREM NoHoldIsLeaked == Spec /\ MildTools => []NoLeakedHolds
<1>1. Init => Roomy
  BY RoomyBegins
<1>2. Good /\ Good' /\ Roomy /\ [Next]_vars => Roomy'
  BY RoomyNext
<1> QED
  BY <1>1, <1>2, AlwaysExact, AlwaysGood, EndedLeakNothing, PTL DEF Spec

-----------------------------------------------------------------------------
(* Waiters: no step but a wait, and the launch of sub-agents, has a        *)
(* session wait or join that did not, or makes one that does worth more    *)
(* to the others.                                                          *)

Standstill == {"waiting", "join"}
Calmer(o) ==
  pend'[o].mode \in Standstill =>
    /\ pend'[o].mode = pend[o].mode /\ pend'[o].want = pend[o].want
    /\ pend'[o].gang = pend[o].gang /\ pend'[o].flag = pend[o].flag
    /\ \A r \in Units : held'[o][r] <= held[o][r]
    /\ prog'[o].life = "active" => prog[o].life = "active"
Calm == \A o \in Sessions : Calmer(o)

LEMMA CalmLeft ==
  ASSUME Good, NEW o \in Sessions, pend'[o] = pend[o], held'[o] = held[o], prog'[o].life = "active" => prog[o].life = "active"
  PROVE  Calmer(o)
<1>1. \A r \in Units : held[o][r] \in Int
  BY HeldIsNat
<1> QED
  BY <1>1 DEF Calmer

LEMMA CalmBusy ==
  ASSUME NEW o, pend'[o].mode \notin Standstill
  PROVE  Calmer(o)
BY DEF Calmer

\* What a step may do to the sessions that it is not about.
Others(s) ==
  \A o \in Sessions : o # s => /\ pend'[o] = pend[o] \/ pend'[o].mode = "ready"
                               /\ held'[o] = held[o]
                               /\ prog'[o].life = "active" => prog[o].life = "active"
LEMMA CalmOthers ==
  ASSUME Good, NEW s \in Sessions, Others(s), Calmer(s)
  PROVE  Calm
<1> SUFFICES ASSUME NEW o \in Sessions, o # s PROVE Calmer(o)
  BY DEF Calm
<1>1. CASE pend'[o] = pend[o]
  BY <1>1, CalmLeft DEF Others
<1>2. CASE pend'[o].mode = "ready"
  BY <1>2, CalmBusy DEF Standstill
<1> QED
  BY <1>1, <1>2 DEF Others

\* The pending step of s changes, and s does not wait.
LEMMA CalmPend ==
  ASSUME Good, NEW s \in Sessions, NEW q, pend' = [pend EXCEPT ![s] = q], q.mode \notin Standstill,
         \A o \in Sessions : o # s => held'[o] = held[o] /\ (prog'[o].life = "active" => prog[o].life = "active")
  PROVE  Calm
<1>1. pend'[s] = q /\ \A o \in Sessions : o # s => pend'[o] = pend[o]
  BY Data
<1>2. Others(s)
  BY <1>1 DEF Others
<1> QED
  BY <1>1, <1>2, CalmBusy, CalmOthers

\* Only the program, or the holds, of s change.
LEMMA CalmSame ==
  ASSUME Good, NEW s \in Sessions, pend' = pend,
         \A o \in Sessions : o # s => held'[o] = held[o] /\ (prog'[o].life = "active" => prog[o].life = "active"),
         pend[s].mode \notin Standstill \/ (held'[s] = held[s] /\ (prog'[s].life = "active" => prog[s].life = "active"))
  PROVE  Calm
<1>1. Others(s)
  BY DEF Others
<1>2. Calmer(s)
  BY CalmBusy, CalmLeft
<1> QED
  BY <1>1, <1>2, CalmOthers

\* The fields that a call changes in place.
LEMMA ModeInPlace ==
  ASSUME Good, NEW s \in Sessions,
         \/ \E a : pend' = [pend EXCEPT ![s].part = a]
         \/ \E a, b : pend' = [pend EXCEPT ![s].part = a, ![s].par = b]
         \/ \E a, b, c : pend' = [pend EXCEPT ![s].part = a, ![s].par = b, ![s].due = c]
         \/ \E a, b : pend' = [pend EXCEPT ![s].tries = a, ![s].due = b]
         \/ \E a : pend' = [pend EXCEPT ![s].rest = a]
         \/ \E a : pend' = [pend EXCEPT ![s].due = a]
  PROVE  \E q : pend' = [pend EXCEPT ![s] = q] /\ q.mode = pend[s].mode
<1>1. pend \in [Sessions -> PendRec] /\ DOMAIN pend = Sessions /\ "mode" \in DOMAIN pend[s]
  <2>1. pend \in [Sessions -> PendRec] /\ pend[s] \in PendRec
    BY Data, ZenonT(40)
  <2> QED
    BY <2>1, ZenonT(40) DEF PendRec
<1> DEFINE p == pend[s]
<1>2. CASE \E a : pend' = [pend EXCEPT ![s].part = a]
  <2>1. PICK a : pend' = [pend EXCEPT ![s].part = a]
    BY <1>2
  <2> DEFINE q == [p EXCEPT !.part = a]
  <2>2. pend' = [pend EXCEPT ![s] = q]
    BY <1>1, <2>1, ZenonT(40)
  <2>3. q.mode = p.mode
    BY <1>1
  <2> QED
    BY <2>2, <2>3, ZenonT(40)
<1>3. CASE \E a, b : pend' = [pend EXCEPT ![s].part = a, ![s].par = b]
  <2>1. PICK a, b : pend' = [pend EXCEPT ![s].part = a, ![s].par = b]
    BY <1>3
  <2> DEFINE q == [p EXCEPT !.part = a, !.par = b]
  <2>2. pend' = [pend EXCEPT ![s] = q]
    BY <1>1, <2>1, ZenonT(40)
  <2>3. q.mode = p.mode
    BY <1>1
  <2> QED
    BY <2>2, <2>3, ZenonT(40)
<1>4. CASE \E a, b, c : pend' = [pend EXCEPT ![s].part = a, ![s].par = b, ![s].due = c]
  <2>1. PICK a, b, c : pend' = [pend EXCEPT ![s].part = a, ![s].par = b, ![s].due = c]
    BY <1>4
  <2> DEFINE q == [p EXCEPT !.part = a, !.par = b, !.due = c]
  <2>2. pend' = [pend EXCEPT ![s] = q]
    BY <1>1, <2>1, ZenonT(40)
  <2>3. q.mode = p.mode
    BY <1>1, ZenonT(40)
  <2> QED
    BY <2>2, <2>3, ZenonT(40)
<1>5. CASE \E a, b : pend' = [pend EXCEPT ![s].tries = a, ![s].due = b]
  <2>1. PICK a, b : pend' = [pend EXCEPT ![s].tries = a, ![s].due = b]
    BY <1>5
  <2> DEFINE q == [p EXCEPT !.tries = a, !.due = b]
  <2>2. pend' = [pend EXCEPT ![s] = q]
    BY <1>1, <2>1, ZenonT(40)
  <2>3. q.mode = p.mode
    BY <1>1, ZenonT(40)
  <2> QED
    BY <2>2, <2>3, ZenonT(40)
<1>6. CASE \E a : pend' = [pend EXCEPT ![s].rest = a]
  <2>1. PICK a : pend' = [pend EXCEPT ![s].rest = a]
    BY <1>6
  <2> DEFINE q == [p EXCEPT !.rest = a]
  <2>2. pend' = [pend EXCEPT ![s] = q]
    BY <1>1, <2>1, ZenonT(40)
  <2>3. q.mode = p.mode
    BY <1>1, ZenonT(40)
  <2> QED
    BY <2>2, <2>3, ZenonT(40)
<1>7. CASE \E a : pend' = [pend EXCEPT ![s].due = a]
  <2>1. PICK a : pend' = [pend EXCEPT ![s].due = a]
    BY <1>7
  <2> DEFINE q == [p EXCEPT !.due = a]
  <2>2. pend' = [pend EXCEPT ![s] = q]
    BY <1>1, <2>1, ZenonT(40)
  <2>3. q.mode = p.mode
    BY <1>1
  <2> QED
    BY <2>2, <2>3, ZenonT(40)
<1> QED
  BY <1>2, <1>3, <1>4, <1>5, <1>6, <1>7

\* A session whose call is being made neither waits nor, unless its next
\* chat begins, joins.
LEMMA CallerMode ==
  ASSUME Good, NEW op \in ThreadOps, Top(op), NEW s, s = Head(stack).s
  PROVE  /\ s \in Sessions /\ pend[s].mode # "waiting" /\ prog[s].joins = 0
         /\ op # "chat" => pend[s].mode \notin Standstill
<1>1. stack # <<>> /\ Head(stack).s = s /\ IsThread(Head(stack)) /\ Head(stack).op = op
  BY DEF Top, IsThread
<1>2. At(s, {op}, ClearsIn(Tail(stack), s))
  BY <1>1, AtCall
<1>3. s \in Sessions /\ FlowOf(pend[s], prog[s], kv[s].at, {op}, FALSE)
  BY <1>2 DEF At
<1>4. OpFlow(pend[s], prog[s], kv[s].at, op)
  BY <1>3 DEF FlowOf
<1>5. pend[s].mode # "waiting" /\ prog[s].joins = 0
  BY <1>4 DEF OpFlow, Pausing
<1>6. pend[s].mode = "join" => op = "chat"
  BY <1>3, <1>5 DEF FlowOf
<1> QED
  BY <1>3, <1>5, <1>6 DEF Standstill

\* _evict: the victims are ready again.
LEMMA EvictedMode ==
  ASSUME Good, NEW s \in Sessions, NEW q, "mode" \in DOMAIN q, q.mode \notin Standstill, NEW V, pend' = Evicted([pend EXCEPT ![s] = q], V),
         held' = held, \A o \in Sessions : prog'[o].life = "active" => prog[o].life = "active"
  PROVE  Calm
<1> DEFINE mine == [pend EXCEPT ![s] = q]
<1>1. /\ DOMAIN mine = Sessions /\ mine[s] = q /\ \A o \in Sessions : o # s => mine[o] = pend[o]
  BY Data
<1>2. \A o \in Sessions : "mode" \in DOMAIN mine[o]
  <2>1. \A o \in Sessions : "mode" \in DOMAIN pend[o]
    BY Data DEF PendRec
  <2> QED
    BY <1>1, <2>1
<1> HIDE DEF mine
<1>3. \A o \in Sessions : pend'[o] = IF o \in V THEN [mine[o] EXCEPT !.mode = "ready", !.due = TRUE] ELSE mine[o]
  BY <1>1 DEF Evicted, mine
<1>4. \A m : "mode" \in DOMAIN m => [m EXCEPT !.mode = "ready", !.due = TRUE].mode = "ready"
  OBVIOUS
<1>5. \A o \in Sessions : pend'[o] = mine[o] \/ pend'[o].mode = "ready"
  BY <1>2, <1>3, <1>4, ZenonT(40)
<1>6. Others(s)
  BY <1>1, <1>5 DEF Others
<1>7. Calmer(s)
  <2>1. pend'[s].mode \notin Standstill
    BY <1>1, <1>5 DEF Standstill
  <2> QED
    BY <2>1, CalmBusy
<1> QED
  BY <1>6, <1>7, CalmOthers

LEMMA FailCalm ==
  ASSUME Good, NEW op \in {"try", "throttled"}, Top(op), NEW s, s = Head(stack).s, Fail(s)
  PROVE  Calm
<1>1. s \in Sessions /\ pend[s].mode \notin Standstill
  BY CallerMode DEF ThreadOps
<1>2. held' = held /\ prog' = prog /\ \E a, b : pend' = [pend EXCEPT ![s].part = a, ![s].par = b]
  BY DEF Fail
<1>3. \E q : pend' = [pend EXCEPT ![s] = q] /\ q.mode = pend[s].mode
  BY <1>1, <1>2, ModeInPlace
<1> QED
  BY <1>1, <1>2, <1>3, CalmPend

\* A wait of _try_run: what s wants is not there.
Waits(s, r, n, gang) ==
  /\ Wait(s, r, n, gang) /\ r \in Units \cup {"kv"} /\ n \in Nat /\ ~Fits(s, r, n)
  /\ gang \in BOOLEAN /\ (r \in Units /\ ~gang => r \in Missing(s) /\ n = Needs(s, r))

LEMMA StartCalm ==
  ASSUME Good, Top("try"), NEW s, s = Head(stack).s, Start(s)
  PROVE  Calm
<1> DEFINE p == pend[s]
           own == [r \in Units |-> IF r \in {"ext", "ret"} THEN Amount(p.part, r)
                                   ELSE IF r = "cpu" /\ p.par THEN Extra(p.step) ELSE 0]
           mode == IF IsChat(s) THEN "prefill" ELSE p.step.kind
           q == [p EXCEPT !.part = <<>>, !.own = own, !.mode = mode]
<1>1. s \in Sessions /\ p \in PendRec /\ held' = held
  BY CallerMode, Data DEF ThreadOps, Start
<1>2. PICK o \in IF IsChat(s) THEN BeginPrefill(kv, world.size, s, ContextOf(s)) ELSE {[cache |-> kv, victims |-> {}]} :
        pend' = Evicted([pend EXCEPT ![s] = q], o.victims)
  BY DEF Start
<1>3. mode \notin Standstill
  <2>1. p.step \in Steps
    BY <1>1, PendIs
  <2>2. p.step.kind \in {"tool", "fetch", "chat"}
    BY <2>1, StepIs
  <2> QED
    BY <2>2 DEF Standstill, IsChat
<1> HIDE DEF own, mode
<1>4. "mode" \in DOMAIN q /\ q.mode = mode
  BY <1>1 DEF PendRec
<1>5. \A x \in Sessions : prog'[x].life = prog[x].life
  <2> DEFINE h == [r \in Units |-> prog[s].holds[r] + Amount(pend[s].part, r)]
  <2>1. prog' = [prog EXCEPT ![s].holds = h]
    BY DEF Start
  <2> HIDE DEF h
  <2>2. prog \in [Sessions -> ProgRec]
    BY Data
  <2> QED
    BY <2>1, <2>2 DEF ProgRec
<1> HIDE DEF q
<1> QED
  BY <1>1, <1>2, <1>3, <1>4, <1>5, EvictedMode

LEMMA TryCalm ==
  ASSUME Good, TryRun, NEW s, s = Head(stack).s
  PROVE  Calm \/ \E r, n, gang : Waits(s, r, n, gang)
<1>0. Top("try") /\ s \in Sessions /\ pend[s].mode \notin Standstill
  BY CallerMode DEF TryRun, ThreadOps
<1>1. \/ TakeNext(s) \/ TakeNothing(s) \/ TakeSpare(s) \/ AwaitSpare(s) \/ AwaitCache(s)
      \/ Pause(s) \/ Refuse(s) \/ Throttle(s) \/ Start(s)
  BY DEF TryRun
<1>2. CASE TakeNext(s)
  <2>1. prog' = prog /\ (\E a : pend' = [pend EXCEPT ![s].part = a]) /\ \A o \in Sessions : o # s => held'[o] = held[o]
    BY <1>0, <1>2, Data DEF TakeNext, Take
  <2>2. \E q : pend' = [pend EXCEPT ![s] = q] /\ q.mode = pend[s].mode
    BY <1>0, <2>1, ModeInPlace
  <2> QED
    BY <1>0, <2>1, <2>2, CalmPend
<1>3. CASE TakeSpare(s)
  <2>1. prog' = prog /\ (\E a, b : pend' = [pend EXCEPT ![s].part = a, ![s].par = b]) /\ \A o \in Sessions : o # s => held'[o] = held[o]
    <3> DEFINE k == Extra(pend[s].step)
    <3>1. /\ held' = [held EXCEPT ![s]["cpu"] = held[s]["cpu"] + k] /\ prog' = prog
          /\ pend' = [pend EXCEPT ![s].part = Append(pend[s].part, <<"cpu", k>>), ![s].par = TRUE]
      BY <1>3, ZenonT(40) DEF TakeSpare, Take
    <3> HIDE DEF k
    <3>2. \A o \in Sessions : o # s => held'[o] = held[o]
      BY <1>0, <3>1, Data
    <3> QED
      BY <3>1, <3>2, Zenon
  <2>2. \E q : pend' = [pend EXCEPT ![s] = q] /\ q.mode = pend[s].mode
    BY <1>0, <2>1, ModeInPlace
  <2> QED
    BY <1>0, <2>1, <2>2, CalmPend
<1>4. CASE TakeNothing(s)
  <2> DEFINE r == First(Missing(s))
  <2>1. r \in Missing(s) /\ r \in Units /\ Needs(s, r) \in Nat /\ ~Fits(s, r, Needs(s, r)) /\ WaitOrFail(s, r, Needs(s, r))
    BY <1>0, <1>4, MissingIs, FirstIs DEF TakeNothing, Missing
  <2> HIDE DEF r
  <2>2. CASE Fail(s)
    BY <1>0, <2>2, FailCalm
  <2>3. CASE Wait(s, r, Needs(s, r), FALSE)
    <3>1. Waits(s, r, Needs(s, r), FALSE)
      BY <2>1, <2>3 DEF Waits
    <3> QED
      BY <3>1
  <2> QED
    BY <2>1, <2>2, <2>3 DEF WaitOrFail
<1>5. CASE AwaitSpare(s)
  <2> DEFINE n == Extra(pend[s].step)
  <2>1. pend[s].step \in Steps
    BY <1>0, Data, PendIs
  <2>2. n \in Nat /\ "cpu" \in Units
    BY <2>1, ExtraIs, UnitsAre
  <2>3. Wait(s, "cpu", n, TRUE) /\ ~Fits(s, "cpu", n)
    BY <1>5 DEF AwaitSpare, SpareReserved, SpareFits
  <2> HIDE DEF n
  <2>4. Waits(s, "cpu", n, TRUE)
    BY <2>2, <2>3 DEF Waits
  <2> QED
    BY <2>4
<1>6. CASE AwaitCache(s)
  <2> DEFINE n == NeedKV(s)
  <2>1. n \in Nat
    <3>0. IsWorld(world)
      BY Data, WorldIs
    <3>1. prog[s] \in ProgRec /\ world.reserve \in Nat
      BY <1>0, <3>0, Data DEF IsWorld
    <3>2. prog[s].ctx \in Nat
      BY <3>1, ProgIs
    <3> QED
      BY <3>1, <3>2 DEF ContextOf, NeedKV
  <2>2. WaitOrFail(s, "kv", n) /\ ~Fits(s, "kv", n) /\ "kv" \notin Units
    BY <1>6, UnitsAre DEF AwaitCache, CacheReady
  <2> HIDE DEF n
  <2>3. CASE Fail(s)
    BY <1>0, <2>3, FailCalm
  <2>4. CASE Wait(s, "kv", n, FALSE)
    <3>1. Waits(s, "kv", n, FALSE)
      BY <2>1, <2>2, <2>4 DEF Waits
    <3> QED
      BY <3>1
  <2> QED
    BY <2>2, <2>3, <2>4 DEF WaitOrFail
<1>7. CASE Pause(s)
  <2>1. prog' = prog /\ held' = held /\ \E a, b, c : pend' = [pend EXCEPT ![s].part = a, ![s].par = b, ![s].due = c]
    BY <1>7 DEF Pause
  <2>2. \E q : pend' = [pend EXCEPT ![s] = q] /\ q.mode = pend[s].mode
    BY <1>0, <2>1, ModeInPlace, ZenonT(40)
  <2> QED
    BY <1>0, <2>1, <2>2, CalmPend
<1>8. CASE Refuse(s)
  BY <1>0, <1>8, FailCalm DEF Refuse
<1>9. CASE Throttle(s)
  <2>1. prog' = prog /\ held' = held /\ pend' = pend
    BY <1>9 DEF Throttle
  <2> QED
    BY <1>0, <2>1, CalmSame
<1>10. CASE Start(s)
  BY <1>0, <1>10, StartCalm
<1> QED
  BY <1>1, <1>2, <1>3, <1>4, <1>5, <1>6, <1>7, <1>8, <1>9, <1>10

LEMMA UnwaitCalm ==
  ASSUME Good, NEW s \in Sessions, NEW next, Unwait(s, next)
  PROVE  Calm
<1> DEFINE p == pend[s]
           q == [p EXCEPT !.mode = "ready", !.want = <<"none", 0>>, !.gang = FALSE, !.flag = FALSE]
<1>1. p \in PendRec /\ DOMAIN pend = Sessions
  BY Data
<1>2. q.mode = "ready"
  BY <1>1 DEF PendRec
<1>3. pend' = [pend EXCEPT ![s] = q] /\ held' = held /\ prog' = prog
  BY <1>1, ZenonT(40) DEF Unwait
<1> HIDE DEF q
<1>4. q.mode \notin Standstill
  BY <1>2 DEF Standstill
<1> QED
  BY <1>3, <1>4, CalmPend

LEMMA NoPendingMode ==
  ASSUME NEW m
  PROVE  NoPending(m).mode = m
BY DEF NoPending

LEMMA NoPendingCalm ==
  ASSUME Good, NEW s \in Sessions, NEW m \in {"off", "ready", "think"}, pend' = [pend EXCEPT ![s] = NoPending(m)],
         \A o \in Sessions : o # s => held'[o] = held[o] /\ (prog'[o].life = "active" => prog[o].life = "active")
  PROVE  Calm
<1> DEFINE q == NoPending(m)
<1>1. q.mode \notin Standstill
  BY NoPendingMode DEF Standstill
<1>2. pend' = [pend EXCEPT ![s] = q]
  OBVIOUS
<1> HIDE DEF q
<1> QED
  BY <1>1, <1>2, CalmPend

LEMMA ReadyCalm ==
  ASSUME Good, NEW s \in Sessions, NEW step, NEW rest, Ready(s, step, rest), \A o \in Sessions : o # s => prog'[o] = prog[o]
  PROVE  Calm
<1> DEFINE q == [NoPending("ready") EXCEPT !.step = step, !.rest = rest]
<1>1. q.mode = "ready"
  BY DEF NoPending
<1>2. pend' = [pend EXCEPT ![s] = q] /\ held' = held
  BY DEF Ready
<1> HIDE DEF q
<1>3. q.mode \notin Standstill
  BY <1>1 DEF Standstill
<1> QED
  BY <1>2, <1>3, CalmPend

LEMMA ReleaseCalm ==
  ASSUME Good, Release
  PROVE  Calm /\ pend' = pend
<1> DEFINE f == Head(stack)
           s == f.s
           r == f.r
           amt == IF f.amt = All THEN held[s][r] ELSE f.amt
<1>1. s \in Sessions /\ f.amt \in Nat
  <2>1. f \in Frame
    BY Data, HeadIs DEF Release, Top
  <2> QED
    BY <2>1, FrameIs
<1>2. held' = [held EXCEPT ![s][r] = held[s][r] - amt] /\ pend' = pend
  BY DEF Release
<1>3. r \in Units => amt \in Nat
  BY <1>1, HeldIsNat
<1> DEFINE x == held[s][r] - amt
           n == IF f.amt = All \/ prog[s].holds[r] <= amt THEN 0 ELSE prog[s].holds[r] - amt
<1>4. prog' = [prog EXCEPT ![s].holds[r] = n]
  BY DEF Release
<1>5. \A o \in Sessions : prog'[o].life = prog[o].life
  <2> HIDE DEF n
  <2>1. prog \in [Sessions -> ProgRec]
    BY Data
  <2> QED
    BY <1>4, <2>1 DEF ProgRec
<1>6. \A o \in Sessions : o # s => held'[o] = held[o]
  BY <1>2, Data
<1>7. ASSUME NEW u \in Units
      PROVE  held'[s][u] <= held[s][u]
  <2>1. held[s][u] \in Nat /\ held \in [Sessions -> [Units -> Int]]
    BY <1>1, HeldIsNat, Data
  <2>2. CASE u = r
    <3>1. held'[s][u] = x
      <4> HIDE DEF x
      <4> QED
        BY <1>1, <1>2, <2>1, <2>2 DEF x
    <3> QED
      BY <1>3, <2>1, <2>2, <3>1
  <2>3. CASE u # r
    BY <1>1, <1>2, <2>1, <2>3
  <2> QED
    BY <2>2, <2>3
<1>8. Others(s)
  BY <1>2, <1>5, <1>6 DEF Others
<1>9. pend'[s] = pend[s] /\ prog'[s].life = prog[s].life /\ \A u \in Units : held'[s][u] <= held[s][u]
  BY <1>1, <1>2, <1>5, <1>7
<1>10. s \in Sessions /\ pend' = pend
  BY <1>1, <1>2
<1> HIDE DEF s
<1>11. Calmer(s)
  BY <1>9 DEF Calmer
<1> QED
  BY <1>8, <1>10, <1>11, CalmOthers

LEMMA EndCalm ==
  ASSUME Good, NEW s \in Sessions, NEW life \in {"done", "aborted"}, NEW program, "life" \in DOMAIN program,
         EndSession(s, life, program)
  PROVE  Calm
<1> DEFINE z == [program EXCEPT !.life = life]
<1>1. z.life # "active"
  OBVIOUS
<1>2. prog' = [prog EXCEPT ![s] = z] /\ pend' = pend /\ held' = held
  BY DEF EndSession
<1> HIDE DEF z
<1>3. prog'[s] = z /\ \A o \in Sessions : o # s => prog'[o] = prog[o]
  BY <1>2, Data
<1> QED
  BY <1>1, <1>2, <1>3, CalmSame

LEMMA ReactCalm ==
  ASSUME Good, React
  PROVE  Calm
<1> DEFINE s == Head(stack).s
<1>1. Top("react") /\ s \in Sessions /\ pend[s].mode \notin Standstill
  BY CallerMode DEF React, ThreadOps
<1>2. Retry(s) \/ Abort(s) \/ Replan(s)
  BY DEF React
<1> HIDE DEF s
<1>3. CASE Retry(s)
  <2>1. prog' = prog /\ held' = held /\ \E a, b : pend' = [pend EXCEPT ![s].tries = a, ![s].due = b]
    BY <1>1, <1>3, Data DEF Retry
  <2>2. \E q : pend' = [pend EXCEPT ![s] = q] /\ q.mode = pend[s].mode
    BY <1>1, <2>1, ModeInPlace
  <2> QED
    BY <1>1, <2>1, <2>2, CalmPend
<1>4. CASE Abort(s)
  <2>1. EndSession(s, "aborted", Failed(s))
    BY <1>4 DEF Abort
  <2>2. "life" \in DOMAIN Failed(s)
    BY <1>1, Data DEF Failed, ProgRec
  <2> QED
    BY <1>1, <2>1, <2>2, EndCalm
<1>5. CASE Replan(s)
  <2>1. \E redo, out : Ready(s, Chat(redo, out), <<>>)
    BY <1>5 DEF Replan
  <2>2. prog' = [prog EXCEPT ![s] = Failed(s)]
    BY <1>5 DEF Replan
  <2>3. \A o \in Sessions : o # s => prog'[o] = prog[o]
    BY <2>2, Data
  <2> QED
    BY <1>1, <2>1, <2>3, ReadyCalm
<1> QED
  BY <1>2, <1>3, <1>4, <1>5

LEMMA BuryCalm ==
  ASSUME Good, Bury
  PROVE  Calm
<1> DEFINE s == Head(stack).s
           p == Parent(s)
<1>1. s \in Sessions
  BY CallerMode DEF Bury, ThreadOps
<1>2. pend' = [pend EXCEPT ![s] = NoPending("off")] /\ held' = held
  BY DEF Bury
<1>3. prog' = prog \/ \E n : prog' = [prog EXCEPT ![p].joins = n]
  BY DEF Bury
<1>4. \A o \in Sessions : prog'[o].life = prog[o].life
  <2> HIDE DEF p
  <2>1. prog \in [Sessions -> ProgRec]
    BY Data
  <2> QED
    BY <1>3, <2>1 DEF ProgRec
<1> HIDE DEF s
<1> QED
  BY <1>1, <1>2, <1>4, NoPendingCalm

LEMMA ChatReturnsCalm ==
  ASSUME Good, ChatReturns
  PROVE  Calm
<1> DEFINE s == Head(stack).s
<1>1. Top("answered") /\ s \in Sessions /\ pend[s].mode \notin Standstill
  BY CallerMode DEF ChatReturns, ThreadOps
<1>2. \E then, todo : ChatOver(s, then, todo)
  BY DEF ChatReturns
<1> HIDE DEF s
<1>3. held' = held /\ (\E a : pend' = [pend EXCEPT ![s].rest = a]) /\ \E fin \in BOOLEAN : prog' = ChatDone(s, fin)
  BY <1>2 DEF ChatOver
<1>4. \A o \in Sessions : o # s => prog'[o] = prog[o]
  BY <1>1, <1>3, Data DEF ChatDone
<1>5. \E q : pend' = [pend EXCEPT ![s] = q] /\ q.mode = pend[s].mode
  BY <1>1, <1>3, ModeInPlace, ZenonT(40)
<1> QED
  BY <1>1, <1>3, <1>4, <1>5, CalmPend

LEMMA EndRequestCalm ==
  ASSUME Good, EndRequest
  PROVE  Calm
<1> DEFINE s == Head(stack).s
<1>0. s \in Sessions
  BY CallerMode DEF EndRequest, ThreadOps
<1> DEFINE program == [prog[s] EXCEPT !.req = prog[s].req + 1, !.park = 0, !.fin = FALSE, !.chats = 0]
<1>1. s \in Sessions /\ "life" \in DOMAIN program
  <2>1. prog[s] \in ProgRec
    BY <1>0, Data
  <2> QED
    BY <1>0, <2>1 DEF ProgRec
<1>2. \/ EndSession(s, "done", program)
      \/ (pend' = [pend EXCEPT ![s] = NoPending("think")] /\ held' = held
          /\ \E nap : prog' = [prog EXCEPT ![s] = [program EXCEPT !.nap = nap]])
  BY <1>1, Data, ZenonT(60) DEF EndRequest
<1> HIDE DEF s, program
<1>3. CASE EndSession(s, "done", program)
  BY <1>1, <1>3, EndCalm
<1>4. CASE pend' = [pend EXCEPT ![s] = NoPending("think")] /\ held' = held
           /\ \E nap : prog' = [prog EXCEPT ![s] = [program EXCEPT !.nap = nap]]
  <2>1. \A o \in Sessions : o # s => prog'[o] = prog[o]
    BY <1>4, Data
  <2> QED
    BY <1>1, <1>4, <2>1, NoPendingCalm
<1> QED
  BY <1>2, <1>3, <1>4

LEMMA StartKidCalm ==
  ASSUME Good, StartKid
  PROVE  Calm
<1> DEFINE s == Head(stack).s
<1>1. s \in Sessions /\ pend[s].mode \notin Standstill
  BY CallerMode DEF StartKid, ThreadOps
<1>2. prog' = [prog EXCEPT ![s].life = "active"] /\ pend' = pend /\ held' = held
  BY DEF StartKid
<1> HIDE DEF s
<1>3. \A o \in Sessions : o # s => prog'[o] = prog[o]
  BY <1>2, Data
<1> QED
  BY <1>1, <1>2, <1>3, CalmSame

LEMMA JoinParkCalm ==
  ASSUME Good, JoinPark
  PROVE  Calm
<1> DEFINE s == Head(stack).s
           n == IF prog[s].holds["mem"] > 0 THEN prog[s].park + 1 ELSE prog[s].park
<1>1. s \in Sessions
  BY TopIsSession DEF JoinPark, Top
<1>2. prog' = [prog EXCEPT ![s].park = n] /\ pend' = pend /\ held' = held
  BY DEF JoinPark
<1> HIDE DEF s, n
<1>3. \A o \in Sessions : prog'[o].life = prog[o].life
  <2>1. prog \in [Sessions -> ProgRec]
    BY Data
  <2> QED
    BY <1>2, <2>1 DEF ProgRec
<1> QED
  BY <1>1, <1>2, <1>3, CalmSame

\* The calls of a handler, but for a wait and the launch of sub-agents.
LEMMA WithinCalm ==
  ASSUME Good, Within, ~TryRun, ~Spawn
  PROVE  Calm
<1> DEFINE s == Head(stack).s
<1>0. s \in Sessions
  <2>1. stack # <<>>
    BY DEF Within, Release, WakeGang, WakeBest, TryRun, ReadyChat, React, Gone, Bury, ChatReturns, Proceed, EndRequest, Spawn,
       StartKid, JoinPark, ToolReturns, FetchReturns, CallCounted, Throttled, Top
  <2> QED
    BY <2>1, TopIsSession
<1> HIDE DEF s
<1>1. CASE Release
  BY <1>1, ReleaseCalm
<1>2. CASE WakeGang
  <2>1. \/ \E o \in LapsedGangs(Head(stack).r) : Unwait(o, stack)
        \/ UNCHANGED <<pend, held, prog>>
    BY <1>2 DEF WakeGang
  <2> QED
    BY <1>0, <2>1, UnwaitCalm, CalmSame DEF LapsedGangs, Waiters
<1>3. CASE WakeBest
  <2>1. \/ \E o \in FittingWaiters(Head(stack).r) : Unwait(o, stack)
        \/ UNCHANGED <<pend, held, prog>>
    BY <1>3 DEF WakeBest
  <2> QED
    BY <1>0, <2>1, UnwaitCalm, CalmSame DEF FittingWaiters, Waiters
<1>4. CASE ReadyChat \/ FetchReturns
  <2>1. (\E step, rest : Ready(s, step, rest)) /\ prog' = prog
    BY <1>4 DEF ReadyChat, FetchReturns, s
  <2> QED
    BY <1>0, <2>1, ReadyCalm
<1>5. CASE Gone \/ ToolReturns \/ CallCounted
  <2>1. pend' = pend /\ prog' = prog /\ held' = held
    BY <1>5 DEF Gone, ToolReturns, CallCounted
  <2> QED
    BY <1>0, <2>1, CalmSame
<1>6. CASE Proceed
  <2>1. CASE pend[s].rest # <<>>
    <3>1. Ready(s, Head(pend[s].rest), Tail(pend[s].rest)) /\ prog' = prog
      BY <1>6, <2>1 DEF Proceed, s
    <3> QED
      BY <1>0, <3>1, ReadyCalm
  <2>2. CASE pend[s].rest = <<>>
    <3>1. pend' = [pend EXCEPT ![s] = NoPending("ready")] /\ prog' = prog /\ held' = held
      BY <1>6, <2>2 DEF Proceed, s
    <3> QED
      BY <1>0, <3>1, NoPendingCalm
  <2> QED
    BY <2>1, <2>2
<1>7. CASE Throttled
  <2>1. Top("throttled") /\ Fail(s)
    BY <1>7 DEF Throttled, s
  <2> QED
    BY <2>1, FailCalm DEF s
<1> QED
  BY <1>1, <1>2, <1>3, <1>4, <1>5, <1>6, <1>7, ReactCalm, BuryCalm, ChatReturnsCalm, EndRequestCalm, StartKidCalm, JoinParkCalm
     DEF Within

LEMMA StepEndCalm ==
  ASSUME Good, NEW s \in Sessions, NEW mode, NEW frames, StepEnd(s, mode, frames)
  PROVE  Calm
<1> DEFINE p == pend[s]
           q == [p EXCEPT !.own = Nothing, !.par = FALSE, !.mode = "ready"]
<1>1. p \in PendRec /\ DOMAIN pend = Sessions
  BY Data
<1>2. q.mode = "ready"
  BY <1>1 DEF PendRec
<1>3. pend' = [pend EXCEPT ![s] = q] /\ held' = held /\ prog' = prog
  BY <1>1, ZenonT(40) DEF StepEnd
<1> HIDE DEF q
<1>4. q.mode \notin Standstill
  BY <1>2 DEF Standstill
<1> QED
  BY <1>3, <1>4, CalmPend

LEMMA DecodeStartCalm ==
  ASSUME Good, NEW s \in Sessions, DecodeStart(s)
  PROVE  Calm
<1> DEFINE p == pend[s]
           q == [p EXCEPT !.mode = "decode"]
<1>1. p \in PendRec /\ DOMAIN pend = Sessions
  BY Data
<1>2. "mode" \in DOMAIN q /\ q.mode = "decode"
  BY <1>1 DEF PendRec
<1>3. \E V : pend' = Evicted([pend EXCEPT ![s].mode = "decode"], V)
  BY DEF DecodeStart
<1>4. [pend EXCEPT ![s].mode = "decode"] = [pend EXCEPT ![s] = q]
  BY <1>1
<1>5. held' = held /\ prog' = prog
  BY DEF DecodeStart
<1> HIDE DEF q
<1>6. q.mode \notin Standstill
  BY <1>2 DEF Standstill
<1>7. PICK V : pend' = Evicted([pend EXCEPT ![s] = q], V)
  BY <1>3, <1>4
<1> QED
  BY <1>2, <1>5, <1>6, <1>7, EvictedMode

LEMMA TimeoutCalm ==
  ASSUME Good, NEW s \in Sessions, TimeoutStep(s)
  PROVE  Calm
<1> DEFINE q == [NoPending("ready") EXCEPT !.step = pend[s].step, !.rest = pend[s].rest, !.tries = pend[s].tries]
<1>1. q.mode = "ready"
  BY DEF NoPending
<1>2. pend' = [pend EXCEPT ![s] = q] /\ held' = held /\ prog' = prog
  BY DEF TimeoutStep
<1> HIDE DEF q
<1>3. q.mode \notin Standstill
  BY <1>1 DEF Standstill
<1> QED
  BY <1>2, <1>3, CalmPend

LEMMA PrewarmCalm ==
  ASSUME Good, NEW s \in Sessions, Prewarm(s)
  PROVE  Calm
<1>1. pend' = pend /\ prog[s].nap = "warm"
  BY DEF Prewarm
<1>2. FlowOf(pend[s], prog[s], kv[s].at, OpsIn(stack, s), GivesIn(stack, s))
  BY DEF Good, Flows, Flow
<1>3. pend[s].mode \notin Standstill
  BY <1>1, <1>2 DEF FlowOf, Standstill
<1>4. held' = held \/ \E h : held' = [held EXCEPT ![s] = h]
  BY DEF Prewarm
<1>5. \E g : prog' = [prog EXCEPT ![s] = g]
  <2>1. \/ \E g : prog' = [prog EXCEPT ![s] = g]
        \/ prog' = [prog EXCEPT ![s].nap = "no"]
    BY DEF Prewarm
  <2>2. [prog EXCEPT ![s].nap = "no"] = [prog EXCEPT ![s] = [prog[s] EXCEPT !.nap = "no"]]
    BY Data
  <2> QED
    BY <2>1, <2>2
<1>6. \A o \in Sessions : o # s => held'[o] = held[o] /\ prog'[o] = prog[o]
  BY <1>4, <1>5, Data
<1> QED
  BY <1>1, <1>3, <1>6, CalmSame

LEMMA EventCalm ==
  ASSUME Good, NEW s \in Sessions, Event(s)
  PROVE  Calm
<1>1. CASE Arrive(s)
  <2>1. prog[s].life = "off" /\ prog' = [prog EXCEPT ![s].life = "active"] /\ pend' = pend /\ held' = held
    BY <1>1 DEF Arrive
  <2>2. FlowOf(pend[s], prog[s], kv[s].at, OpsIn(stack, s), GivesIn(stack, s))
    BY DEF Good, Flows, Flow
  <2>3. pend[s].mode \notin Standstill
    BY <2>1, <2>2 DEF FlowOf, Standstill
  <2>4. \A o \in Sessions : o # s => prog'[o] = prog[o]
    BY <2>1, Data
  <2> QED
    BY <2>1, <2>3, <2>4, CalmSame
<1>2. CASE RequestStart(s) \/ ChatEnd(s) \/ Reannotate(s)
  <2>1. pend' = pend /\ held' = held /\ prog' = prog
    BY <1>2 DEF RequestStart, ChatEnd, Reannotate
  <2> QED
    BY <2>1, CalmSame
<1>3. CASE Park(s) \/ ParkIdle(s)
  <2>1. pend' = pend /\ held' = held /\ ((\E n : prog' = [prog EXCEPT ![s].park = n]) \/ (\E n : prog' = [prog EXCEPT ![s].nap = n]))
    BY <1>3, Data DEF Park, ParkIdle
  <2>2. prog \in [Sessions -> ProgRec]
    BY Data
  <2>3. \A o \in Sessions : prog'[o].life = prog[o].life
    BY <2>1, <2>2 DEF ProgRec
  <2> QED
    BY <2>1, <2>3, CalmSame
<1>4. CASE DueTry(s)
  <2>1. pend[s].due /\ held' = held /\ prog' = prog /\ \E a : pend' = [pend EXCEPT ![s].due = a]
    BY <1>4 DEF DueTry
  <2>2. FlowOf(pend[s], prog[s], kv[s].at, OpsIn(stack, s), GivesIn(stack, s))
    BY DEF Good, Flows, Flow
  <2>3. pend[s].mode \notin Standstill
    BY <2>1, <2>2 DEF FlowOf, Standstill
  <2>4. \E q : pend' = [pend EXCEPT ![s] = q] /\ q.mode = pend[s].mode
    BY <2>1, ModeInPlace
  <2> QED
    BY <2>1, <2>3, <2>4, CalmPend
<1>5. CASE ToolEnd(s) \/ ToolLimit(s) \/ FetchEnd(s)
  BY <1>5, StepEndCalm DEF ToolEnd, ToolLimit, FetchEnd
<1>6. CASE DeadlockBreak(s) \/ WaitTimeout(s)
  BY <1>6, TimeoutCalm DEF DeadlockBreak, WaitTimeout
<1> QED
  BY <1>1, <1>2, <1>3, <1>4, <1>5, <1>6, DecodeStartCalm, PrewarmCalm DEF Event, Scheduled

LEMMA ExpireCalm ==
  ASSUME Good, NEW s \in Sessions, Expire(s)
  PROVE  Calm
BY CalmSame DEF Expire

-----------------------------------------------------------------------------
(* Whether the stack still holds a call that tries the waiters of r.       *)

WokenIn(q, r) == \E i \in DOMAIN q : q[i].op \in {"lapse", "wake"} /\ q[i].r = r
Woken(r) == WokenIn(stack, r)
WokenKept == \A r : WokenIn(stack, r) => WokenIn(stack', r)

LEMMA WokenConcat ==
  ASSUME NEW a \in Seq(Frame), NEW b \in Seq(Frame), NEW r
  PROVE  (WokenIn(a, r) => WokenIn(a \o b, r)) /\ (WokenIn(b, r) => WokenIn(a \o b, r))
<1> DEFINE c == a \o b
<1>1. /\ \A i \in DOMAIN a : i \in DOMAIN c /\ c[i] = a[i]
      /\ \A j \in DOMAIN b : Len(a) + j \in DOMAIN c /\ c[Len(a) + j] = b[j]
  BY Concat
<1> HIDE DEF c
<1>2. WokenIn(a, r) => WokenIn(c, r)
  BY <1>1 DEF WokenIn
<1>3. WokenIn(b, r) => WokenIn(c, r)
  BY <1>1 DEF WokenIn
<1> QED
  BY <1>2, <1>3 DEF c

LEMMA WokenOne ==
  ASSUME NEW r
  PROVE  WokenIn(<<Wake(r)>>, r)
<1>1. Wake(r).op = "lapse" /\ Wake(r).r = r
  BY DEF Wake
<1> DEFINE w == Wake(r)
           q == <<w>>
<1>2. 1 \in DOMAIN q /\ q[1] = w
  OBVIOUS
<1> HIDE DEF q
<1>3. WokenIn(q, r)
  BY <1>1, <1>2 DEF WokenIn
<1> QED
  BY <1>3 DEF q

\* A call that is made takes no offer away but its own.
LEMMA RunOffers ==
  ASSUME Good, stack # <<>>, NEW a \in Seq(Frame), Run(a), NEW r, WokenIn(stack, r),
         Head(stack).op \notin {"lapse", "wake"} \/ Head(stack).r # r
  PROVE  WokenIn(stack', r)
<1> DEFINE b == Tail(stack)
<1>1. stack \in Seq(Frame)
  BY Data
<1>2. b \in Seq(Frame) /\ Len(b) = Len(stack) - 1 /\ \A i \in 1 .. Len(b) : b[i] = stack[i + 1]
  BY <1>1, HeadTailProperties
<1>3. Len(stack) \in Nat /\ DOMAIN stack = 1 .. Len(stack) /\ DOMAIN b = 1 .. Len(b) /\ stack[1] = Head(stack)
  BY <1>1, <1>2, LenProperties
<1>4. stack' = a \o b
  BY DEF Run
<1> HIDE DEF b
<1>5. PICK i \in DOMAIN stack : stack[i].op \in {"lapse", "wake"} /\ stack[i].r = r
  BY DEF WokenIn
<1>6. i # 1
  BY <1>3, <1>5
<1>7. i - 1 \in DOMAIN b /\ b[i - 1] = stack[i]
  BY <1>2, <1>3, <1>5, <1>6
<1>8. WokenIn(b, r)
  BY <1>5, <1>7 DEF WokenIn
<1> QED
  BY <1>2, <1>4, <1>8, WokenConcat

LEMMA RunWoken ==
  ASSUME Good, stack # <<>>, Head(stack).op \notin {"lapse", "wake"}, NEW a \in Seq(Frame), Run(a)
  PROVE  WokenKept
BY RunOffers DEF WokenKept

\* The frames that calls push.
LEMMA CallFrames ==
  ASSUME NEW s \in Sessions, NEW op \in ThreadOps
  PROVE  <<Call(op, s)>> \in Seq(Frame) /\ <<>> \in Seq(Frame)
<1>1. Call(op, s) \in Frame
  BY CallIs
<1> QED
  BY <1>1

LEMMA PendFrames ==
  ASSUME Good, NEW s \in Sessions
  PROVE  /\ GiveEach(s, pend[s].part) \in Seq(Frame) /\ GiveOwn(s) \in Seq(Frame) /\ GiveSlot(s) \in Seq(Frame)
         /\ GiveHolds(s) \in Seq(Frame)
<1>1. pend[s] \in PendRec /\ prog[s] \in ProgRec /\ PartOf(pend[s])
  BY Data DEF Good, Flows, Backed
<1>2. pend[s].part \in Parts /\ pend[s].own \in Bags /\ prog[s].holds \in Bags /\ \A i \in DOMAIN pend[s].part : pend[s].part[i][2] > 0
  BY <1>1, PendIs, ProgIs DEF PartOf
<1>3. /\ Volley(GiveEach(s, pend[s].part), s, {}, TRUE, {}) /\ Volley(GiveOwn(s), s, {}, TRUE, {})
      /\ Volley(GiveHolds(s), s, {}, FALSE, {r \in Units : prog[s].holds[r] > 0})
  BY <1>2, VolleyEach, VolleyOwn, VolleyHolds
<1>4. Volley(GiveSlot(s), s, {}, FALSE, IF prog[s].holds["slots"] > 0 THEN {"slots"} ELSE {})
  BY SlotVolley
<1> QED
  BY <1>3, <1>4 DEF Volley

LEMMA WakingFrames ==
  ASSUME Good, NEW r \in Units \cup {"kv"}, NEW q
  PROVE  Waking(r, q) \in Seq(Frame) /\ <<Wake(r)>> \in Seq(Frame)
<1>1. Volley(Waking(r, q), r, {}, FALSE, {})
  BY Data, VolleyWaking
<1>2. Wake(r) \in Frame
  BY Data, WakeIs
<1> QED
  BY <1>1, <1>2 DEF Volley

\* What is pushed is a sequence of frames.
Pushes == \E a \in Seq(Frame) : Run(a)

LEMMA PushesOne ==
  ASSUME NEW a \in Seq(Frame), Run(a)
  PROVE  Pushes
BY DEF Pushes

LEMMA PushesTwo ==
  ASSUME NEW a \in Seq(Frame), NEW b \in Seq(Frame), Run(a \o b)
  PROVE  Pushes
<1>1. a \o b \in Seq(Frame)
  BY Concat
<1> QED
  BY <1>1 DEF Pushes

LEMMA PushesWoken ==
  ASSUME Good, Pushes, NEW op, Top(op), op \notin {"lapse", "wake"}
  PROVE  WokenKept
BY RunWoken DEF Pushes, Top

LEMMA FailPushes ==
  ASSUME Good, NEW s \in Sessions, Fail(s)
  PROVE  Pushes
<1>1. GiveEach(s, pend[s].part) \in Seq(Frame) /\ <<Call("react", s)>> \in Seq(Frame)
  BY PendFrames, CallFrames DEF ThreadOps
<1> QED
  BY <1>1, PushesTwo DEF Fail

LEMMA ReadyPushes ==
  ASSUME NEW s \in Sessions, NEW step, NEW rest, Ready(s, step, rest)
  PROVE  Pushes
<1>1. <<Call("try", s)>> \in Seq(Frame)
  BY CallFrames DEF ThreadOps
<1> QED
  BY <1>1, PushesOne DEF Ready

LEMMA EndPushes ==
  ASSUME Good, NEW s \in Sessions, NEW life, NEW program, EndSession(s, life, program)
  PROVE  Pushes
<1>1. GiveHolds(s) \in Seq(Frame) /\ <<Call("gone", s)>> \in Seq(Frame)
  BY PendFrames, CallFrames DEF ThreadOps
<1> QED
  BY <1>1, PushesTwo DEF EndSession

LEMMA TryWoken ==
  ASSUME Good, TryRun
  PROVE  WokenKept
<1> DEFINE s == Head(stack).s
<1>0. Top("try") /\ s \in Sessions
  BY CallerMode DEF TryRun, ThreadOps
<1>1. \/ TakeNext(s) \/ TakeNothing(s) \/ TakeSpare(s) \/ AwaitSpare(s) \/ AwaitCache(s)
      \/ Pause(s) \/ Refuse(s) \/ Throttle(s) \/ Start(s)
  BY DEF TryRun
<1> HIDE DEF s
<1>2. <<>> \in Seq(Frame)
  OBVIOUS
<1>3. CASE TakeNext(s) \/ TakeSpare(s)
  <2>1. stack' = stack
    BY <1>3 DEF TakeNext, TakeSpare, Take
  <2> QED
    BY <2>1 DEF WokenKept
<1>4. CASE TakeNothing(s) \/ AwaitSpare(s) \/ AwaitCache(s) \/ Refuse(s)
  <2>1. Fail(s) \/ \E r, n, gang : Wait(s, r, n, gang)
    BY <1>4 DEF TakeNothing, AwaitSpare, AwaitCache, Refuse, WaitOrFail
  <2>2. Fail(s) \/ Run(<<>>)
    BY <2>1 DEF Wait
  <2>3. Pushes
    BY <1>0, <1>2, <2>2, FailPushes, PushesOne
  <2> QED
    BY <1>0, <2>3, PushesWoken
<1>5. CASE Pause(s)
  <2>1. Run(GiveEach(s, pend[s].part)) /\ GiveEach(s, pend[s].part) \in Seq(Frame)
    BY <1>0, <1>5, PendFrames DEF Pause
  <2> QED
    BY <1>0, <2>1, PushesOne, PushesWoken
<1>6. CASE Throttle(s)
  <2>1. Run(<<Call("throttled", s)>>) /\ <<Call("throttled", s)>> \in Seq(Frame)
    BY <1>0, <1>6, CallFrames DEF Throttle, ThreadOps
  <2> QED
    BY <1>0, <2>1, PushesOne, PushesWoken
<1>7. CASE Start(s)
  <2>1. Run(<<>>)
    BY <1>7 DEF Start
  <2> QED
    BY <1>0, <1>2, <2>1, PushesOne, PushesWoken
<1> QED
  BY <1>1, <1>3, <1>4, <1>5, <1>6, <1>7

LEMMA SpawnPushes ==
  ASSUME Good, Spawn
  PROVE  Pushes
<1> DEFINE s == Head(stack).s
           kids == SetToSeq(Kids(s))
           a == [i \in DOMAIN kids |-> Call("start", kids[i])]
<1>1. Run(a \o <<Call("joinpark", s)>>) /\ s \in Sessions
  BY CallerMode DEF Spawn, ThreadOps
<1>2. IsFiniteSet(Kids(s)) /\ Kids(s) \subseteq Sessions
  BY Data, WorldIs, FS_EmptySet DEF Kids
<1>3. kids \in Seq(Kids(s)) /\ DOMAIN kids = 1 .. Cardinality(Kids(s)) /\ Cardinality(Kids(s)) \in Nat
  BY <1>2, SeqOfSet
<1> HIDE DEF kids
<1>4. \A i \in DOMAIN kids : kids[i] \in Sessions
  BY <1>2, <1>3
<1>5. \A i \in DOMAIN kids : Call("start", kids[i]) \in Frame
  BY <1>4, CallIs DEF ThreadOps
<1>6. a \in Seq(Frame)
  BY <1>3, <1>5
<1>7. <<Call("joinpark", s)>> \in Seq(Frame)
  <2>1. Call("joinpark", s) \in Frame
    BY <1>1, CallIs
  <2> QED
    BY <2>1
<1> HIDE DEF a, s
<1> QED
  BY <1>1, <1>6, <1>7, PushesTwo

LEMMA BuryPushes ==
  ASSUME Good, Bury
  PROVE  Pushes
<1> DEFINE s == Head(stack).s
           p == Parent(s)
<1>1. s \in Sessions
  BY CallerMode DEF Bury, ThreadOps
<1>2. \/ IsKid(s) /\ Run(<<Call("chat", p)>>)
      \/ Run(<<>>)
  BY DEF Bury
<1>3. IsKid(s) => p \in Sessions
  BY <1>1, Data, ParentIs
<1>4. IsKid(s) => <<Call("chat", p)>> \in Seq(Frame)
  BY <1>3, CallFrames DEF ThreadOps
<1>5. <<>> \in Seq(Frame)
  OBVIOUS
<1> QED
  BY <1>2, <1>4, <1>5, PushesOne

LEMMA ChatReturnsPushes ==
  ASSUME Good, ChatReturns
  PROVE  Pushes
<1> DEFINE s == Head(stack).s
<1>1. s \in Sessions
  BY CallerMode DEF ChatReturns, ThreadOps
<1>2. \E then \in {"finish", "spawn", "next"} : \E todo : ChatOver(s, then, todo)
  BY DEF ChatReturns
<1> HIDE DEF s
<1>x. PICK then \in {"finish", "spawn", "next"} : \E todo : ChatOver(s, then, todo)
  BY <1>2
<1>3. PICK todo : ChatOver(s, then, todo)
  BY <1>x
<1> DEFINE x == IF Held(s, todo) THEN <<>> ELSE GiveSlot(s)
<1>4. Run(x \o <<Call(then, s)>>)
  BY <1>3 DEF ChatOver
<1>5. x \in Seq(Frame) /\ <<Call(then, s)>> \in Seq(Frame)
  BY <1>1, PendFrames, CallFrames DEF ThreadOps
<1> HIDE DEF x
<1> QED
  BY <1>4, <1>5, PushesTwo

LEMMA WithinPushes ==
  ASSUME Good, Within, ~TryRun, ~WakeGang, ~WakeBest, ~Release
  PROVE  WokenKept
<1> DEFINE s == Head(stack).s
<1>0. s \in Sessions
  <2>1. stack # <<>>
    BY DEF Within, Release, WakeGang, WakeBest, TryRun, ReadyChat, React, Gone, Bury, ChatReturns, Proceed, EndRequest, Spawn,
       StartKid, JoinPark, ToolReturns, FetchReturns, CallCounted, Throttled, Top
  <2> QED
    BY <2>1, TopIsSession
<1>1. \E op : Top(op) /\ op \notin {"lapse", "wake"}
  <2> DEFINE ops == {"chat", "react", "gone", "bury", "answered", "next", "finish", "spawn", "start", "joinpark",
                     "worked", "fetched", "counted", "throttled"}
  <2>1. \/ Top("chat") \/ Top("react") \/ Top("gone") \/ Top("bury") \/ Top("answered") \/ Top("next") \/ Top("finish")
        \/ Top("spawn") \/ Top("start") \/ Top("joinpark") \/ Top("worked") \/ Top("fetched") \/ Top("counted")
        \/ Top("throttled")
    BY Zenon DEF Within, ReadyChat, React, Gone, Bury, ChatReturns, Proceed, EndRequest, Spawn,
       StartKid, JoinPark, ToolReturns, FetchReturns, CallCounted, Throttled
  <2>2. \E op \in ops : Top(op)
    BY <2>1
  <2> QED
    BY <2>2
<1>2. <<>> \in Seq(Frame) /\ \A op \in ThreadOps : <<Call(op, s)>> \in Seq(Frame)
  BY <1>0, CallFrames
<1> SUFFICES Pushes
  BY <1>1, PushesWoken
<1> HIDE DEF s
<1>3. CASE ReadyChat \/ FetchReturns
  <2>1. \E step, rest : Ready(s, step, rest)
    BY <1>3 DEF ReadyChat, FetchReturns, s
  <2> QED
    BY <1>0, <2>1, ReadyPushes
<1>4. CASE React
  <2>1. Retry(s) \/ Abort(s) \/ Replan(s)
    BY <1>4 DEF React, s
  <2>2. CASE Retry(s)
    BY <1>2, <2>2, PushesOne DEF Retry
  <2>3. CASE Abort(s)
    BY <1>0, <2>3, EndPushes DEF Abort
  <2>4. CASE Replan(s)
    <3>1. \E step, rest : Ready(s, step, rest)
      BY <2>4 DEF Replan
    <3> QED
      BY <1>0, <3>1, ReadyPushes
  <2> QED
    BY <2>1, <2>2, <2>3, <2>4
<1>5. CASE Gone
  <2>1. Run(Waking("kv", Tail(stack)) \o <<Call("bury", s)>>)
    BY <1>5 DEF Gone, s
  <2>2. Waking("kv", Tail(stack)) \in Seq(Frame) /\ <<Call("bury", s)>> \in Seq(Frame)
    BY <1>2, WakingFrames DEF ThreadOps
  <2> QED
    BY <2>1, <2>2, PushesTwo
<1>6. CASE Proceed
  <2>1. (\E step, rest : Ready(s, step, rest)) \/ Run(<<Call("chat", s)>>)
    BY <1>6 DEF Proceed, s
  <2> QED
    BY <1>0, <1>2, <2>1, ReadyPushes, PushesOne DEF ThreadOps
<1>7. CASE EndRequest
  <2>1. (\E life, program : EndSession(s, life, program)) \/ Run(GiveSlot(s))
    BY <1>7 DEF EndRequest, s
  <2>2. GiveSlot(s) \in Seq(Frame)
    BY <1>0, PendFrames
  <2> QED
    BY <1>0, <2>1, <2>2, EndPushes, PushesOne
<1>8. CASE StartKid \/ JoinPark \/ ToolReturns \/ CallCounted
  <2>1. Run(<<Call("chat", s)>>) \/ Run(<<>>) \/ Run(<<Call("next", s)>>)
    BY <1>8 DEF StartKid, JoinPark, ToolReturns, CallCounted, s
  <2> QED
    BY <1>2, <2>1, PushesOne DEF ThreadOps
<1>9. CASE Throttled
  BY <1>0, <1>9, FailPushes DEF Throttled, s
<1> QED
  BY <1>3, <1>4, <1>5, <1>6, <1>7, <1>8, <1>9, SpawnPushes, BuryPushes, ChatReturnsPushes DEF Within

-----------------------------------------------------------------------------
(* Waiters and what is free: nothing but a release gives units back to     *)
(* those that wait for them, where nobody reserves and no gate learns.     *)

BareRow(l) == l["ext"] = 0 /\ (world.policy # "needs" => \A r \in Units : l[r] = 0)
Unleased == \A s \in Sessions : BareRow(lease[s])

LEMMA BareNothing == BareRow(Nothing)
BY BagOf, UnitsAre DEF BareRow

LEMMA FittingBare ==
  ASSUME Good, NEW offer, offer["ext"] = 0
  PROVE  Fitting(offer)["ext"] = 0
<1> DEFINE x == world.cap["ext"] - Leased("ext")
           m == Max({0, x})
<1>1. "ext" \in Units /\ x \in Int
  BY CapIs, LeasedIs
<1>2. Fitting(offer)["ext"] = Min({0, m})
  BY <1>1 DEF Fitting
<1> HIDE DEF x
<1>3. m \in Nat
  BY <1>1, MaxIs
<1> HIDE DEF m
<1>4. Min({0, m}) \in {0, m} /\ Min({0, m}) <= 0
  BY <1>3, MinIs
<1> QED
  BY <1>2, <1>3, <1>4

\* The needs controller reserves no external units, another policy nothing.
LEMMA OffersBare ==
  ASSUME Good, NEW s, NEW group, NEW joining, NEW l \in Offers(s, group, joining)
  PROVE  BareRow(l)
<1> DEFINE A == [Nothing EXCEPT !["cpu"] = group]
           B == [Nothing EXCEPT !["slots"] = Cardinality(Kids(s)), !["cpu"] = Cardinality(Kids(s)),
                                !["mem"] = SumFunctionOnSet(world.gb, Kids(s))]
<1>1. A["ext"] = 0 /\ B["ext"] = 0
  BY BagOf, UnitsAre DEF Bags
<1>2. l = Nothing \/ (world.policy = "needs" /\ l \in {Fitting(A), Fitting(B)})
  BY DEF Offers
<1> HIDE DEF A, B
<1>3. Fitting(A)["ext"] = 0 /\ Fitting(B)["ext"] = 0
  BY <1>1, FittingBare
<1> QED
  BY <1>2, <1>3, BareNothing DEF BareRow

LEMMA RowBare ==
  ASSUME Good, Unleased, world' = world, NEW s, NEW l, BareRow(l), lease' = [lease EXCEPT ![s] = l]
  PROVE  Unleased'
<1>1. Sessions' = Sessions
  BY WorldKept
<1>2. \A o \in Sessions : lease'[o] = lease[o] \/ lease'[o] = l
  BY Data
<1> QED
  BY <1>1, <1>2 DEF Unleased, BareRow

LEMMA SameBare ==
  ASSUME Unleased, world' = world, lease' = lease
  PROVE  Unleased'
BY WorldKept DEF Unleased, BareRow

LEMMA ReplaceBare ==
  ASSUME Good, Unleased, world' = world, NEW s, NEW group, NEW joining, Replace(s, group, joining)
  PROVE  Unleased'
<1>1. PICK l \in Offers(s, group, joining) : lease' = [lease EXCEPT ![s] = l]
  BY DEF Replace
<1>2. BareRow(l)
  BY OffersBare
<1> QED
  BY <1>1, <1>2, RowBare

LEMMA TryBare ==
  ASSUME Good, Unleased, TryRun
  PROVE  Unleased'
<1> DEFINE s == Head(stack).s
<1>1. \/ TakeNext(s) \/ TakeNothing(s) \/ TakeSpare(s) \/ AwaitSpare(s) \/ AwaitCache(s)
      \/ Pause(s) \/ Refuse(s) \/ Throttle(s) \/ Start(s)
  BY DEF TryRun
<1>0. s \in Sessions
  BY CallerMode DEF TryRun, ThreadOps
<1> HIDE DEF s
<1>2. CASE TakeSpare(s)
  <2>1. world' = world /\ lease' = [lease EXCEPT ![s]["cpu"] = 0]
    BY <1>2 DEF TakeSpare, Take
  <2> DEFINE l == [lease[s] EXCEPT !["cpu"] = 0]
  <2>2. lease[s] \in Bags /\ DOMAIN lease[s] = Units
    BY <1>0, Data DEF Bags
  <2>3. lease' = [lease EXCEPT ![s] = l]
    BY <2>1
  <2>4. \A r \in Units : l[r] = IF r = "cpu" THEN 0 ELSE lease[s][r]
    BY <2>2
  <2> HIDE DEF l
  <2>5. BareRow(l)
    BY <1>0, <2>4, UnitsAre DEF Unleased, BareRow
  <2> QED
    BY <2>1, <2>3, <2>5, RowBare
<1>3. CASE ~TakeSpare(s)
  <2>1. world' = world /\ lease' = lease
    BY <1>1, <1>3 DEF TakeNext, TakeNothing, AwaitSpare, AwaitCache, Pause, Refuse, Throttle, Start, WaitOrFail,
       Wait, Fail, Take
  <2> QED
    BY <2>1, SameBare
<1> QED
  BY <1>2, <1>3

LEMMA ReadyBare ==
  ASSUME Good, Unleased, NEW s, NEW step, NEW rest, Ready(s, step, rest)
  PROVE  Unleased'
BY ReplaceBare DEF Ready

LEMMA WithinBare ==
  ASSUME Good, Unleased, Within
  PROVE  Unleased'
<1> DEFINE s == Head(stack).s
<1>1. CASE TryRun
  BY <1>1, TryBare
<1>2. CASE Release \/ WakeGang \/ WakeBest \/ Bury \/ StartKid \/ JoinPark \/ CallCounted
  <2>1. world' = world /\ lease' = lease
    BY <1>2 DEF Release, WakeGang, WakeBest, Unwait, Bury, StartKid, JoinPark, CallCounted
  <2> QED
    BY <2>1, SameBare
<1>3. CASE Throttled
  <2>1. world' = world /\ lease' = lease
    BY <1>3 DEF Throttled, Fail
  <2> QED
    BY <2>1, SameBare
<1>4. CASE ReadyChat \/ FetchReturns
  BY <1>4, ReadyBare DEF ReadyChat, FetchReturns
<1>5. CASE Proceed
  <2>1. (\E step, rest : Ready(s, step, rest)) \/ (world' = world /\ lease' = lease)
    BY <1>5 DEF Proceed
  <2> QED
    BY <2>1, ReadyBare, SameBare
<1>6. CASE React
  <2>1. Retry(s) \/ Abort(s) \/ Replan(s)
    BY <1>6 DEF React
  <2> HIDE DEF s
  <2>2. (\E step, rest : Ready(s, step, rest)) \/ (world' = world /\ lease' = lease)
    BY <2>1 DEF Retry, Abort, EndSession, Replan
  <2> QED
    BY <2>2, ReadyBare, SameBare
<1>7. CASE Gone \/ EndRequest
  <2>1. world' = world /\ lease' = [lease EXCEPT ![s] = Nothing]
    BY <1>7 DEF Gone, EndRequest, EndSession
  <2> QED
    BY <2>1, BareNothing, RowBare
<1>8. CASE ChatReturns
  <2>1. \E then, todo : ChatOver(s, then, todo)
    BY <1>8 DEF ChatReturns
  <2> HIDE DEF s
  <2>2. world' = world /\ \E group, joining : Replace(s, group, joining)
    BY <2>1 DEF ChatOver
  <2> QED
    BY <2>2, ReplaceBare
<1>9. CASE Spawn \/ ToolReturns
  <2>1. world' = world /\ \E group, joining : Replace(s, group, joining)
    BY <1>9 DEF Spawn, ToolReturns
  <2> QED
    BY <2>1, ReplaceBare
<1> QED
  BY <1>1, <1>2, <1>3, <1>4, <1>5, <1>6, <1>7, <1>8, <1>9 DEF Within

LEMMA EventBare ==
  ASSUME Good, Unleased, world' = world, NEW s, Event(s) \/ Expire(s)
  PROVE  Unleased'
<1>1. CASE Expire(s)
  <2>1. lease' = [lease EXCEPT ![s] = Nothing]
    BY <1>1 DEF Expire
  <2> QED
    BY <2>1, BareNothing, RowBare
<1>2. CASE Reannotate(s)
  BY <1>2, ReplaceBare DEF Reannotate
<1>3. CASE Scheduled(s) \/ WaitTimeout(s)
  <2>1. lease' = lease
    BY <1>3 DEF Scheduled, Arrive, RequestStart, DueTry, DecodeStart, ChatEnd, ToolEnd, ToolLimit, FetchEnd, StepEnd,
       DeadlockBreak, WaitTimeout, TimeoutStep, Park, ParkIdle, Prewarm
  <2> QED
    BY <2>1, SameBare
<1> QED
  BY <1>1, <1>2, <1>3 DEF Event

\* What fits, where nothing is reserved.
Steady(r) == IF r = "ext" THEN ~world.metered ELSE world.policy # "needs"
Unlearned == ~world.metered => aimd.cap = world.cap["ext"]

LEMMA NoneReserved ==
  ASSUME Good, NEW r \in Units, \A o \in Sessions : lease[o][r] = 0, NEW s \in Sessions
  PROVE  Reserved(r, s) = 0
<1> DEFINE f == [o \in Sessions |-> Max({0, lease[o][r] - HeldBy(Family(o), r)})]
           S == {o \in Sessions : s \notin Family(o)}
<1>1. IsFiniteSet(S)
  BY Data, SessionsFinite, FS_Subset
<1>2. \A x \in S : f[x] = 0
  <2> SUFFICES ASSUME NEW x \in Sessions PROVE f[x] = 0
    OBVIOUS
  <2>1. Family(x) \in SUBSET Sessions
    BY WorldIs, Data DEF Family, Kids
  <2>2. HeldBy(Family(x), r) \in Nat
    BY <2>1, UsedIs
  <2> DEFINE n == lease[x][r] - HeldBy(Family(x), r)
  <2>4. n \in Int /\ n <= 0
    BY <2>2
  <2>5. f[x] = Max({0, n})
    OBVIOUS
  <2> HIDE DEF n, f
  <2>6. Max({0, n}) = 0
    BY <2>4, MaxIs
  <2> QED
    BY <2>5, <2>6
<1> HIDE DEF f, S
<1>3. SumFunctionOnSet(f, S) = 0
  BY <1>1, <1>2, SumZero
<1> QED
  BY <1>3 DEF Reserved, f, S

LEMMA SteadyFits ==
  ASSUME Good, Unleased, Unlearned, NEW r \in Units, Steady(r), NEW s \in Sessions, NEW n \in Nat
  PROVE  Fits(s, r, n) <=> world.cap[r] - Used(r) >= n
<1>1. \A o \in Sessions : lease[o][r] = 0
  BY DEF Unleased, BareRow, Steady
<1>2. Reserved(r, s) = 0
  BY <1>1, NoneReserved
<1>3. CapOf(r) = world.cap[r]
  BY DEF CapOf, Unlearned, Steady
<1>4. world.cap[r] \in Nat /\ Used(r) \in Nat
  BY CapIs, UsedIs DEF Used
<1>5. r # "kv"
  BY UnitsAre
<1> QED
  BY <1>2, <1>3, <1>4, <1>5 DEF Fits, Free

Busy(cache) == In(cache, {"active", "decode"}) # {}

LEMMA IdleFits ==
  ASSUME Good, ~Busy(kv), NEW s, NEW n \in Nat
  PROVE  Fits(s, "kv", n) <=> n <= world.size
<1> DEFINE f == [x \in DOMAIN kv |-> kv[x].tok]
<1>1. SumFunctionOnSet(f, {}) = 0
  BY SumEmpty
<1>2. ActiveTokens(kv) = 0
  BY <1>1 DEF ActiveTokens, Tokens, Busy
<1>3. world.size \in Nat
  BY KvIs
<1> QED
  BY <1>2, <1>3 DEF Fits, RoomFor

\* Units that nobody gives back.
HeldRises == \A o \in Sessions, r \in Units : held'[o][r] \in Int /\ held[o][r] <= held'[o][r]

LEMMA UsedRises ==
  ASSUME Good, world' = world, NEW r \in Units, \A o \in Sessions : held'[o][r] \in Int /\ held[o][r] <= held'[o][r]
  PROVE  (Used(r))' \in Int /\ Used(r) \in Int /\ Used(r) <= (Used(r))'
<1> DEFINE f == [o \in Sessions |-> held[o][r]]
           g == [o \in Sessions |-> held'[o][r]]
<1>1. IsFiniteSet(Sessions) /\ Sessions' = Sessions
  BY Data, SessionsFinite, WorldKept
<1>2. \A o \in Sessions : f[o] \in Int /\ g[o] \in Int /\ f[o] <= g[o]
  BY HeldIsNat
<1>3. Used(r) = SumFunctionOnSet(f, Sessions)
  BY DEF Used, HeldBy
<1>4. (Used(r))' = SumFunctionOnSet(g, Sessions)
  BY <1>1 DEF Used, HeldBy
<1> HIDE DEF f, g
<1>5. SumFunctionOnSet(g, Sessions) \in Int /\ SumFunctionOnSet(f, Sessions) \in Int
  BY <1>1, <1>2, SumType
<1>6. SumFunctionOnSet(f, Sessions) <= SumFunctionOnSet(g, Sessions)
  BY <1>1, <1>2, SumAtMost
<1> QED
  BY <1>3, <1>4, <1>5, <1>6

\* Whoever waits for units that are not about to be offered wants more than
\* is free, and more than the cache holds if no chat runs.
Short(r) == \A o \in Waiters(r) : world.cap[r] - Used(r) < pend[o].want[2]
Large == \A o \in Waiters("kv") : pend[o].want[2] > world.size
Answered ==
  /\ Unleased /\ Unlearned
  /\ \A r \in Units : Steady(r) => Woken(r) \/ Short(r)
  /\ Woken("kv") \/ Busy(kv) \/ Large

LEMMA WaiterIs ==
  ASSUME Good, NEW r, NEW o \in Waiters(r)
  PROVE  o \in Sessions /\ pend[o].mode = "waiting" /\ pend[o].want[1] = r /\ pend[o].want[2] \in Nat
<1>1. o \in Sessions /\ pend[o].mode = "waiting" /\ pend[o].want[1] = r
  BY DEF Waiters, Waiting
<1>2. pend[o] \in PendRec
  BY <1>1, Data
<1>3. pend[o].want \in Wants
  BY <1>2, PendIs
<1> QED
  BY <1>1, <1>3 DEF Wants

\* Who waits after a step that is calm waited before, for the same.
LEMMA CalmWaiters ==
  ASSUME Calm, world' = world, NEW r
  PROVE  \A o \in (Waiters(r))' : o \in Waiters(r) /\ pend'[o].want = pend[o].want
<1> SUFFICES ASSUME NEW o \in Sessions, pend'[o].mode = "waiting", pend'[o].want[1] = r
             PROVE  pend[o].mode = "waiting" /\ pend'[o].want = pend[o].want
  BY WorldKept DEF Waiters, Waiting
<1> QED
  BY DEF Calm, Calmer, Standstill

LEMMA ShortKept ==
  ASSUME Good, Calm, world' = world, NEW r \in Units, Short(r),
         \A o \in Sessions : held'[o][r] \in Int /\ held[o][r] <= held'[o][r]
  PROVE  (Short(r))'
<1>1. (Used(r))' \in Int /\ Used(r) \in Int /\ Used(r) <= (Used(r))'
  BY UsedRises
<1>2. world.cap[r] \in Nat
  BY CapIs
<1> SUFFICES ASSUME NEW o \in (Waiters(r))'
             PROVE  world.cap[r] - (Used(r))' < pend'[o].want[2]
  BY DEF Short
<1>3. o \in Waiters(r) /\ pend'[o].want = pend[o].want
  BY CalmWaiters
<1>4. pend[o].want[2] \in Nat /\ world.cap[r] - Used(r) < pend[o].want[2]
  BY <1>3, WaiterIs DEF Short
<1> QED
  BY <1>1, <1>2, <1>3, <1>4

LEMMA LargeKept ==
  ASSUME Calm, world' = world, Large
  PROVE  Large'
<1> SUFFICES ASSUME NEW o \in (Waiters("kv"))'
             PROVE  pend'[o].want[2] > world.size
  BY DEF Large
<1>1. o \in Waiters("kv") /\ pend'[o].want = pend[o].want
  BY CalmWaiters
<1> QED
  BY <1>1 DEF Large

\* A step that nobody waits more for, that gives nothing back and calls off
\* no offer.
LEMMA AnsweredKept ==
  ASSUME Good, Answered, Calm, world' = world, HeldRises, WokenKept, Unleased', Unlearned',
         Busy(kv') \/ ~Busy(kv) \/ (Woken("kv"))'
  PROVE  Answered'
<1>1. ASSUME NEW r \in Units, Steady(r)
      PROVE  (Woken(r))' \/ (Short(r))'
  <2>1. CASE Woken(r)
    BY <2>1 DEF WokenKept, Woken
  <2>2. CASE Short(r)
    BY <2>2, ShortKept DEF HeldRises
  <2> QED
    BY <1>1, <2>1, <2>2 DEF Answered
<1>2. (Woken("kv"))' \/ Busy(kv') \/ Large'
  BY LargeKept DEF Answered, WokenKept, Woken
<1> QED
  BY <1>1, <1>2 DEF Answered, Steady

LEMMA HeldSame ==
  ASSUME Good, held' = held
  PROVE  HeldRises
<1>1. \A o \in Sessions, r \in Units : held[o][r] \in Nat
  BY HeldIsNat
<1> QED
  BY <1>1 DEF HeldRises

LEMMA TakeRises ==
  ASSUME Good, NEW s \in Sessions, NEW t \in Units, NEW n \in Nat, Take(s, t, n)
  PROVE  HeldRises
<1>1. held' = [held EXCEPT ![s][t] = held[s][t] + n]
  BY DEF Take
<1>2. held \in [Sessions -> [Units -> Int]]
  BY Data
<1> SUFFICES ASSUME NEW o \in Sessions, NEW r \in Units
             PROVE  held'[o][r] \in Int /\ held[o][r] <= held'[o][r]
  BY DEF HeldRises
<1>3. held[o][r] \in Int /\ held[s][t] \in Int
  BY <1>2
<1>4. CASE o = s /\ r = t
  <2>1. held'[o][r] = held[o][r] + n
    BY <1>1, <1>2, <1>4
  <2> QED
    BY <1>3, <2>1
<1>5. CASE o # s \/ r # t
  <2>1. held'[o][r] = held[o][r]
    BY <1>1, <1>2, <1>5
  <2> QED
    BY <1>3, <2>1
<1> QED
  BY <1>4, <1>5

\* A wait, of a session that did not wait before.
LEMMA WaitMakes ==
  ASSUME Good, NEW s \in Sessions, NEW r, NEW n, NEW gang, Wait(s, r, n, gang)
  PROVE  /\ pend'[s].mode = "waiting" /\ pend'[s].want = <<r, n>> /\ pend'[s].gang = gang
         /\ pend'[s].flag = (~gang /\ InWaitCycle(s, r))
         /\ \A o \in Sessions : o # s => pend'[o] = pend[o]
         /\ UNCHANGED <<world, prog, held, lease, kv, aimd>>
<1> DEFINE p == pend[s]
           f == ~gang /\ InWaitCycle(s, r)
           w == <<r, n>>
           q == [p EXCEPT !.mode = "waiting", !.want = w, !.gang = gang, !.flag = f]
<1>1. pend \in [Sessions -> PendRec] /\ p \in PendRec
  BY Data
<1>2. DOMAIN pend = Sessions /\ {"mode", "want", "gang", "flag"} \subseteq DOMAIN p
  BY <1>1 DEF PendRec
<1>3. pend' = [pend EXCEPT ![s].mode = "waiting", ![s].want = w, ![s].gang = gang, ![s].flag = f]
      /\ UNCHANGED <<world, prog, held, lease, kv, aimd>>
  BY DEF Wait
<1> HIDE DEF f, w
<1>4. pend' = [pend EXCEPT ![s] = q]
  BY <1>2, <1>3, ZenonT(40)
<1>5. q.mode = "waiting" /\ q.want = w /\ q.gang = gang /\ q.flag = f
  BY <1>2, ZenonT(40)
<1> HIDE DEF q
<1>6. pend'[s] = q /\ \A o \in Sessions : o # s => pend'[o] = pend[o]
  BY <1>2, <1>4
<1> QED
  BY <1>3, <1>5, <1>6 DEF f, w

LEMMA WaitAnswered ==
  ASSUME Good, Answered, Top("try"), NEW s, s = Head(stack).s, NEW r, NEW n, NEW gang, Waits(s, r, n, gang)
  PROVE  Answered'
<1>1. s \in Sessions
  BY CallerMode DEF ThreadOps
<1>2. Wait(s, r, n, gang) /\ r \in Units \cup {"kv"} /\ n \in Nat /\ ~Fits(s, r, n)
  BY DEF Waits
<1>3. /\ pend'[s].mode = "waiting" /\ pend'[s].want = <<r, n>>
      /\ \A o \in Sessions : o # s => pend'[o] = pend[o]
      /\ UNCHANGED <<world, prog, held, lease, kv, aimd>>
  BY <1>1, <1>2, WaitMakes
<1>4. Sessions' = Sessions
  BY <1>3, WorldKept
<1>5. \A u : \A o \in (Waiters(u))' : (o # s /\ o \in Waiters(u) /\ pend'[o] = pend[o]) \/ (o = s /\ u = r /\ pend'[o].want[2] = n)
  BY <1>3, <1>4 DEF Waiters, Waiting
<1>6. WokenKept
  <2>1. <<>> \in Seq(Frame)
    OBVIOUS
  <2>2. Run(<<>>)
    BY <1>2 DEF Wait
  <2>3. Pushes
    BY <2>1, <2>2, PushesOne
  <2> QED
    BY <2>3, PushesWoken
<1>7. Unleased' /\ Unlearned'
  BY <1>3, SameBare DEF Answered, Unlearned
<1>8. ASSUME NEW u \in Units, Steady(u)
      PROVE  (Woken(u))' \/ (Short(u))'
  <2>1. CASE Woken(u)
    BY <1>6, <2>1 DEF WokenKept, Woken
  <2>2. CASE Short(u)
    <3>1. (Used(u))' = Used(u)
      BY <1>3, UsedSame
    <3>2. u = r => world.cap[u] - Used(u) < n
      <4> SUFFICES ASSUME u = r PROVE world.cap[u] - Used(u) < n
        OBVIOUS
      <4>1. ~(world.cap[u] - Used(u) >= n)
        BY <1>1, <1>2, <1>8, SteadyFits DEF Answered
      <4>2. world.cap[u] \in Nat /\ Used(u) \in Nat
        BY CapIs, UsedIs DEF Used
      <4> QED
        BY <1>2, <4>1, <4>2
    <3>3. ASSUME NEW o \in (Waiters(u))'
          PROVE  world.cap[u] - Used(u) < pend'[o].want[2]
      BY <1>5, <2>2, <3>2 DEF Short
    <3>4. \A o \in (Waiters(u))' : world'.cap[u] - (Used(u))' < pend'[o].want[2]
      BY <1>3, <3>1, <3>3
    <3> QED
      BY <3>4 DEF Short
  <2> QED
    BY <1>8, <2>1, <2>2 DEF Answered
<1>9. (Woken("kv"))' \/ Busy(kv') \/ Large'
  <2>1. CASE Woken("kv")
    BY <1>6, <2>1 DEF WokenKept, Woken
  <2>2. CASE Busy(kv)
    BY <1>3, <2>2
  <2>3. CASE ~Busy(kv) /\ Large
    <3>1. r = "kv" => n > world.size
      <4> SUFFICES ASSUME r = "kv" PROVE n > world.size
        OBVIOUS
      <4>1. ~(n <= world.size)
        BY <1>2, <2>3, IdleFits
      <4> QED
        BY <1>2, <4>1, KvIs
    <3>2. \A o \in (Waiters("kv"))' : pend'[o].want[2] > world'.size
      BY <1>3, <1>5, <2>3, <3>1 DEF Large
    <3> QED
      BY <3>2 DEF Large
  <2> QED
    BY <2>1, <2>2, <2>3 DEF Answered
<1> QED
  BY <1>3, <1>7, <1>8, <1>9 DEF Answered, Steady

\* What is released is offered to those that wait for it.
LEMMA ReleaseAnswered ==
  ASSUME Good, Answered, Release
  PROVE  Answered'
<1> DEFINE s == Head(stack).s
           r == Head(stack).r
           n == Head(stack).amt
           b == Tail(stack)
           a == Waking(r, b)
<1>1. Releases(s, r, n, b)
  BY ReleaseFinds
<1>2. /\ s \in Sessions /\ b \in Seq(Frame) /\ a \in Seq(Frame) /\ stack' = a \o b /\ Top("give")
      /\ UNCHANGED <<world, pend, lease, kv, aimd>>
  BY <1>1 DEF Releases, GiveView, Neutral
<1>3. \A y \in Sessions : y # s => held'[y] = held[y]
  BY <1>1 DEF Releases
<1>4. \A u \in Units : u # r => held'[s][u] = held[s][u]
  BY <1>1 DEF Releases, Account
<1>5. Calm
  BY ReleaseCalm
<1>6. WokenIn(stack', r)
  <2>1. CASE WokenIn(b, r)
    BY <1>2, <2>1, WokenConcat
  <2>2. CASE ~WokenIn(b, r)
    <3>1. a = <<Wake(r)>>
      BY <2>2 DEF Waking, WokenIn
    <3>2. WokenIn(a, r)
      BY <3>1, WokenOne
    <3> QED
      BY <1>2, <3>2, WokenConcat
  <2> QED
    BY <2>1, <2>2
<1>7. WokenKept
  <2>1. stack # <<>> /\ Head(stack).op \notin {"lapse", "wake"} /\ Run(a)
    BY <1>2 DEF Top, Run
  <2> QED
    BY <1>2, <2>1, RunWoken
<1>8. Unleased' /\ Unlearned'
  BY <1>2, SameBare DEF Answered, Unlearned
<1> HIDE DEF s, r, n, b, a
<1>9. ASSUME NEW u \in Units, Steady(u)
      PROVE  (Woken(u))' \/ (Short(u))'
  <2>1. CASE Woken(u)
    BY <1>7, <2>1 DEF WokenKept, Woken
  <2>2. CASE u = r
    BY <1>6, <2>2 DEF Woken
  <2>3. CASE u # r /\ Short(u)
    <3>1. \A o \in Sessions : held[o][u] \in Nat
      BY HeldIsNat
    <3>2. \A o \in Sessions : held'[o][u] \in Int /\ held[o][u] <= held'[o][u]
      BY <1>3, <1>4, <2>3, <3>1
    <3> QED
      BY <1>2, <1>5, <2>3, <3>2, ShortKept
  <2> QED
    BY <1>9, <2>1, <2>2, <2>3 DEF Answered
<1>10. (Woken("kv"))' \/ Busy(kv') \/ Large'
  BY <1>2, <1>5, <1>7, LargeKept DEF Answered, WokenKept, Woken
<1> QED
  BY <1>2, <1>8, <1>9, <1>10 DEF Answered, Steady

\* A waiter that is tried leaves the offer where it is.
LEMMA UnwaitAnswered ==
  ASSUME Good, Answered, NEW r, NEW s \in Waiters(r), Unwait(s, stack)
  PROVE  Answered'
<1>1. s \in Sessions /\ pend[s].mode = "waiting"
  BY DEF Waiters, Waiting
<1>2. stack' = <<Call("try", s)>> \o stack /\ UNCHANGED <<world, prog, held, lease, kv, aimd>>
  BY DEF Unwait
<1>3. <<Call("try", s)>> \in Seq(Frame) /\ stack \in Seq(Frame)
  BY <1>1, Data, CallFrames DEF ThreadOps
<1>4. WokenKept
  BY <1>2, <1>3, WokenConcat DEF WokenKept
<1>5. Unleased' /\ Unlearned'
  BY <1>2, SameBare DEF Answered, Unlearned
<1>6. Calm
  BY <1>1, UnwaitCalm
<1> QED
  BY <1>2, <1>4, <1>5, <1>6, HeldSame, AnsweredKept

LEMMA WakeGangAnswered ==
  ASSUME Good, Answered, WakeGang
  PROVE  Answered'
<1> DEFINE h == Head(stack)
           g == [h EXCEPT !.op = "wake"]
<1>1. \/ \E s \in LapsedGangs(h.r) : Unwait(s, stack)
      \/ Run(<<g>>) /\ UNCHANGED <<world, prog, pend, held, lease, kv, aimd>>
  BY DEF WakeGang
<1>2. CASE \E s \in LapsedGangs(h.r) : Unwait(s, stack)
  BY <1>2, UnwaitAnswered DEF LapsedGangs
<1>3. CASE Run(<<g>>) /\ UNCHANGED <<world, prog, pend, held, lease, kv, aimd>>
  <2>1. stack # <<>> /\ h \in Frame
    BY Data, HeadIs DEF WakeGang, Top
  <2>2. g \in Frame /\ g.op = "wake" /\ g.r = h.r
    BY <2>1 DEF Frame
  <2> DEFINE a == <<g>>
  <2> HIDE DEF g, h
  <2>3. a \in Seq(Frame) /\ 1 \in DOMAIN a /\ a[1] = g
    BY <2>2
  <2>4. Run(a) /\ Tail(stack) \in Seq(Frame) /\ stack' = a \o Tail(stack)
    BY <1>3, <2>1, Data, HeadIs DEF Run
  <2> HIDE DEF a
  <2>5. WokenIn(a, h.r)
    BY <2>2, <2>3 DEF WokenIn
  <2>6. WokenIn(stack', h.r)
    BY <2>3, <2>4, <2>5, WokenConcat
  <2>7. WokenKept
    <3> SUFFICES ASSUME NEW r, WokenIn(stack, r), r # h.r PROVE WokenIn(stack', r)
      BY <2>6 DEF WokenKept
    <3> QED
      BY <2>1, <2>3, <2>4, RunOffers DEF h
  <2>8. Unleased' /\ Unlearned'
    BY <1>3, SameBare DEF Answered, Unlearned
  <2>9. Calm
    BY <1>3, <2>1, TopIsSession, CalmSame
  <2> QED
    BY <1>3, <2>7, <2>8, <2>9, HeldSame, AnsweredKept
<1> QED
  BY <1>1, <1>2, <1>3

\* An offer that ends is one that fits nobody.
LEMMA WakeBestAnswered ==
  ASSUME Good, Answered, WakeBest
  PROVE  Answered'
<1> DEFINE r == Head(stack).r
<1>1. \/ \E s \in FittingWaiters(r) : Unwait(s, stack)
      \/ FittingWaiters(r) = {} /\ Run(<<>>) /\ UNCHANGED <<world, prog, pend, held, lease, kv, aimd>>
  BY DEF WakeBest
<1>2. CASE \E s \in FittingWaiters(r) : Unwait(s, stack)
  BY <1>2, UnwaitAnswered DEF FittingWaiters
<1>3. CASE FittingWaiters(r) = {} /\ Run(<<>>) /\ UNCHANGED <<world, prog, pend, held, lease, kv, aimd>>
  <2>1. stack # <<>> /\ <<>> \in Seq(Frame)
    BY DEF WakeBest, Top
  <2>2. \A u : u # r /\ WokenIn(stack, u) => WokenIn(stack', u)
    BY <1>3, <2>1, RunOffers
  <2> HIDE DEF r
  <2>3. Unleased' /\ Unlearned'
    BY <1>3, SameBare DEF Answered, Unlearned
  <2>4. Sessions' = Sessions /\ \A u : (Waiters(u))' = Waiters(u)
    BY <1>3, WorldKept DEF Waiters, Waiting
  <2>5. \A o \in Waiters(r) : ~Fits(o, r, pend[o].want[2])
    BY <1>3 DEF FittingWaiters
  <2>6. ASSUME NEW u \in Units, Steady(u)
        PROVE  (Woken(u))' \/ (Short(u))'
    <3>1. CASE u # r /\ Woken(u)
      BY <2>2, <3>1 DEF Woken
    <3>2. CASE u = r \/ Short(u)
      <4>1. Short(u)
        <5> SUFFICES ASSUME u = r, NEW o \in Waiters(u) PROVE world.cap[u] - Used(u) < pend[o].want[2]
          BY <3>2 DEF Short
        <5>1. o \in Sessions /\ pend[o].want[2] \in Nat
          BY WaiterIs
        <5>2. ~(world.cap[u] - Used(u) >= pend[o].want[2])
          BY <2>5, <2>6, <5>1, SteadyFits DEF Answered
        <5>3. world.cap[u] \in Nat /\ Used(u) \in Nat
          BY CapIs, UsedIs DEF Used
        <5> QED
          BY <5>1, <5>2, <5>3
      <4>2. (Used(u))' = Used(u)
        BY <1>3, UsedSame
      <4>3. \A o \in (Waiters(u))' : world'.cap[u] - (Used(u))' < pend'[o].want[2]
        BY <1>3, <2>4, <4>1, <4>2 DEF Short
      <4> QED
        BY <4>3 DEF Short
    <3> QED
      BY <2>6, <3>1, <3>2 DEF Answered
  <2>7. (Woken("kv"))' \/ Busy(kv') \/ Large'
    <3>1. CASE r # "kv" /\ Woken("kv")
      BY <2>2, <3>1 DEF Woken
    <3>2. CASE Busy(kv)
      BY <1>3, <3>2
    <3>3. CASE ~Busy(kv) /\ (r = "kv" \/ Large)
      <4>1. Large
        <5> SUFFICES ASSUME r = "kv", NEW o \in Waiters("kv") PROVE pend[o].want[2] > world.size
          BY <3>3 DEF Large
        <5>1. o \in Sessions /\ pend[o].want[2] \in Nat
          BY WaiterIs
        <5>2. ~(pend[o].want[2] <= world.size)
          BY <2>5, <3>3, <5>1, IdleFits
        <5> QED
          BY <5>1, <5>2, KvIs
      <4>2. Large'
        BY <1>3, <2>4, <4>1 DEF Large
      <4> QED
        BY <4>2
    <3> QED
      BY <3>1, <3>2, <3>3 DEF Answered
  <2> QED
    BY <1>3, <2>3, <2>6, <2>7 DEF Answered, Steady
<1> QED
  BY <1>1, <1>2, <1>3

\* The chat that starts keeps the cache busy.
LEMMA StartBusy ==
  ASSUME Good, NEW s \in Sessions, Start(s)
  PROVE  kv' = kv \/ Busy(kv')
<1>1. PICK o \in IF IsChat(s) THEN BeginPrefill(kv, world.size, s, ContextOf(s)) ELSE {[cache |-> kv, victims |-> {}]} :
        kv' = o.cache
  BY DEF Start
<1>2. CASE ~IsChat(s)
  BY <1>1, <1>2
<1>3. CASE IsChat(s)
  <2> DEFINE context == ContextOf(s)
             size == world.size
  <2>1. IsWorld(world) /\ prog[s] \in ProgRec /\ kv \in [Sessions -> Cache]
    BY Data, WorldIs
  <2>2. size \in Nat /\ context \in Nat
    BY <2>1, ProgIs DEF IsWorld, ContextOf
  <2>3. o \in BeginPrefill(kv, size, s, context)
    BY <1>1, <1>3
  <2> HIDE DEF context, size
  <2>4. PrefillBegun(o, Sessions, kv, size, s, context)
    BY <2>1, <2>2, <2>3, PrefillBegins
  <2>5. PICK k \in [Sessions -> Cache] : o.cache = [k EXCEPT ![s] = Entry("active", context)]
    BY <2>4 DEF PrefillBegun
  <2>6. kv'[s].at = "active" /\ s \in DOMAIN kv'
    BY <1>1, <2>5 DEF Entry
  <2> QED
    BY <2>6 DEF Busy, In
<1> QED
  BY <1>2, <1>3

LEMMA TrySame ==
  ASSUME NEW s, \/ TakeNothing(s) \/ AwaitSpare(s) \/ AwaitCache(s) \/ Pause(s) \/ Refuse(s) \/ Start(s)
  PROVE  held' = held /\ aimd' = aimd
<1>1. CASE TakeNothing(s) \/ AwaitSpare(s) \/ AwaitCache(s) \/ Refuse(s)
  <2>1. Fail(s) \/ \E r, n, gang : Wait(s, r, n, gang)
    BY <1>1 DEF TakeNothing, AwaitSpare, AwaitCache, Refuse, WaitOrFail
  <2> QED
    BY <2>1 DEF Fail, Wait
<1>2. CASE Pause(s)
  BY <1>2 DEF Pause
<1>3. CASE Start(s)
  BY <1>3 DEF Start
<1> QED
  BY <1>1, <1>2, <1>3

LEMMA TryAnswered ==
  ASSUME Good, Answered, TryRun
  PROVE  Answered'
<1> DEFINE s == Head(stack).s
<1>0. Top("try") /\ s \in Sessions /\ s = Head(stack).s
  BY CallerMode DEF TryRun, ThreadOps
<1>1. \/ TakeNext(s) \/ TakeNothing(s) \/ TakeSpare(s) \/ AwaitSpare(s) \/ AwaitCache(s)
      \/ Pause(s) \/ Refuse(s) \/ Throttle(s) \/ Start(s)
  BY DEF TryRun
<1> HIDE DEF s
<1>2. CASE \E r, n, gang : Waits(s, r, n, gang)
  BY <1>0, <1>2, WaitAnswered
<1>3. CASE Calm
  <2>1. world' = world /\ (kv' = kv \/ Busy(kv'))
    <3>1. CASE Start(s)
      BY <1>0, <3>1, StartBusy, StartSteps
    <3>2. CASE ~Start(s)
      BY <1>0, <3>2, TryRunSteps
    <3> QED
      BY <3>1, <3>2
  <2>2. HeldRises
    <3>1. CASE TakeNext(s)
      <4> DEFINE r == First(Missing(s))
                 n == Needs(s, r)
      <4>1. r \in Units /\ n \in Nat /\ Take(s, r, n)
        BY <1>0, <3>1, MissingIs DEF TakeNext
      <4> HIDE DEF r, n
      <4> QED
        BY <1>0, <4>1, TakeRises
    <3>2. CASE TakeSpare(s)
      <4> DEFINE n == Extra(pend[s].step)
      <4>1. pend[s].step \in Steps
        BY <1>0, Data, PendIs
      <4>2. "cpu" \in Units /\ n \in Nat /\ Take(s, "cpu", n)
        BY <3>2, <4>1, ExtraIs, UnitsAre DEF TakeSpare
      <4> HIDE DEF n
      <4> QED
        BY <1>0, <4>2, TakeRises
    <3>3. CASE ~TakeNext(s) /\ ~TakeSpare(s)
      <4>1. held' = held
        BY <1>1, <3>3, TrySame DEF Throttle
      <4> QED
        BY <4>1, HeldSame
    <3> QED
      BY <3>1, <3>2, <3>3
  <2>3. Unlearned'
    <3>1. CASE Throttle(s)
      BY <2>1, <3>1 DEF Throttle, Metered, Unlearned
    <3>2. CASE ~Throttle(s)
      <4>1. aimd' = aimd
        BY <1>1, <3>2, TrySame DEF TakeNext, TakeSpare, Take
      <4> QED
        BY <2>1, <4>1 DEF Answered, Unlearned
    <3> QED
      BY <3>1, <3>2
  <2>4. Unleased' /\ WokenKept
    BY TryBare, TryWoken DEF Answered
  <2> QED
    BY <1>3, <2>1, <2>2, <2>3, <2>4, AnsweredKept
<1> QED
  BY <1>0, <1>2, <1>3, TryCalm

LEMMA WithinSame ==
  ASSUME Within, ~TryRun, ~Release, ~Gone
  PROVE  kv' = kv /\ held' = held
<1>1. CASE WakeGang
  BY <1>1 DEF WakeGang, Unwait
<1>2. CASE WakeBest
  BY <1>2 DEF WakeBest, Unwait
<1>3. CASE Bury
  BY <1>3 DEF Bury
<1>4. CASE StartKid
  BY <1>4 DEF StartKid
<1>5. CASE JoinPark
  BY <1>5 DEF JoinPark
<1>6. CASE CallCounted
  BY <1>6 DEF CallCounted
<1>7. CASE Spawn
  BY <1>7 DEF Spawn
<1>8. CASE ToolReturns
  BY <1>8 DEF ToolReturns
<1>9. CASE Throttled
  BY <1>9 DEF Throttled, Fail
<1>10. CASE ReadyChat
  BY <1>10 DEF ReadyChat, Ready
<1>11. CASE FetchReturns
  BY <1>11 DEF FetchReturns, Ready
<1>12. CASE Proceed
  BY <1>12 DEF Proceed, Ready
<1>13. CASE React
  BY <1>13 DEF React, Retry, Abort, EndSession, Replan, Ready
<1>14. CASE EndRequest
  BY <1>14 DEF EndRequest, EndSession
<1>15. CASE ChatReturns
  BY <1>15 DEF ChatReturns, ChatOver
<1> QED
  BY <1>1, <1>2, <1>3, <1>4, <1>5, <1>6, <1>7, <1>8, <1>9, <1>10, <1>11, <1>12, <1>13, <1>14, <1>15 DEF Within

LEMMA WithinLearns ==
  ASSUME Within, ~TryRun, ~CallCounted
  PROVE  aimd' = aimd
<1>1. CASE WakeGang
  BY <1>1 DEF WakeGang, Unwait
<1>2. CASE WakeBest
  BY <1>2 DEF WakeBest, Unwait
<1>3. CASE Bury
  BY <1>3 DEF Bury
<1>4. CASE StartKid
  BY <1>4 DEF StartKid
<1>5. CASE JoinPark
  BY <1>5 DEF JoinPark
<1>6. CASE Spawn
  BY <1>6 DEF Spawn
<1>7. CASE ToolReturns
  BY <1>7 DEF ToolReturns
<1>8. CASE Throttled
  BY <1>8 DEF Throttled, Fail
<1>9. CASE ReadyChat
  BY <1>9 DEF ReadyChat, Ready
<1>10. CASE FetchReturns
  BY <1>10 DEF FetchReturns, Ready
<1>11. CASE Proceed
  BY <1>11 DEF Proceed, Ready
<1>12. CASE React
  BY <1>12 DEF React, Retry, Abort, EndSession, Replan, Ready
<1>13. CASE EndRequest
  BY <1>13 DEF EndRequest, EndSession
<1>14. CASE ChatReturns
  BY <1>14 DEF ChatReturns, ChatOver
<1>15. CASE Gone
  BY <1>15 DEF Gone
<1>16. CASE Release
  BY <1>16 DEF Release
<1> QED
  BY <1>1, <1>2, <1>3, <1>4, <1>5, <1>6, <1>7, <1>8, <1>9, <1>10, <1>11, <1>12, <1>13, <1>14, <1>15, <1>16 DEF Within

\* A gate that lets through all there is allows itself no more.
LEMMA CountedUnlearned ==
  ASSUME Good, Unlearned, CallCounted
  PROVE  Unlearned'
<1>1. world' = world /\ aimd' = More
  BY DEF CallCounted
<1> SUFFICES ASSUME ~world.metered PROVE More.cap = world.cap["ext"]
  BY <1>1 DEF Unlearned
<1> DEFINE n == world.cap["ext"]
<1>2. n \in Nat /\ aimd.cap = n /\ aimd \in [cap : Nat, streak : Nat]
  BY CapIs, Data DEF Unlearned
<1>3. [aimd EXCEPT !.streak = aimd.streak + 1].cap = aimd.cap
  BY <1>2
<1>4. Min({n, n + 1}) = n
  <2> HIDE DEF n
  <2>1. n \in Int /\ n + 1 \in Int /\ n # n + 1
    BY <1>2
  <2>2. Min({n, n + 1}) \in {n, n + 1} /\ Min({n, n + 1}) <= n
    BY <2>1, MinIs
  <2> QED
    BY <1>2, <2>2
<1> QED
  BY <1>2, <1>3, <1>4 DEF More

LEMMA WithinCalls ==
  ASSUME Within
  PROVE  stack # <<>>
BY DEF Within, Release, WakeGang, WakeBest, TryRun, ReadyChat, React, Gone, Bury, ChatReturns, Proceed, EndRequest, Spawn,
   StartKid, JoinPark, ToolReturns, FetchReturns, CallCounted, Throttled, Top

LEMMA WithinAnswered ==
  ASSUME Good, Answered, Within
  PROVE  Answered'
<1>1. CASE Release \/ WakeGang \/ WakeBest \/ TryRun
  BY <1>1, ReleaseAnswered, WakeGangAnswered, WakeBestAnswered, TryAnswered
<1>2. CASE ~Release /\ ~WakeGang /\ ~WakeBest /\ ~TryRun /\ ~Spawn
  <2>1. Calm /\ WokenKept /\ Unleased'
    BY <1>2, WithinCalm, WithinPushes, WithinBare DEF Answered
  <2>0. stack # <<>>
    BY WithinCalls
  <2>2. stack # <<>> /\ world' = world
    BY <1>2, <2>0, WithinSteps, TopIsSession
  <2>3. CASE Gone
    <3> DEFINE s == Head(stack).s
               a == Waking("kv", Tail(stack))
               c == <<Call("bury", s)>>
    <3>1. held' = held /\ aimd' = aimd /\ Run(a \o c) /\ s \in Sessions
      BY <2>2, <2>3, TopIsSession DEF Gone
    <3>2. a \in Seq(Frame) /\ c \in Seq(Frame) /\ Tail(stack) \in Seq(Frame)
      BY <2>2, <3>1, WakingFrames, CallFrames, Data, HeadIs DEF ThreadOps
    <3>3. WokenIn(stack', "kv")
      <4>1. stack' = (a \o c) \o Tail(stack) /\ a \o c \in Seq(Frame)
        BY <3>1, <3>2, Concat DEF Run
      <4>2. CASE WokenIn(Tail(stack), "kv")
        BY <3>2, <4>1, <4>2, WokenConcat
      <4>3. CASE ~WokenIn(Tail(stack), "kv")
        <5>1. a = <<Wake("kv")>>
          BY <4>3 DEF Waking, WokenIn
        <5>2. WokenIn(a, "kv")
          BY <5>1, WokenOne
        <5> HIDE DEF a, c
        <5>3. WokenIn(a \o c, "kv")
          BY <3>2, <5>2, WokenConcat
        <5> QED
          BY <3>2, <4>1, <5>3, WokenConcat
      <4> QED
        BY <4>2, <4>3
    <3>4. (Woken("kv"))' /\ HeldRises /\ Unlearned'
      BY <2>2, <3>1, <3>3, HeldSame DEF Woken, Answered, Unlearned
    <3> QED
      BY <2>1, <2>2, <3>4, AnsweredKept
  <2>4. CASE ~Gone
    <3>1. kv' = kv /\ held' = held
      BY <1>2, <2>4, WithinSame
    <3>2. Unlearned'
      <4>1. CASE CallCounted
        BY <4>1, CountedUnlearned DEF Answered
      <4>2. CASE ~CallCounted
        BY <1>2, <2>2, <4>2, WithinLearns DEF Answered, Unlearned
      <4> QED
        BY <4>1, <4>2
    <3> QED
      BY <2>1, <2>2, <3>1, <3>2, HeldSame, AnsweredKept
  <2> QED
    BY <2>3, <2>4
<1>3. CASE Spawn
  <2>1. world' = world /\ kv' = kv /\ held' = held /\ aimd' = aimd
    BY <1>3 DEF Spawn
  <2>2. Unleased' /\ Unlearned'
    BY <1>3, <2>1, WithinBare DEF Within, Answered, Unlearned
  <2>3. WokenKept
    BY <1>3, SpawnPushes, PushesWoken DEF Spawn
  <2>4. ASSUME NEW r
        PROVE  \A o \in (Waiters(r))' : o \in Waiters(r) /\ pend'[o].want = pend[o].want
    <3> DEFINE s == Head(stack).s
               q == NoPending("join")
    <3>1. pend' = [pend EXCEPT ![s] = q]
      BY <1>3 DEF Spawn
    <3>2. q.mode = "join"
      BY NoPendingMode
    <3> HIDE DEF s, q
    <3>3. \A o \in Sessions : pend'[o] = pend[o] \/ pend'[o].mode = "join"
      BY <3>1, <3>2, Data
    <3> QED
      BY <2>1, <3>3, WorldKept DEF Waiters, Waiting
  <2>5. \A r \in Units : Short(r) => (Short(r))'
    <3> SUFFICES ASSUME NEW r \in Units, Short(r) PROVE (Short(r))'
      OBVIOUS
    <3>1. (Used(r))' = Used(r)
      BY <2>1, UsedSame
    <3>2. \A o \in (Waiters(r))' : world'.cap[r] - (Used(r))' < pend'[o].want[2]
      BY <2>1, <2>4, <3>1 DEF Short
    <3> QED
      BY <3>2 DEF Short
  <2>6. Large => Large'
    <3>1. Large => \A o \in (Waiters("kv"))' : pend'[o].want[2] > world'.size
      BY <2>1, <2>4 DEF Large
    <3> QED
      BY <3>1 DEF Large
  <2> QED
    BY <2>1, <2>2, <2>3, <2>5, <2>6 DEF Answered, Steady, WokenKept, Woken
<1> QED
  BY <1>1, <1>2, <1>3

\* Between two events nothing is offered.
LEMMA NoneOffered ==
  ASSUME stack = <<>>
  PROVE  WokenKept /\ \A r : ~Woken(r)
BY DEF WokenKept, Woken, WokenIn

LEMMA HandleOffers ==
  ASSUME world \in Worlds, NEW a \in Seq(Frame), NEW b \in Seq(Frame), NEW c \in Seq(Frame), stack' = a \o c \o b,
         c = <<Wake("kv")>>
  PROVE  (Woken("kv"))'
<1>1. WokenIn(c, "kv")
  BY WokenOne
<1>2. WokenIn(a \o c, "kv") /\ a \o c \in Seq(Frame)
  BY <1>1, WokenConcat, Concat
<1>3. WokenIn((a \o c) \o b, "kv")
  BY <1>2, WokenConcat
<1> QED
  BY <1>3 DEF Woken

LEMMA EventHeld ==
  ASSUME Good, world' = world, NEW s \in Sessions, Event(s)
  PROVE  HeldRises
<1>1. CASE held' = held
  BY <1>1, HeldSame
<1>2. CASE Prewarm(s) /\ held' # held
  <2> DEFINE h == held[s]
             k == [h EXCEPT !["mem"] = h["mem"] + world.gb[s], !["cpu"] = h["cpu"] + 1]
  <2>1. held' = [held EXCEPT ![s] = k]
    BY <1>2, Zenon DEF Prewarm
  <2>2. h \in [Units -> Int] /\ world.gb[s] \in Nat /\ {"mem", "cpu"} \subseteq Units
    BY Data, CapIs, UnitsAre
  <2>3. \A r \in Units : k[r] \in Int /\ h[r] <= k[r]
    <3> HIDE DEF h
    <3> SUFFICES ASSUME NEW r \in Units PROVE k[r] \in Int /\ h[r] <= k[r]
      OBVIOUS
    <3>1. k[r] = IF r = "mem" THEN h["mem"] + world.gb[s] ELSE IF r = "cpu" THEN h["cpu"] + 1 ELSE h[r]
      BY <2>2
    <3>2. h[r] \in Int /\ h["mem"] \in Int /\ h["cpu"] \in Int
      BY <2>2
    <3> QED
      BY <2>2, <3>1, <3>2
  <2> HIDE DEF k
  <2>4. ASSUME NEW o \in Sessions, NEW r \in Units
        PROVE  held'[o][r] \in Int /\ held[o][r] <= held'[o][r]
    <3>1. CASE o = s
      BY <2>1, <2>3, <3>1, Data
    <3>2. CASE o # s
      <4>1. held'[o] = held[o] /\ held[o][r] \in Nat
        BY <2>1, <3>2, Data, HeldIsNat
      <4> QED
        BY <4>1
    <3> QED
      BY <3>1, <3>2
  <2> QED
    BY <2>4 DEF HeldRises
<1>3. held' = held \/ Prewarm(s)
  BY DEF Event, Reannotate, Scheduled, Arrive, RequestStart, DueTry, DecodeStart, ChatEnd, ToolEnd, ToolLimit, FetchEnd,
     StepEnd, DeadlockBreak, WaitTimeout, TimeoutStep, Park, ParkIdle
<1> QED
  BY <1>1, <1>2, <1>3

LEMMA EventBusy ==
  ASSUME Good, NEW s \in Sessions, Event(s)
  PROVE  kv' = kv \/ Busy(kv') \/ (Woken("kv"))'
<1>1. CASE DecodeStart(s)
  <2> DEFINE out == pend[s].step.out
             size == world.size
  <2>1. PICK o \in BeginDecode(kv, size, s, out) : kv' = o.cache
    BY <1>1 DEF DecodeStart
  <2>2. kv \in [Sessions -> Cache]
    BY Data
  <2> HIDE DEF out, size
  <2>3. PICK k \in [Sessions -> Cache] :
          o.cache = [k EXCEPT ![s] = Entry("decode", kv[s].tok + out)] /\ Evicts(k, kv, o.victims)
    BY <2>1, <2>2, DecodeBegins, ZenonT(40)
  <2>4. kv'[s].at = "decode" /\ s \in DOMAIN kv'
    BY <2>1, <2>3 DEF Entry
  <2> QED
    BY <2>4 DEF Busy, In
<1>2. CASE ChatEnd(s)
  <2> DEFINE c == <<Wake("kv")>>
             b == <<Call("answered", s)>>
  <2>1. c \in Seq(Frame) /\ b \in Seq(Frame) /\ <<>> \in Seq(Frame)
    BY WakingFrames, CallFrames DEF ThreadOps
  <2>2. stack' = c \o b
    BY <1>2 DEF ChatEnd, Handle
  <2>3. WokenIn(c, "kv")
    BY WokenOne
  <2> HIDE DEF b, c
  <2> QED
    BY <2>1, <2>2, <2>3, WokenConcat DEF Woken
<1>3. CASE TimeoutStep(s) /\ kv' # kv
  <2> DEFINE a == GiveEach(s, pend[s].part)
             c == <<Wake("kv")>>
             d == GiveOwn(s)
             e == GiveSlot(s)
             f == <<Call("react", s)>>
  <2>1. a \in Seq(Frame) /\ c \in Seq(Frame) /\ d \in Seq(Frame) /\ e \in Seq(Frame) /\ f \in Seq(Frame)
    BY PendFrames, WakingFrames, CallFrames DEF ThreadOps
  <2>2. stack' = a \o c \o d \o e \o f
    BY <1>3 DEF TimeoutStep, Handle
  <2>3. WokenIn(c, "kv")
    BY WokenOne
  <2> HIDE DEF a, c, d, e, f
  <2>4. WokenIn(a \o c, "kv") /\ a \o c \in Seq(Frame)
    BY <2>1, <2>3, WokenConcat, Concat
  <2>5. WokenIn(a \o c \o d, "kv") /\ a \o c \o d \in Seq(Frame)
    BY <2>1, <2>4, WokenConcat, Concat
  <2>6. WokenIn(a \o c \o d \o e, "kv") /\ a \o c \o d \o e \in Seq(Frame)
    BY <2>1, <2>5, WokenConcat, Concat
  <2>7. WokenIn(a \o c \o d \o e \o f, "kv")
    BY <2>1, <2>6, WokenConcat
  <2> QED
    BY <2>2, <2>7 DEF Woken
<1>4. CASE Reannotate(s) \/ Arrive(s) \/ RequestStart(s) \/ DueTry(s) \/ Park(s) \/ ParkIdle(s) \/ Prewarm(s)
  BY <1>4 DEF Reannotate, Arrive, RequestStart, DueTry, Park, ParkIdle, Prewarm
<1>5. CASE ToolEnd(s) \/ ToolLimit(s) \/ FetchEnd(s)
  BY <1>5 DEF ToolEnd, ToolLimit, FetchEnd, StepEnd
<1> QED
  BY <1>1, <1>2, <1>3, <1>4, <1>5 DEF Event, Scheduled, DeadlockBreak, WaitTimeout

LEMMA EventAtRest ==
  ASSUME NEW s, Event(s) \/ Expire(s)
  PROVE  stack = <<>>
<1>0. \A a : Handle(a) => stack = <<>>
  BY DEF Handle, AtRest
<1>1. CASE Reannotate(s)
  BY <1>0, <1>1 DEF Reannotate
<1>2. CASE Arrive(s)
  BY <1>0, <1>2 DEF Arrive
<1>3. CASE RequestStart(s)
  BY <1>0, <1>3 DEF RequestStart
<1>4. CASE DueTry(s)
  BY <1>0, <1>4 DEF DueTry
<1>5. CASE DecodeStart(s)
  BY <1>0, <1>5 DEF DecodeStart
<1>6. CASE ChatEnd(s)
  BY <1>0, <1>6 DEF ChatEnd
<1>7. CASE ToolEnd(s)
  BY <1>0, <1>7 DEF ToolEnd, StepEnd
<1>8. CASE ToolLimit(s)
  BY <1>0, <1>8 DEF ToolLimit, StepEnd
<1>9. CASE FetchEnd(s)
  BY <1>0, <1>9 DEF FetchEnd, StepEnd
<1>10. CASE TimeoutStep(s)
  BY <1>0, <1>10 DEF TimeoutStep
<1>11. CASE Park(s)
  BY <1>0, <1>11 DEF Park, Parked
<1>12. CASE ParkIdle(s)
  BY <1>0, <1>12 DEF ParkIdle, Parked
<1>13. CASE Prewarm(s)
  BY <1>0, <1>13 DEF Prewarm
<1>14. CASE Expire(s)
  BY <1>0, <1>14 DEF Expire
<1> QED
  BY <1>1, <1>2, <1>3, <1>4, <1>5, <1>6, <1>7, <1>8, <1>9, <1>10, <1>11, <1>12, <1>13, <1>14 DEF Event, Scheduled, DeadlockBreak, WaitTimeout

LEMMA AnsweredNext ==
  ASSUME Good, Answered, [Next]_vars
  PROVE  Answered'
<1>1. CASE Within
  BY <1>1, WithinAnswered
<1>2. ASSUME NEW s \in Sessions, Event(s)
      PROVE  Answered'
  <2>1. world' = world /\ aimd' = aimd /\ stack = <<>>
    BY <1>2, EventAtRest DEF Event
  <2>2. Unlearned' /\ Unleased'
    BY <1>2, <2>1, EventBare DEF Answered, Unlearned
  <2>3. Calm /\ WokenKept /\ HeldRises
    BY <1>2, <2>1, EventCalm, EventHeld, NoneOffered
  <2>4. Busy(kv') \/ ~Busy(kv) \/ (Woken("kv"))'
    BY <1>2, EventBusy
  <2> QED
    BY <2>1, <2>2, <2>3, <2>4, AnsweredKept
<1>3. ASSUME NEW s \in Sessions, Expire(s), UNCHANGED <<world, aimd>>
      PROVE  Answered'
  <2>1. world' = world /\ aimd' = aimd /\ stack = <<>> /\ kv' = kv /\ held' = held
    BY <1>3, EventAtRest DEF Expire
  <2>2. Unlearned' /\ Unleased'
    BY <1>3, <2>1, EventBare DEF Answered, Unlearned
  <2>3. Calm /\ WokenKept /\ HeldRises
    BY <1>3, <2>1, ExpireCalm, HeldSame, NoneOffered
  <2> QED
    BY <2>1, <2>2, <2>3, AnsweredKept
<1>4. CASE UNCHANGED vars
  <2>1. world' = world /\ aimd' = aimd /\ stack' = stack /\ kv' = kv /\ held' = held /\ pend' = pend /\ prog' = prog
        /\ lease' = lease
    BY <1>4 DEF vars
  <2>2. Unlearned' /\ Unleased' /\ WokenKept
    BY <2>1, SameBare DEF Answered, Unlearned, WokenKept
  <2>3. Calm /\ HeldRises
    BY <2>1, CalmLeft, HeldSame DEF Calm
  <2> QED
    BY <2>1, <2>2, <2>3, AnsweredKept
<1> QED
  BY <1>1, <1>2, <1>3, <1>4 DEF Next

LEMMA AnsweredBegins ==
  ASSUME Init
  PROVE  Answered
<1>1. Unleased
  BY BareNothing DEF Init, Unleased
<1>2. \A r : Waiters(r) = {}
  BY NoPendingMode DEF Init, Waiters, Waiting
<1> QED
  BY <1>1, <1>2 DEF Answered, Unlearned, Short, Large, Init

LEMMA AnsweredFits ==
  ASSUME Good, Answered
  PROVE  NoFittingWaiter
<1> SUFFICES ASSUME stack = <<>> PROVE NoFittingWaiter
  BY DEF NoFittingWaiter, AtRest
<1>1. \A r : ~Woken(r)
  BY NoneOffered
<1>2. ASSUME NEW r \in Units, Steady(r)
      PROVE  FittingWaiters(r) = {}
  <2> SUFFICES ASSUME NEW o \in Waiters(r) PROVE ~Fits(o, r, pend[o].want[2])
    BY DEF FittingWaiters
  <2>1. o \in Sessions /\ pend[o].want[2] \in Nat
    BY WaiterIs
  <2>2. world.cap[r] - Used(r) < pend[o].want[2]
    BY <1>1, <1>2 DEF Answered, Short
  <2>3. world.cap[r] \in Nat /\ Used(r) \in Nat
    BY CapIs, UsedIs DEF Used
  <2>4. ~(world.cap[r] - Used(r) >= pend[o].want[2])
    BY <2>1, <2>2, <2>3
  <2> QED
    BY <1>2, <2>1, <2>4, SteadyFits DEF Answered
<1>3. ASSUME FittingWaiters("kv") # {}
      PROVE  In(kv, {"active", "decode"}) # {}
  <2> SUFFICES ASSUME ~Busy(kv) PROVE FALSE
    BY DEF Busy
  <2>1. PICK o \in Waiters("kv") : Fits(o, "kv", pend[o].want[2])
    BY <1>3 DEF FittingWaiters
  <2>2. pend[o].want[2] \in Nat /\ pend[o].want[2] > world.size
    BY <1>1, WaiterIs DEF Answered, Large
  <2>3. pend[o].want[2] <= world.size
    BY <2>1, <2>2, IdleFits
  <2> QED
    BY <2>2, <2>3, KvIs
<1>4. "ext" \in Units
  BY CapIs
<1> QED
  BY <1>2, <1>3, <1>4 DEF NoFittingWaiter, Steady

\* Between two events nobody waits for what is free (_release and _wake: what
\* comes back is offered to its waiters until none of them fits, also by the
\* calls that such an offer leads to), but for what the leases of the needs
\* policy and a gate that learns keep apart.
THEOREM NobodyWaitsForWhatIsFree == Spec => []NoFittingWaiter
<1>1. Init => Answered
  BY AnsweredBegins
<1>2. Good /\ Answered /\ [Next]_vars => Answered'
  BY AnsweredNext
<1>3. Good /\ Answered => NoFittingWaiter
  BY AnsweredFits
<1> QED
  BY <1>1, <1>2, <1>3, AlwaysGood, PTL DEF Spec

-----------------------------------------------------------------------------
(* Deadlocks: sessions that only each other could help come about when the *)
(* last of them begins to wait, and that one is flagged then, unless some  *)
(* of the others are in the same position already.                         *)

\* What x wants only the others of C could give it.
StuckIn(x, C) ==
  \/ /\ Waiting(x) /\ pend[x].want[1] \in Units /\ ~pend[x].gang
     /\ world.cap[pend[x].want[1]] - HeldBy(C, pend[x].want[1]) < pend[x].want[2]
  \/ pend[x].mode = "join" /\ \E c \in Kids(x) \cap C : Active(c)
Detected == \A C \in SUBSET Sessions : Stuck(C) => \E x \in C : pend[x].flag

LEMMA StuckEach == \A C : Stuck(C) <=> C # {} /\ \A x \in C : StuckIn(x, C)
BY DEF Stuck, StuckIn

LEMMA HeldBySum ==
  ASSUME Good, world' = world, NEW C \in SUBSET Sessions, NEW r \in Units
  PROVE  /\ IsFiniteSet(C)
         /\ HeldBy(C, r) = SumFunctionOnSet([o \in Sessions |-> held[o][r]], C)
         /\ (HeldBy(C, r))' = SumFunctionOnSet([o \in Sessions |-> held'[o][r]], C)
<1>1. IsFiniteSet(C)
  BY Data, SessionsFinite, FS_Subset
<1>2. Sessions' = Sessions
  BY WorldKept
<1> QED
  BY <1>1, <1>2 DEF HeldBy

\* The members of a set hold no more than before.
LEMMA FewerHeld ==
  ASSUME Good, Good', world' = world, NEW C \in SUBSET Sessions, NEW r \in Units,
         \A o \in C : held'[o][r] <= held[o][r]
  PROVE  HeldBy(C, r) \in Int /\ (HeldBy(C, r))' \in Int /\ (HeldBy(C, r))' <= HeldBy(C, r)
<1> DEFINE f == [o \in Sessions |-> held[o][r]]
           g == [o \in Sessions |-> held'[o][r]]
<1>1. /\ IsFiniteSet(C) /\ HeldBy(C, r) = SumFunctionOnSet(f, C) /\ (HeldBy(C, r))' = SumFunctionOnSet(g, C)
  BY HeldBySum
<1>2. held' \in [Sessions' -> [Units -> Int]] /\ Sessions' = Sessions
  BY WorldKept DEF Good, Typed
<1>3. \A o \in C : f[o] \in Int /\ g[o] \in Int /\ g[o] <= f[o]
  BY <1>2, HeldIsNat
<1> HIDE DEF f, g
<1>4. SumFunctionOnSet(g, C) <= SumFunctionOnSet(f, C) /\ SumFunctionOnSet(g, C) \in Int /\ SumFunctionOnSet(f, C) \in Int
  BY <1>1, <1>3, SumAtMost, SumType
<1> QED
  BY <1>1, <1>4

\* Who is stuck after a step that made nobody wait was stuck before.
LEMMA CalmStuck ==
  ASSUME Good, Good', world' = world, NEW C \in SUBSET Sessions, \A x \in C : Calmer(x), (Stuck(C))'
  PROVE  Stuck(C) /\ \A x \in C : pend'[x].flag = pend[x].flag
<1>1. C # {} /\ \A x \in C : (StuckIn(x, C))'
  BY StuckEach DEF Stuck, StuckIn
<1>2. ASSUME NEW x \in C
      PROVE  pend'[x].mode \in Standstill
  <2>1. (StuckIn(x, C))'
    BY <1>1
  <2>2. (StuckIn(x, C))' => pend'[x].mode = "waiting" \/ pend'[x].mode = "join"
    BY DEF StuckIn, Waiting
  <2> QED
    BY <2>1, <2>2 DEF Standstill
<1>3. \A x \in C : /\ pend'[x].mode = pend[x].mode /\ pend'[x].want = pend[x].want
                   /\ pend'[x].gang = pend[x].gang /\ pend'[x].flag = pend[x].flag
                   /\ \A r \in Units : held'[x][r] <= held[x][r]
                   /\ prog'[x].life = "active" => prog[x].life = "active"
  BY <1>2 DEF Calmer
<1>4. ASSUME NEW x \in C
      PROVE  StuckIn(x, C)
  <2>1. (StuckIn(x, C))'
    BY <1>1
  <2>2. pend'[x].mode = pend[x].mode /\ pend'[x].want = pend[x].want /\ pend'[x].gang = pend[x].gang
    BY <1>3
  <2>3. CASE pend[x].mode = "join"
    <3>1. \E c \in Kids(x) \cap C : prog'[c].life = "active"
      <4>1. (Kids(x))' = Kids(x)
        BY WorldKept
      <4> QED
        BY <2>1, <2>2, <2>3, <4>1 DEF StuckIn, Waiting, Active
    <3> QED
      BY <1>3, <2>3, <3>1 DEF StuckIn, Active
  <2>4. CASE pend[x].mode # "join"
    <3>1. PICK r \in Units : r = pend[x].want[1]
      BY <2>1, <2>2, <2>4 DEF StuckIn, Waiting
    <3>2. pend[x].mode = "waiting" /\ ~pend[x].gang /\ world.cap[r] - (HeldBy(C, r))' < pend[x].want[2]
      BY <2>1, <2>2, <2>4, <3>1 DEF StuckIn, Waiting
    <3>3. HeldBy(C, r) \in Int /\ (HeldBy(C, r))' \in Int /\ (HeldBy(C, r))' <= HeldBy(C, r)
      BY <1>3, FewerHeld
    <3>4. world.cap[r] \in Int /\ pend[x].want[2] \in Int
      <4>1. x \in Waiters(r)
        BY <3>1, <3>2 DEF Waiters, Waiting
      <4> QED
        BY <4>1, CapIs, WaiterIs
    <3>5. world.cap[r] - HeldBy(C, r) < pend[x].want[2]
      BY <3>2, <3>3, <3>4
    <3> QED
      BY <3>1, <3>2, <3>5 DEF StuckIn, Waiting
  <2> QED
    BY <2>3, <2>4
<1> QED
  BY <1>1, <1>3, <1>4, StuckEach

\* Nobody asks for more than there is, by itself.
DemandsFit == Modest /\ \A s \in Sessions : world.gb[s] <= world.cap["mem"]

\* A session that still misses units of a resource has none of them.
LEMMA MissingUnheld ==
  ASSUME Good, Exact, Top("try"), NEW s, s = Head(stack).s, NEW r \in Missing(s)
  PROVE  held[s][r] = 0
<1> DEFINE p == pend[s]
           c == ClearsIn(Tail(stack), s)
<1>1. s \in Sessions /\ p \in PendRec /\ At(s, {"try"}, c) /\ SandboxOf(prog[s], c)
      /\ \A u \in Units : CountOf(p, prog[s], held[s][u], 0, u)
  BY CallCounts DEF ThreadOps, At
<1>2. r \in Units /\ Needs(s, r) > 0 /\ r \notin Taken(s)
  BY DEF Missing
<1>3. p.own[r] = 0 /\ p.step.loc \in Nat /\ prog[s].holds[r] \in Nat
  <2>1. p.own = Nothing
    BY <1>1 DEF At, FlowOf, OpFlow
  <2> QED
    BY <1>1, <1>2, <2>1, BagOf, PendIs, StepIs, ProgIs, Data DEF Bags
<1>4. prog[s].holds[r] = 0
  <2>1. CASE r \in {"slots", "mem"}
    BY <1>2, <2>1 DEF Needs
  <2>2. CASE r = "cpu"
    <3>1. prog[s].holds["mem"] = 0 /\ p.step.loc > 0
      BY <1>2, <2>2 DEF Needs
    <3>2. "cpu" \notin c
      <4>1. "cpu" \in c => Vacant(p, {"try"}, "cpu")
        BY <1>1 DEF At
      <4> QED
        BY <1>3, <3>1, <4>1 DEF Vacant
    <3> QED
      BY <1>1, <2>2, <3>1, <3>2 DEF SandboxOf
  <2>3. CASE r \in {"ext", "ret"}
    <3>1. prog[s].holds[r] <= p.own[r] + 0
      BY <1>1, <1>2, <2>3 DEF CountOf
    <3> QED
      BY <1>3, <3>1
  <2> QED
    BY <1>2, <2>1, <2>2, <2>3, UnitsAre
<1>5. Amount(p.part, r) = 0
  <2>1. p.part \in Parts /\ \A i \in DOMAIN p.part : p.part[i][1] # r
    BY <1>1, <1>2, PendIs DEF Taken
  <2> QED
    BY <1>2, <2>1, AmountNone
<1>6. CountOf(p, prog[s], held[s][r], 0, r)
  BY <1>1, <1>2
<1> QED
  BY <1>4, <1>5, <1>6 DEF CountOf

LEMMA MissingFits ==
  ASSUME Good, Exact, DemandsFit, Top("try"), NEW s, s = Head(stack).s, NEW r \in Missing(s)
  PROVE  r \in Units /\ Needs(s, r) \in Nat /\ Needs(s, r) <= world.cap[r]
<1>1. s \in Sessions /\ pend[s] \in PendRec /\ MildSteps(pend[s])
  BY CallCounts DEF ThreadOps, At
<1>2. r \in Units
  BY DEF Missing
<1>3. Needs(s, r) \in Nat /\ world.cap[r] \in Nat /\ world.cap[r] > 0
  BY <1>1, <1>2, NeedsIs, CapIs
<1>4. CASE r \in {"slots", "cpu", "ret"}
  <2>1. Needs(s, r) \in {0, 1}
    BY <1>4 DEF Needs
  <2> QED
    BY <1>2, <1>3, <2>1
<1>5. CASE r = "mem"
  <2>1. Needs(s, r) \in {0, world.gb[s]} /\ world.gb[s] <= world.cap["mem"]
    BY <1>1, <1>5 DEF Needs, DemandsFit
  <2> QED
    BY <1>2, <1>3, <1>5, <2>1
<1>6. CASE r = "ext"
  <2>1. Needs(s, r) = pend[s].step.ext
    BY <1>6 DEF Needs
  <2>2. Needs(s, r) = 0 \/ Needs(s, r) <= world.cap["ext"]
    BY <1>1, <2>1 DEF MildSteps, Meek, DemandsFit
  <2> QED
    BY <1>2, <1>3, <1>6, <2>2
<1> QED
  BY <1>2, <1>4, <1>5, <1>6, UnitsAre

LEMMA DemandsKept ==
  ASSUME DemandsFit, world' = world
  PROVE  DemandsFit'
BY WorldKept DEF DemandsFit, Modest

\* Of a set closed under waiting, the part in C holds all that C holds of
\* what a member waits for.
LEMMA HeldWithin ==
  ASSUME Good, NEW C \in SUBSET Sessions, NEW D, NEW r \in Units, \A h \in C : held[h][r] > 0 => h \in D
  PROVE  HeldBy(C \cap D, r) = HeldBy(C, r)
<1> DEFINE f == [o \in Sessions |-> held[o][r]]
<1>1. IsFiniteSet(C) /\ \A x \in C : f[x] \in Int /\ f[x] = IF x \in D THEN f[x] ELSE 0
  <2>1. IsFiniteSet(C)
    BY Data, SessionsFinite, FS_Subset
  <2>2. \A x \in C : held[x][r] \in Nat
    BY HeldIsNat
  <2> QED
    BY <2>1, <2>2
<1>2. HeldBy(C \cap D, r) = SumFunctionOnSet(f, C \cap D) /\ HeldBy(C, r) = SumFunctionOnSet(f, C)
  BY DEF HeldBy
<1> HIDE DEF f
<1>3. SumFunctionOnSet(f, C) = SumFunctionOnSet(f, C \cap D)
  BY <1>1, SumMask
<1> QED
  BY <1>2, <1>3

\* A set that holds units has a member that does.
LEMMA SomebodyHolds ==
  ASSUME Good, NEW C \in SUBSET Sessions, NEW r \in Units, HeldBy(C, r) > 0
  PROVE  \E h \in C : held[h][r] > 0
<1> SUFFICES ASSUME \A h \in C : ~(held[h][r] > 0) PROVE FALSE
  OBVIOUS
<1> DEFINE f == [o \in Sessions |-> held[o][r]]
<1>1. IsFiniteSet(C) /\ \A x \in C : f[x] = 0
  <2>1. IsFiniteSet(C)
    BY Data, SessionsFinite, FS_Subset
  <2>2. \A x \in C : held[x][r] \in Nat
    BY HeldIsNat
  <2> QED
    BY <2>1, <2>2
<1>2. HeldBy(C, r) = SumFunctionOnSet(f, C)
  BY DEF HeldBy
<1> HIDE DEF f
<1> QED
  BY <1>1, <1>2, SumZero

\* A stuck set of sessions, cut down to those that one of them waits for.
LEMMA CutStuck ==
  ASSUME Good, NEW C \in SUBSET Sessions, NEW D, C \cap D # {}, \A x \in C \cap D : StuckIn(x, C) /\ Blocks(x) \subseteq D
  PROVE  Stuck(C \cap D)
<1> SUFFICES ASSUME NEW x \in C \cap D PROVE StuckIn(x, C \cap D)
  BY StuckEach
<1>1. StuckIn(x, C) /\ Blocks(x) \subseteq D
  OBVIOUS
<1>2. CASE pend[x].mode = "join"
  <2>1. PICK c \in Kids(x) \cap C : Active(c)
    BY <1>1, <1>2 DEF StuckIn, Waiting
  <2>2. c \in Blocks(x)
    BY <1>2, <2>1 DEF Blocks, Waiting
  <2> QED
    BY <1>1, <1>2, <2>1, <2>2 DEF StuckIn
<1>3. CASE pend[x].mode # "join"
  <2>1. PICK r \in Units : r = pend[x].want[1]
    BY <1>1, <1>3 DEF StuckIn
  <2>2. Waiting(x) /\ ~pend[x].gang /\ world.cap[r] - HeldBy(C, r) < pend[x].want[2]
    BY <1>1, <1>3, <2>1 DEF StuckIn
  <2>3. \A h \in C : held[h][r] > 0 => h \in D
    <3> SUFFICES ASSUME NEW h \in C, held[h][r] > 0, h # x PROVE h \in D
      OBVIOUS
    <3>1. h \in Blocks(x)
      BY <2>1, <2>2 DEF Blocks
    <3> QED
      BY <1>1, <3>1
  <2>4. HeldBy(C \cap D, r) = HeldBy(C, r)
    BY <2>3, HeldWithin
  <2> QED
    BY <2>1, <2>2, <2>4 DEF StuckIn
<1> QED
  BY <1>2, <1>3

LEMMA StuckSame ==
  ASSUME NEW C, NEW x, pend'[x] = pend[x], world' = world, prog' = prog,
         \A u \in Units : (HeldBy(C, u))' = HeldBy(C, u), (StuckIn(x, C))'
  PROVE  StuckIn(x, C)
<1>1. CASE pend[x].mode = "join"
  <2>1. \E c \in Kids(x) \cap C : prog'[c].life = "active"
    <3>1. (Kids(x))' = Kids(x)
      BY WorldKept
    <3> QED
      BY <1>1, <3>1 DEF StuckIn, Waiting, Active
  <2> QED
    BY <1>1, <2>1 DEF StuckIn, Active
<1>2. CASE pend[x].mode # "join"
  <2>1. PICK u \in Units : u = pend[x].want[1]
    BY <1>2 DEF StuckIn
  <2>2. pend[x].mode = "waiting" /\ ~pend[x].gang /\ world.cap[u] - (HeldBy(C, u))' < pend[x].want[2]
    BY <1>2, <2>1 DEF StuckIn, Waiting
  <2> QED
    BY <2>1, <2>2 DEF StuckIn, Waiting
<1> QED
  BY <1>1, <1>2

\* A wait that closes no cycle leaves the others behind it, who were stuck
\* without it.
LEMMA WaitStuck ==
  ASSUME Good, Good', Exact, Detected, DemandsFit, Top("try"), NEW s, s = Head(stack).s,
         NEW r \in Missing(s), Wait(s, r, Needs(s, r), FALSE), ~InWaitCycle(s, r),
         NEW C \in SUBSET Sessions, s \in C, \A x \in C : (StuckIn(x, C))'
  PROVE  \E x \in C : pend'[x].flag
<1> DEFINE n == Needs(s, r)
<1>1. s \in Sessions /\ r \in Units /\ n \in Nat /\ n <= world.cap[r] /\ held[s][r] = 0
  BY MissingUnheld, MissingFits
<1> HIDE DEF n
<1>2. /\ pend'[s].mode = "waiting" /\ pend'[s].want = <<r, n>> /\ pend'[s].gang = FALSE
      /\ \A o \in Sessions : o # s => pend'[o] = pend[o]
      /\ UNCHANGED <<world, prog, held, lease, kv, aimd>>
  BY <1>1, WaitMakes DEF n
<1>3. \A u \in Units : (HeldBy(C, u))' = HeldBy(C, u)
  BY <1>2, HeldBySum
<1>4. HeldBy(C, r) > 0
  <2>1. world.cap[r] - (HeldBy(C, r))' < n
    <3>1. (StuckIn(s, C))'
      OBVIOUS
    <3>2. pend'[s].want[1] = r /\ pend'[s].want[2] = n /\ pend'[s].mode # "join"
      BY <1>2
    <3> QED
      BY <1>2, <3>1, <3>2 DEF StuckIn
  <2>2. HeldBy(C, r) \in Nat /\ world.cap[r] \in Nat
    BY <1>1, UsedIs, CapIs
  <2> QED
    BY <1>1, <1>3, <2>1, <2>2
<1>5. PICK h \in C : held[h][r] > 0
  BY <1>1, <1>4, SomebodyHolds
<1>6. h \in Sessions \ {s}
  BY <1>1, <1>5
<1> DEFINE next(x) == IF x = s THEN {k \in Sessions \ {s} : r \in Units /\ held[k][r] > 0} ELSE Blocks(x)
<1>7. PICK D \in SUBSET Sessions : next(s) \subseteq D /\ (\A x \in D : next(x) \subseteq D) /\ s \notin D
  BY DEF InWaitCycle
<1>8. h \in C \cap D
  BY <1>1, <1>5, <1>6, <1>7
<1>9. ASSUME NEW x \in C \cap D
      PROVE  StuckIn(x, C) /\ Blocks(x) \subseteq D
  <2>1. x # s /\ pend'[x] = pend[x]
    BY <1>2, <1>7
  <2>2. Blocks(x) \subseteq D
    BY <1>7, <2>1
  <2>3. (StuckIn(x, C))'
    OBVIOUS
  <2> QED
    BY <1>2, <1>3, <2>1, <2>2, <2>3, StuckSame
<1>10. Stuck(C \cap D)
  BY <1>8, <1>9, CutStuck
<1>11. PICK y \in C \cap D : pend[y].flag
  BY <1>10 DEF Detected
<1>12. pend'[y] = pend[y]
  BY <1>2, <1>7, <1>11
<1> QED
  BY <1>11, <1>12

LEMMA CalmDetected ==
  ASSUME Good, Good', Detected, world' = world, NEW C \in SUBSET Sessions, \A x \in C : Calmer(x), (Stuck(C))'
  PROVE  \E x \in C : pend'[x].flag
<1>1. Stuck(C) /\ \A x \in C : pend'[x].flag = pend[x].flag
  BY CalmStuck
<1> QED
  BY <1>1 DEF Detected

LEMMA WaitDetected ==
  ASSUME Good, Good', Exact, Detected, DemandsFit, Top("try"), NEW s, s = Head(stack).s,
         NEW r, NEW n, NEW gang, Waits(s, r, n, gang), NEW C \in SUBSET Sessions, (Stuck(C))'
  PROVE  \E x \in C : pend'[x].flag
<1>1. s \in Sessions
  BY CallerMode DEF ThreadOps
<1>2. Wait(s, r, n, gang) /\ r \in Units \cup {"kv"} /\ gang \in BOOLEAN
      /\ (r \in Units /\ ~gang => r \in Missing(s) /\ n = Needs(s, r))
  BY DEF Waits
<1>3. /\ pend'[s].mode = "waiting" /\ pend'[s].want = <<r, n>> /\ pend'[s].gang = gang
      /\ pend'[s].flag = (~gang /\ InWaitCycle(s, r))
      /\ \A o \in Sessions : o # s => pend'[o] = pend[o]
      /\ UNCHANGED <<world, prog, held, lease, kv, aimd>>
  BY <1>1, <1>2, WaitMakes
<1>4. \A x \in C : (StuckIn(x, C))'
  BY StuckEach DEF Stuck, StuckIn
<1>5. CASE s \notin C
  <2>1. \A x \in C : Calmer(x)
    BY <1>3, <1>5, CalmLeft
  <2> QED
    BY <1>3, <2>1, CalmDetected
<1>6. CASE s \in C
  <2>1. r \in Units /\ ~gang
    <3>1. (StuckIn(s, C))'
      BY <1>4, <1>6
    <3>2. pend'[s].want[1] = r /\ pend'[s].mode # "join"
      BY <1>3
    <3> QED
      BY <1>3, <3>1, <3>2 DEF StuckIn
  <2>2. CASE InWaitCycle(s, r)
    BY <1>3, <1>6, <2>1, <2>2
  <2>3. CASE ~InWaitCycle(s, r)
    <3>1. r \in Missing(s) /\ Wait(s, r, Needs(s, r), FALSE)
      BY <1>2, <2>1
    <3> QED
      BY <1>4, <1>6, <2>3, <3>1, WaitStuck
  <2> QED
    BY <2>2, <2>3
<1> QED
  BY <1>5, <1>6

\* An orchestrator whose children have not begun is not stuck.
LEMMA SpawnDetected ==
  ASSUME Good, Good', Detected, Spawn, NEW s, s = Head(stack).s, NEW C \in SUBSET Sessions, (Stuck(C))'
  PROVE  \E x \in C : pend'[x].flag
<1> DEFINE k == Len(SetToSeq(Kids(s)))
<1>1. /\ s \in Sessions /\ Kids(s) \subseteq Sessions /\ s \notin Kids(s)
      /\ \A c \in Kids(s) : prog[c].life = "off"
  BY SpawnAt DEF Spawn
<1>2. /\ prog' = [prog EXCEPT ![s].fanned = TRUE, ![s].joins = k] /\ pend' = [pend EXCEPT ![s] = NoPending("join")]
      /\ held' = held /\ world' = world
  BY DEF Spawn
<1> HIDE DEF k
<1>3. pend'[s] = NoPending("join") /\ \A o \in Sessions : o # s => pend'[o] = pend[o] /\ prog'[o] = prog[o]
  BY <1>1, <1>2, Data
<1>4. s \notin C
  <2> SUFFICES ASSUME s \in C PROVE FALSE
    OBVIOUS
  <2>1. (StuckIn(s, C))'
    BY StuckEach DEF Stuck, StuckIn
  <2>2. pend'[s].mode = "join" /\ (Kids(s))' = Kids(s)
    BY <1>2, <1>3, NoPendingMode, WorldKept
  <2>3. PICK c \in Kids(s) : prog'[c].life = "active"
    BY <2>1, <2>2 DEF StuckIn, Waiting, Active
  <2> QED
    BY <1>1, <1>3, <2>3
<1>5. \A x \in C : Calmer(x)
  BY <1>2, <1>3, <1>4, CalmLeft
<1> QED
  BY <1>2, <1>5, CalmDetected

LEMMA WorldStays ==
  ASSUME [Next]_vars
  PROVE  world' = world
<1>1. CASE Within
  <2>1. ASSUME NEW s, \/ TakeNext(s) \/ TakeNothing(s) \/ TakeSpare(s) \/ AwaitSpare(s) \/ AwaitCache(s)
                     \/ Pause(s) \/ Refuse(s) \/ Throttle(s) \/ Start(s)
        PROVE  world' = world
    BY <2>1, Zenon DEF TakeNext, TakeNothing, TakeSpare, AwaitSpare, AwaitCache, Pause, Refuse, Throttle, Start,
       Take, Wait, Fail, WaitOrFail
  <2>2. CASE TryRun
    BY <2>1, <2>2, Zenon DEF TryRun
  <2>3. CASE Release \/ WakeGang \/ WakeBest
    BY <2>3, Zenon DEF Release, WakeGang, WakeBest, Unwait
  <2>4. CASE ReadyChat \/ React \/ Proceed \/ FetchReturns
    <3>1. ASSUME NEW s, NEW step, NEW rest, Ready(s, step, rest)
          PROVE  world' = world
      BY <3>1 DEF Ready
    <3>2. CASE React
      BY <3>1, <3>2, Zenon DEF React, Retry, Abort, Replan, EndSession
    <3> QED
      BY <2>4, <3>1, <3>2, Zenon DEF ReadyChat, Proceed, FetchReturns
  <2>5. CASE ChatReturns \/ EndRequest
    BY <2>5, Zenon DEF ChatReturns, ChatOver, EndRequest, EndSession
  <2>6. CASE Gone \/ Bury \/ Spawn \/ StartKid \/ JoinPark \/ ToolReturns \/ CallCounted \/ Throttled
    BY <2>6, Zenon DEF Gone, Bury, Spawn, StartKid, JoinPark, ToolReturns, CallCounted, Throttled, Fail
  <2> QED
    BY <1>1, <2>2, <2>3, <2>4, <2>5, <2>6, Zenon DEF Within
<1>2. CASE ~Within
  BY <1>2 DEF Next, Event, vars
<1> QED
  BY <1>1, <1>2

LEMMA DetectedNext ==
  ASSUME Good, Good', Exact, Detected, DemandsFit, [Next]_vars
  PROVE  Detected' /\ DemandsFit'
<1>0. world' = world
  BY WorldStays
<1>1. Sessions' = Sessions /\ DemandsFit'
  BY <1>0, WorldKept, DemandsKept
<1> SUFFICES ASSUME NEW C \in SUBSET Sessions, (Stuck(C))'
             PROVE  \E x \in C : pend'[x].flag
  BY <1>1 DEF Detected
<1>2. CASE Calm
  BY <1>0, <1>2, CalmDetected DEF Calm
<1>3. CASE TryRun
  <2>1. Calm \/ \E r, n, gang : Waits(Head(stack).s, r, n, gang)
    BY <1>3, TryCalm
  <2>2. Top("try")
    BY <1>3 DEF TryRun
  <2> QED
    BY <1>2, <2>1, <2>2, WaitDetected
<1>4. CASE Spawn
  BY <1>4, SpawnDetected
<1>5. CASE Within /\ ~TryRun /\ ~Spawn
  BY <1>2, <1>5, WithinCalm
<1>6. ASSUME NEW s \in Sessions, Event(s) \/ Expire(s)
      PROVE  Calm
  BY <1>6, EventCalm, ExpireCalm
<1>7. CASE UNCHANGED vars
  <2>1. held' = held /\ pend' = pend /\ prog' = prog
    BY <1>7 DEF vars
  <2>2. Calm
    BY <2>1, CalmLeft DEF Calm
  <2> QED
    BY <1>2, <2>2
<1> QED
  BY <1>2, <1>3, <1>4, <1>5, <1>6, <1>7 DEF Next

LEMMA DetectedBegins ==
  ASSUME Init
  PROVE  Detected
<1> SUFFICES ASSUME NEW C \in SUBSET Sessions, Stuck(C) PROVE FALSE
  BY DEF Detected
<1>1. \A s \in Sessions : pend[s].mode = "off"
  BY NoPendingMode DEF Init
<1>2. C # {} /\ \A x \in C : StuckIn(x, C)
  BY StuckEach
<1> QED
  BY <1>1, <1>2 DEF StuckIn, Waiting

LEMMA DetectedFlags == Detected => DeadlockFlagged
BY DEF Detected, DeadlockFlagged

\* Every deadlock is detected, at any point of any handler (_in_wait_cycle):
\* of sessions that only each other could help, at least one has a
\* DEADLOCK_BREAK scheduled, as long as no step asks by itself for more than
\* there is and the accounts are exact, as in HoldsAreAccounted.
THEOREM NoDeadlockIsMissed == Spec /\ MildTools /\ DemandsFit => []DeadlockFlagged
<1>1. Init => Detected
  BY DetectedBegins
<1>2. Good /\ Good' /\ Exact /\ Detected /\ DemandsFit /\ [Next]_vars => Detected' /\ DemandsFit'
  BY DetectedNext
<1> QED
  BY <1>1, <1>2, AlwaysGood, AlwaysExact, DetectedFlags, PTL DEF Spec
=============================================================================
