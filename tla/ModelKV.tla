------------------------------ MODULE ModelKV ------------------------------
(***************************************************************************)
(* The KV cache of a model endpoint (class ModelPhysics of                 *)
(* agentsim/resources.py): operators on a cache, which gives each session  *)
(* its entry.  An entry is "idle" (a prefix kept for the next chat),       *)
(* "active" (a request that is being prefilled) or "decode" (a request     *)
(* that is generating); its tokens occupy the cache in all three.          *)
(*                                                                         *)
(* Abstracted: rates and durations; when an idle entry's retention ends    *)
(* (any time) and the order in which entries are evicted under pressure    *)
(* (evict_key and progress: any order), so an operation that may evict     *)
(* yields the set of its possible outcomes.                                *)
(***************************************************************************)
EXTENDS Integers, FiniteSets, Functions

NoEntry == [at |-> "none", tok |-> 0]
Entry(at, tok) == [at |-> at, tok |-> tok]

In(cache, places) == {s \in DOMAIN cache : cache[s].at \in places}
Tokens(cache, S) == SumFunctionOnSet([s \in DOMAIN cache |-> cache[s].tok], S)

Occupied(cache) == Tokens(cache, DOMAIN cache)

\* active_tokens: what cannot be reclaimed without hurting a running request.
ActiveTokens(cache) == Tokens(cache, In(cache, {"active", "decode"}))

\* fits: admission looks at active state only; idle prefixes make way.
RoomFor(cache, size, need) == ActiveTokens(cache) + need <= size

\* miss_tokens: nothing is reused of an expired entry or of one that is
\* longer than the (compacted) context.
Misses(cache, s, context) ==
  {context} \cup IF cache[s].at # "none" /\ cache[s].tok <= context
                 THEN {context - cache[s].tok} ELSE {}

Freed(cache, S) == [s \in DOMAIN cache |-> IF s \in S THEN NoEntry ELSE cache[s]]

\* Sets of entries of `places` that, removed one after another until `need`
\* tokens are free, may be the ones to go.
Removed(cache, size, need, places) ==
  LET enough(S) == size - Occupied(Freed(cache, S)) >= need
      cands == In(cache, places)
  IN  IF enough({}) THEN {{}}
      ELSE IF ~enough(cands) THEN {cands}
      ELSE {S \in SUBSET cands : enough(S) /\ \E s \in S : ~enough(S \ {s})}

\* A plausible bug: begin_decode takes the room without making it.
NoRoomMade(cache, size, need) == {[cache |-> cache, victims |-> {}]}

(***************************************************************************)
(* _make_room: idle entries go first, then decoding requests; what it      *)
(* yields is a set of [cache, victims], empty if there is no room even so  *)
(* (the code raises).  The entry of `keep` is never idle here: begin_      *)
(* prefill hands in a cache in which it is claimed.                        *)
(***************************************************************************)
MakeRoom(cache, size, need) ==
  UNION {LET c == Freed(cache, idle) IN
         {[cache |-> Freed(c, victims), victims |-> victims] :
            victims \in {V \in Removed(c, size, need, {"decode"}) :
                           size - Occupied(Freed(c, V)) >= need}} :
         idle \in Removed(cache, size, need, {"idle"})}

\* begin_prefill: the missing tokens are added to the reused prefix, if any.
BeginPrefill(cache, size, s, context) ==
  UNION {LET reused == IF miss = context THEN 0 ELSE cache[s].tok
             room == MakeRoom([cache EXCEPT ![s] = Entry("active", reused)], size, miss)
         IN  {[o EXCEPT !.cache[s] = Entry("active", reused + miss)] : o \in room} :
         miss \in Misses(cache, s, context)}

\* begin_decode: the answer's tokens are claimed at once.
BeginDecode(cache, size, s, out) ==
  {[o EXCEPT !.cache[s] = Entry("decode", cache[s].tok + out)] : o \in MakeRoom(cache, size, out)}

\* end_decode: the prefix stays, idle; drop: nothing stays.
EndDecode(cache, s) == [cache EXCEPT ![s].at = "idle"]
Drop(cache, s) == [cache EXCEPT ![s] = NoEntry]
=============================================================================
