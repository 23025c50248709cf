----------------------------- MODULE Pacing_proofs -----------------------------
(***************************************************************************)
(* What Pacing promises, for all programs, capacities, prices and policy   *)
(* parameters.  Two invariants carry it:                                   *)
(*                                                                         *)
(*   NeverRefused  pacing only says yes to what the purse holds, floor or  *)
(*                 no floor; and as long as the collision rate is unknown  *)
(*                 the margin is two units a call, which is what n calls   *)
(*                 may cost at most.                                       *)
(*   Promises      a step that was told to wait, and has seen nothing but  *)
(*                 time since, finds in the bucket, once its wait is over, *)
(*                 what it was refused for: what is there plus what the    *)
(*                 wait brings is enough, and stays enough while time      *)
(*                 passes, since leases only run out meanwhile.            *)
(***************************************************************************)
EXTENDS Pacing, FiniteSums

-----------------------------------------------------------------------------
(* Types. *)

Places == {"asking", "running", "gone"}
Kinds == {"calls", "tokens", "usd"}
CallLease == {L!NoLease} \cup {L!Lease(1, 0, l) : l \in 1 .. Horizon}
Ledgers == [{"calls"} -> [Sessions -> CallLease]]

Bounded ==
  /\ level \in Int /\ level <= Rpm
  /\ tok \in Int /\ tok <= TokCap
  /\ usd \in Int /\ usd <= UsdCap
  /\ seen \in Nat /\ hit \in Nat /\ floor \in Nat /\ refused \in BOOLEAN
  /\ denied \in SUBSET Kinds
Placed ==
  /\ at \in [Sessions -> Nat \ {0}] /\ pc \in [Sessions -> Places]
  /\ wait \in [Sessions -> Nat] /\ tries \in [Sessions -> 0 .. SdkRetries] /\ polls \in [Sessions -> Nat]
  /\ \A s \in Sessions : pc[s] # "gone" => Known(s, at[s])
Typed == world \in Worlds /\ ledger \in Ledgers /\ Bounded /\ Placed

LEMMA Constants ==
  /\ IsFiniteSet(Sessions)
  /\ Rpm \in Nat /\ PauseAt \in Nat /\ PauseAt < Rpm /\ Horizon \in Nat /\ Horizon > 0
  /\ Warm \in Nat /\ Warm > 0 /\ Tau \in Nat /\ Tau > 0
  /\ TokCap \in Nat /\ TokRefill \in Nat /\ TokRefill > 0 /\ Headroom \in Nat
  /\ UsdCap \in Nat /\ UsdRefill \in Nat /\ UsdRefill > 0 /\ UsdPause \in Nat
  /\ SdkRetries \in Nat /\ RetryCap \in Nat /\ RetryCap > 0
BY PacingAssumption

LEMMA StepIs ==
  ASSUME Typed, NEW s \in Sessions, pc[s] # "gone"
  PROVE  /\ Step(s).usd \in Nat
         /\ Step(s).kind = "chat" => Step(s).fresh \in Nat /\ Step(s).over \subseteq Int
         /\ Step(s).kind = "tool" => Step(s).n \in Nat /\ Step(s).n > 0
         /\ Step(s).kind \in {"chat", "tool"}
<1>1. world.prog[s] \in Seq(Chats \cup Tools) /\ at[s] \in Nat \ {0} /\ at[s] <= Len(world.prog[s])
  BY PacingAssumption DEF Typed, Placed, IsWorld, Known
<1>2. Step(s) \in Chats \cup Tools
  BY <1>1 DEF Step
<1> QED
  BY <1>2 DEF Chats, Tools

-----------------------------------------------------------------------------
(* Numbers. *)

LEMMA AtLeastIs ==
  ASSUME NEW n \in Int, NEW m \in Int
  PROVE  /\ AtLeast(n, m) \in Int /\ AtLeast(n, m) >= n /\ AtLeast(n, m) >= m /\ AtLeast(n, m) \in {n, m}
         /\ AtMost(n, m) \in Int /\ AtMost(n, m) <= n /\ AtMost(n, m) <= m /\ AtMost(n, m) \in {n, m}
BY DEF AtLeast, AtMost

\* Ceil(a, b) is enough of b to make up a.
LEMMA CeilIs ==
  ASSUME NEW a \in Int, NEW b \in Nat, b > 0
  PROVE  Ceil(a, b) \in Int /\ Ceil(a, b) * b >= a /\ (a >= 0 => Ceil(a, b) >= 0)
<1> DEFINE q == (-a) \div b
<1>1. q \in Int /\ q * b <= -a
  <2>1. -a \in Int
    OBVIOUS
  <2> DEFINE x == -a
  <2> HIDE DEF x
  <2>2. x \in Int => x \div b \in Int /\ (x \div b) * b <= x
    BY SMT
  <2> QED
    BY <2>1, <2>2 DEF x
<1>2. Ceil(a, b) = -q
  BY DEF Ceil
<1> HIDE DEF q
<1>3. (-q) * b = -(q * b)
  BY <1>1
<1>4. a >= 0 => q <= 0
  <2> SUFFICES ASSUME a >= 0, q > 0 PROVE FALSE
    BY <1>1
  <2>1. q * b > 0
    BY <1>1
  <2> QED
    BY <1>1, <2>1
<1> QED
  BY <1>1, <1>2, <1>3, <1>4

\* A set of numbers up to n that holds n has a least element.
LEMMA MinIs ==
  ASSUME NEW n \in Nat, NEW S \in SUBSET (0 .. n), n \in S
  PROVE  Min(S) \in S /\ \A y \in S : Min(S) <= y
<1> DEFINE F == {T \in SUBSET (0 .. n) : T = {} \/ \E m \in T : \A y \in T : m <= y}
<1>1. IsFiniteSet(0 .. n)
  BY FS_Interval
<1>2. {} \in F
  OBVIOUS
<1>3. ASSUME NEW T \in SUBSET (0 .. n), NEW x \in (0 .. n) \ T, T \in F
      PROVE  T \cup {x} \in F
  <2>1. CASE T = {}
    BY <2>1
  <2>2. CASE T # {}
    <3>1. PICK m \in T : \A y \in T : m <= y
      BY <1>3, <2>2
    <3>2. CASE m <= x
      BY <3>1, <3>2
    <3>3. CASE x <= m
      <4>1. \A y \in T \cup {x} : x <= y
        BY <3>1, <3>3
      <4> QED
        BY <4>1
    <3> QED
      BY <3>1, <3>2, <3>3
  <2> QED
    BY <2>1, <2>2
<1> DEFINE D == 0 .. n
<1>4. IsFiniteSet(D) /\ \A T \in SUBSET D : \A x \in D \ T : T \in F => T \cup {x} \in F
  BY <1>1, <1>3
<1> HIDE DEF D, F
<1>5. SUBSET D \subseteq F
  BY <1>2, <1>4, SetInduction
<1>6. S \in F
  BY <1>5 DEF D
<1>7. \E m \in S : \A y \in S : m <= y
  BY <1>6 DEF F
<1> QED
  BY <1>7 DEF Min

-----------------------------------------------------------------------------
(* The margin. *)

\* While the rate is unknown every call is taken to collide.
LEMMA WarmOutcome ==
  ASSUME Typed, seen < Warm, NEW n \in Nat, NEW k \in 0 .. n, Enough(n, k)
  PROVE  k = n
<1>1. Outcomes(n) = [1 .. n -> 1 .. 1]
  BY DEF Outcomes
<1>2. ASSUME NEW f \in Outcomes(n)
      PROVE  Extra(f) = n
  <2>1. DOMAIN f = 1 .. n /\ \A i \in 1 .. n : f[i] = 1
    BY <1>1
  <2>2. {i \in DOMAIN f : f[i] <= 1} = 1 .. n
    BY <2>1
  <2>3. Extra(f) = Cardinality(1 .. n)
    BY <2>2 DEF Extra
  <2> QED
    BY <2>3, FS_Interval
<1>3. Outcomes(n) = {[i \in 1 .. n |-> 1]}
  BY <1>1
<1>4. Cardinality(Outcomes(n)) = 1
  BY <1>3, FS_Singleton
<1> SUFFICES ASSUME k # n PROVE FALSE
  OBVIOUS
<1>5. {f \in Outcomes(n) : Extra(f) <= k} = {}
  BY <1>2
<1>6. Cardinality({f \in Outcomes(n) : Extra(f) <= k}) = 0
  BY <1>5, FS_EmptySet
<1> QED
  BY <1>4, <1>6, Constants DEF Enough

LEMMA MarginIs ==
  ASSUME Typed, NEW n \in Nat
  PROVE  Margin(n) \in Nat /\ Margin(n) >= n /\ (seen < Warm => Margin(n) = 2 * n)
<1> DEFINE S == {k \in 0 .. n : Enough(n, k)} \cup {n}
<1>1. S \in SUBSET (0 .. n) /\ n \in S /\ (seen < Warm => S = {n})
  BY WarmOutcome
<1>2. Margin(n) = n + Min(S)
  BY DEF Margin
<1> HIDE DEF S
<1>3. Min(S) \in S
  BY <1>1, MinIs
<1> DEFINE m == Min(S)
<1>4. m \in 0 .. n /\ (seen < Warm => m = n)
  BY <1>1, <1>3
<1>5. Margin(n) = n + m
  BY <1>2
<1> HIDE DEF m
<1> QED
  BY <1>4, <1>5
-----------------------------------------------------------------------------
(* The ledger. *)

LEMMA CallLeaseIs ==
  ASSUME NEW x \in CallLease
  PROVE  /\ x.amt \in {0, 1} /\ x.wait = 0 /\ x.left \in 0 .. Horizon /\ (x.amt = 0 => x = L!NoLease)
         /\ x.amt = 1 => x = L!Lease(1, 0, x.left) /\ x.left >= 1
<1>1. CASE x = L!NoLease
  BY <1>1, Constants DEF L!NoLease
<1>2. CASE x # L!NoLease
  <2>1. PICK l \in 1 .. Horizon : x = L!Lease(1, 0, l)
    BY <1>2 DEF CallLease
  <2> QED
    BY <2>1, Constants DEF L!Lease
<1> QED
  BY <1>1, <1>2

LEMMA LedgerMoves ==
  ASSUME NEW l \in Ledgers, NEW s \in Sessions
  PROVE  /\ L!EmptyLedger \in Ledgers
         /\ L!Consumed(l, "calls", s) \in Ledgers
         /\ L!SetSession(l, s, <<>>) \in Ledgers
         /\ L!SetSession(l, s, [q \in {"calls"} |-> L!Lease(1, 0, Horizon)]) \in Ledgers
<1>1. L!NoLease \in CallLease /\ L!Lease(1, 0, Horizon) \in CallLease
  BY Constants DEF CallLease
<1>2. l["calls"] \in [Sessions -> CallLease] /\ DOMAIN l = {"calls"}
  BY DEF Ledgers
<1> DEFINE keep == [q \in {"calls"} |-> L!Lease(1, 0, Horizon)]
<1>3. DOMAIN <<>> = {} /\ DOMAIN keep = {"calls"} /\ keep["calls"] = L!Lease(1, 0, Horizon)
  OBVIOUS
<1>4. L!EmptyLedger \in Ledgers
  BY <1>1 DEF L!EmptyLedger, Ledgers
<1>5. L!Consumed(l, "calls", s) \in Ledgers
  BY <1>1, <1>2 DEF L!Consumed, Ledgers
<1>6. L!SetSession(l, s, <<>>) \in Ledgers
  BY <1>1, <1>2, <1>3 DEF L!SetSession, Ledgers
<1> HIDE DEF keep
<1>7. L!SetSession(l, s, keep) \in Ledgers
  BY <1>1, <1>2, <1>3 DEF L!SetSession, Ledgers
<1> QED
  BY <1>4, <1>5, <1>6, <1>7 DEF keep

\* A lease that has aged is the lease, with less time left, or none.
LEMMA AgedIs ==
  ASSUME NEW l \in Ledgers
  PROVE  /\ L!Aged(l) \in Ledgers
         /\ \A r \in Sessions : L!Aged(l)["calls"][r].amt = l["calls"][r].amt \/ L!Aged(l)["calls"][r].amt = 0
<1> DEFINE a == L!Aged(l)
<1>1. DOMAIN a = {"calls"} /\ DOMAIN a["calls"] = Sessions
  BY DEF L!Aged
<1>2. ASSUME NEW r \in Sessions
      PROVE  a["calls"][r] \in CallLease /\ (a["calls"][r].amt = l["calls"][r].amt \/ a["calls"][r].amt = 0)
  <2> DEFINE x == l["calls"][r]
  <2>1. x \in CallLease
    BY DEF Ledgers
  <2>2. a["calls"][r] = IF x.left <= 1 THEN L!NoLease ELSE [[x EXCEPT !.wait = L!Less(x.wait)] EXCEPT !.left = x.left - 1]
    BY DEF L!Aged
  <2> HIDE DEF x, a
  <2>3. CASE x.left <= 1
    BY <2>2, <2>3 DEF CallLease, L!NoLease
  <2>4. CASE ~(x.left <= 1)
    <3>1. x.amt = 1 /\ x = L!Lease(1, 0, x.left) /\ x.left \in 1 .. Horizon
      BY <2>1, <2>4, CallLeaseIs DEF L!NoLease
    <3>2. a["calls"][r] = L!Lease(1, 0, x.left - 1)
      <4> DEFINE k == x.left
      <4> DEFINE y == [x EXCEPT !.wait = L!Less(x.wait)]
      <4>1. k \in Int /\ x = [amt |-> 1, wait |-> 0, left |-> k]
        BY <3>1 DEF L!Lease
      <4>2. a["calls"][r] = [y EXCEPT !.left = k - 1]
        BY <2>2, <2>4
      <4>3. L!Less(x.wait) = 0
        BY <4>1 DEF L!Less
      <4> HIDE DEF k
      <4>4. y = [amt |-> 1, wait |-> 0, left |-> k]
        BY <4>1, <4>3
      <4> HIDE DEF y
      <4>5. [y EXCEPT !.left = k - 1] = [amt |-> 1, wait |-> 0, left |-> k - 1]
        BY <4>4
      <4> QED
        BY <4>2, <4>5 DEF L!Lease, k
    <3>3. x.left - 1 \in 1 .. Horizon
      BY <2>4, <3>1, Constants
    <3>4. a["calls"][r] \in CallLease
      BY <3>2, <3>3 DEF CallLease
    <3>5. a["calls"][r].amt = 1
      BY <3>2 DEF L!Lease
    <3> QED
      BY <3>1, <3>4, <3>5 DEF x
  <2> QED
    BY <2>3, <2>4 DEF x
<1> HIDE DEF a
<1>3. a = [q \in {"calls"} |-> a[q]] /\ a["calls"] = [r \in Sessions |-> a["calls"][r]]
  BY <1>1 DEF a, L!Aged
<1>4. a \in Ledgers
  BY <1>2, <1>3 DEF Ledgers
<1> QED
  BY <1>2, <1>4 DEF a

\* The units that are kept from s.
KeptFrom(l, s) ==
  UNION {{o} \X (([r \in Sessions |-> 0][o] + 1) .. l["calls"][o].amt) : o \in L!ActiveAt(l, "calls", 0) \cap (Sessions \ {s})}

LEMMA KeptFromIs ==
  ASSUME NEW l \in Ledgers, NEW s \in Sessions
  PROVE  KeptFrom(l, s) = {<<o, 1>> : o \in {r \in Sessions \ {s} : l["calls"][r].amt = 1}}
<1>1. ASSUME NEW r \in Sessions
      PROVE  r \in L!ActiveAt(l, "calls", 0) <=> l["calls"][r].amt = 1
  <2> DEFINE x == l["calls"][r]
  <2>1. x \in CallLease
    BY DEF Ledgers
  <2> HIDE DEF x
  <2>2. x.amt \in {0, 1} /\ x.wait = 0 /\ (x.amt = 1 => x.left >= 1) /\ x.left \in Int
    BY <2>1, CallLeaseIs
  <2>3. (x.amt > 0 /\ x.wait <= 0 /\ 0 < x.left) <=> x.amt = 1
    BY <2>2
  <2> QED
    BY <2>3 DEF L!ActiveAt, x
<1>2. L!ActiveAt(l, "calls", 0) \cap (Sessions \ {s}) = {r \in Sessions \ {s} : l["calls"][r].amt = 1}
  BY <1>1 DEF L!ActiveAt
<1> DEFINE A == {r \in Sessions \ {s} : l["calls"][r].amt = 1}
<1>3. KeptFrom(l, s) = UNION {{o} \X (([r \in Sessions |-> 0][o] + 1) .. l["calls"][o].amt) : o \in A}
  BY <1>2 DEF KeptFrom
<1>4. ASSUME NEW o \in A
      PROVE  {o} \X (([r \in Sessions |-> 0][o] + 1) .. l["calls"][o].amt) = {<<o, 1>>}
  <2>1. ([r \in Sessions |-> 0][o] + 1) .. l["calls"][o].amt = {1}
    <3>1. [r \in Sessions |-> 0][o] = 0 /\ l["calls"][o].amt = 1
      OBVIOUS
    <3>2. (0 + 1) .. 1 = {1}
      OBVIOUS
    <3> QED
      BY <3>1, <3>2
  <2> QED
    BY <2>1
<1> HIDE DEF A
<1>5. KeptFrom(l, s) = UNION {{<<o, 1>>} : o \in A}
  BY <1>3, <1>4
<1> QED
  BY <1>5 DEF A

ReservedIsKept == \A x \in Sessions : Reserved(x) = Cardinality(KeptFrom(ledger, x))

LEMMA ReservedOf == ReservedIsKept
<1> SUFFICES ASSUME NEW s \in Sessions PROVE Reserved(s) = Cardinality(KeptFrom(ledger, s))
  BY DEF ReservedIsKept
<1> DEFINE free == [r \in Sessions |-> 0]
<1>1. Reserved(s) = L!Unconsumed(ledger, "calls", Sessions \ {s}, free)
  BY DEF Reserved, L!ReservedForOthers
<1>2. L!Unconsumed(ledger, "calls", Sessions \ {s}, free) = L!Cardinality(KeptFrom(ledger, s))
  BY Zenon DEF L!Unconsumed, KeptFrom
<1>3. \A S : L!Cardinality(S) = Cardinality(S)
  BY Zenon DEF L!Cardinality, Cardinality
<1> QED
  BY <1>1, <1>2, <1>3

LEMMA KeptFromNat ==
  ASSUME NEW l \in Ledgers, NEW s \in Sessions
  PROVE  IsFiniteSet(KeptFrom(l, s)) /\ Cardinality(KeptFrom(l, s)) \in Nat
<1> DEFINE A == {r \in Sessions \ {s} : l["calls"][r].amt = 1}
           one == {1}
<1>1. IsFiniteSet(A) /\ IsFiniteSet(one)
  BY Constants, FS_Subset, FS_Singleton
<1> HIDE DEF A
<1>2. IsFiniteSet(A \X one)
  BY <1>1, FS_Product
<1>3. KeptFrom(l, s) \subseteq A \X one
  BY KeptFromIs DEF A
<1>4. IsFiniteSet(KeptFrom(l, s))
  BY <1>2, <1>3, FS_Subset
<1> QED
  BY <1>4, FS_CardinalityType

LEMMA ReservedIs ==
  ASSUME Typed, NEW s \in Sessions
  PROVE  Reserved(s) \in Nat
BY ReservedOf, KeptFromNat DEF Typed, ReservedIsKept

LEMMA ReservedNext ==
  ASSUME NEW s \in Sessions
  PROVE  Reserved(s)' = Cardinality(KeptFrom(ledger', s))
<1>1. ReservedIsKept'
  BY ReservedOf, PTL
<1>2. (Reserved(s) = Cardinality(KeptFrom(ledger, s)))'
  BY <1>1 DEF ReservedIsKept
<1>3. (Cardinality(KeptFrom(ledger, s)))' = Cardinality(KeptFrom(ledger', s))
  BY DEF KeptFrom, L!ActiveAt
<1> QED
  BY <1>2, <1>3

\* What is kept from s only falls while leases age.
LEMMA ReservedFalls ==
  ASSUME Typed, NEW s \in Sessions, ledger' = L!Aged(ledger)
  PROVE  Reserved(s)' <= Reserved(s) /\ Reserved(s)' \in Nat
<1> DEFINE l == ledger
           m == L!Aged(ledger)
<1>1. l \in Ledgers /\ m \in Ledgers /\ \A r \in Sessions : m["calls"][r].amt = 1 => l["calls"][r].amt = 1
  <2>1. l \in Ledgers
    BY DEF Typed
  <2> QED
    BY <2>1, AgedIs
<1>2. KeptFrom(m, s) \subseteq KeptFrom(l, s)
  <2> HIDE DEF l, m
  <2> QED BY <1>1, KeptFromIs
<1>3. Reserved(s) = Cardinality(KeptFrom(l, s))
  BY ReservedOf DEF ReservedIsKept
<1>4. Reserved(s)' = Cardinality(KeptFrom(m, s))
  BY ReservedNext
<1> HIDE DEF l, m
<1> QED
  BY <1>1, <1>2, <1>3, <1>4, KeptFromNat, FS_Subset
-----------------------------------------------------------------------------
(* What a counted wait promises. *)

\* A call of n told to wait by its reserving policy finds its margin, and what
\* is reserved for others, in the bucket when it asks again.
LeaseWaits(s, n) ==
  /\ polls[s] <= 1
  /\ Margin(n) + Reserved(s) <= Rpm
  /\ level + wait[s] >= Margin(n) + Reserved(s)

\* One told to wait by the gate finds the pause level reached, then passed.
GateWaits(s) ==
  /\ Policy = "gate" /\ polls[s] <= 2
  /\ level + wait[s] >= PauseAt + polls[s] - 1

\* A chat told to wait for its tokens finds them.
TokenWaits(s, fresh) ==
  /\ polls[s] <= 1
  /\ fresh + Kept <= TokCap
  /\ tok + wait[s] * TokRefill >= fresh + Kept

CallWaits(s, n) == level >= 0 /\ IF Reserving THEN LeaseWaits(s, n) ELSE GateWaits(s)

Promised(s) ==
  polls[s] > 0 =>
    /\ pc[s] = "asking"
    /\ \A n \in Nat : Step(s).kind = "tool" /\ Step(s).n = n => CallWaits(s, n)
    /\ \A fresh \in Nat : Step(s).kind = "chat" /\ Step(s).fresh = fresh => TokenWaits(s, fresh)

Promises == \A s \in Sessions : Promised(s)

Safe == Typed /\ Promises /\ NeverRefused
-----------------------------------------------------------------------------
(* What asking comes to. *)

Unmoved == UNCHANGED <<world, floor, at>>

ChatRuns(s) ==
  /\ tok' = tok - Step(s).fresh
  /\ Pay(Step(s).usd)
  /\ Issue(s)
  /\ UNCHANGED <<level, ledger, seen, hit>>

ToolRuns(s, c) ==
  /\ TakeCalls(Step(s).n, c)
  /\ Pay(Step(s).usd)
  /\ ledger' = Spent(s)
  /\ Issue(s)
  /\ UNCHANGED tok

ChatOutcome(s) ==
  \/ Pause(s, UsdRetry(Step(s).usd), FALSE)
  \/ (\E ok \in Admits(s, Step(s).usd) : ok) /\ ~CanPay(Step(s).usd) /\ Refuse(s, "usd")
  \/ ChatRuns(s)
  \/ ~TokensFit(Step(s).fresh) /\ Refuse(s, "tokens")
  \/ ~TokensFit(Step(s).fresh) /\ Pause(s, {TokRetry(Step(s).fresh)}, Step(s).fresh + Kept <= TokCap)

LEMMA ChatOutcomes ==
  ASSUME NEW s \in Sessions, AskChat(s)
  PROVE  Due(s) /\ Step(s).kind = "chat" /\ Unmoved /\ ChatOutcome(s)
<1> DEFINE u == Step(s).usd
           fresh == Step(s).fresh
<1>1. Due(s) /\ Step(s).kind = "chat" /\ Unmoved
  BY DEF AskChat, Unmoved
<1>2. PICK ok \in Admits(s, u) :
        \/ ~ok /\ Pause(s, UsdRetry(u), FALSE)
        \/ ok /\ ~CanPay(u) /\ Refuse(s, "usd")
        \/ ok /\ CanPay(u) /\
             \/ /\ TokensFit(fresh)
                /\ tok' = tok - fresh
                /\ Pay(u)
                /\ Issue(s)
                /\ UNCHANGED <<level, ledger, seen, hit>>
             \/ /\ ~TokensFit(fresh)
                /\ IF Policy = "uncoordinated" THEN Refuse(s, "tokens")
                   ELSE Pause(s, {TokRetry(fresh)}, fresh + Kept <= TokCap)
  BY Zenon DEF AskChat, Budgeted
<1>3. ChatOutcome(s)
  BY Zenon, <1>2 DEF ChatOutcome, ChatRuns
<1> QED
  BY <1>1, <1>3

ToolOutcome(s, c) ==
  \/ ~CanIssue(s, Step(s).n, c) /\ Pause(s, {CallRetry(s, Step(s).n)}, Reachable(s, Step(s).n))
  \/ Pause(s, UsdRetry(Step(s).usd), FALSE)
  \/ (\E ok \in Admits(s, Step(s).usd) : ok) /\ ~CanPay(Step(s).usd) /\ Refuse(s, "usd")
  \/ CanIssue(s, Step(s).n, c) /\ ~CanCall(Dearest(c)) /\ Refuse(s, "calls")
  \/ CanIssue(s, Step(s).n, c) /\ ToolRuns(s, c)

LEMMA ToolOutcomes ==
  ASSUME NEW s \in Sessions, AskTool(s)
  PROVE  /\ Due(s) /\ Step(s).kind = "tool" /\ Unmoved
         /\ \E c \in 0 .. (IF world.background THEN Step(s).n ELSE 0) : ToolOutcome(s, c)
<1> DEFINE u == Step(s).usd
           n == Step(s).n
<1>1. Due(s) /\ Step(s).kind = "tool" /\ Unmoved
  BY DEF AskTool, Unmoved
<1>2. PICK c \in 0 .. (IF world.background THEN n ELSE 0) :
        \/ ~CanIssue(s, n, c) /\ Pause(s, {CallRetry(s, n)}, Reachable(s, n))
        \/ /\ CanIssue(s, n, c)
           /\ Budgeted(s, u,
                \/ ~CanCall(Dearest(c)) /\ Refuse(s, "calls")
                \/ /\ CanCall(Dearest(c))
                   /\ TakeCalls(n, c)
                   /\ Pay(u)
                   /\ ledger' = Spent(s)
                   /\ Issue(s)
                   /\ UNCHANGED tok)
  BY Zenon DEF AskTool
<1>3. ToolOutcome(s, c)
  BY Zenon, <1>2 DEF ToolOutcome, ToolRuns, Budgeted
<1> QED
  BY <1>1, <1>3

-----------------------------------------------------------------------------
(* Waits are numbers of ticks. *)

LEMMA CallRetryIs ==
  ASSUME Typed, NEW s \in Sessions, NEW n \in Nat
  PROVE  /\ CallRetry(s, n) \in Nat
         /\ Reserving => CallRetry(s, n) >= Margin(n) + Reserved(s) - Header
         /\ Policy = "gate" => CallRetry(s, n) >= 1 /\ CallRetry(s, n) >= PauseAt - Header
<1>1. level \in Int /\ Header \in Int /\ Margin(n) \in Nat /\ Reserved(s) \in Nat
  <2>1. level \in Int
    BY DEF Typed, Bounded
  <2>2. Header \in Int
    BY <2>1, AtLeastIs DEF Header
  <2> QED
    BY <2>1, <2>2, MarginIs, ReservedIs
<1>2. LeaseRetry(s, n) \in Nat /\ LeaseRetry(s, n) >= Margin(n) + Reserved(s) - Header
  <2> DEFINE gap == Margin(n) + Reserved(s) - Header
  <2>1. gap \in Int
    BY <1>1
  <2> HIDE DEF gap
  <2>2. AtLeast(1, gap) \in Int /\ AtLeast(1, gap) >= 1 /\ AtLeast(1, gap) >= gap
    BY <2>1, AtLeastIs
  <2> QED
    BY <2>2 DEF LeaseRetry, gap
<1>3. GateRetry \in Nat /\ GateRetry >= 1 /\ GateRetry >= PauseAt - Header
  <2>1. PauseAt - Header \in Int
    BY <1>1, Constants
  <2> QED
    BY <2>1, AtLeastIs DEF GateRetry
<1>4. UnitWait \in Nat
  <2>1. 1 - level \in Int
    BY <1>1
  <2> QED
    BY <2>1, AtLeastIs DEF UnitWait
<1> QED
  BY <1>2, <1>3, <1>4 DEF CallRetry, Reserving

LEMMA KeptIs == Kept \in Nat
BY Constants DEF Kept

LEMMA TokRetryIs ==
  ASSUME Typed, NEW fresh \in Nat
  PROVE  TokRetry(fresh) \in Nat /\ TokRetry(fresh) * TokRefill >= fresh - (tok - Kept)
<1> DEFINE gap == fresh - (tok - Kept)
           n == Ceil(gap, TokRefill)
           r == AtLeast(1, n)
<1>1. gap \in Int
  BY KeptIs DEF Typed, Bounded
<1> HIDE DEF gap
<1>2. n \in Int /\ n * TokRefill >= gap
  BY <1>1, CeilIs, Constants
<1> HIDE DEF n
<1>3. r \in Int /\ r >= 1 /\ r >= n
  BY <1>2, AtLeastIs
<1>4. r = TokRetry(fresh)
  BY DEF r, n, gap, TokRetry
<1> HIDE DEF r
<1>5. r * TokRefill >= n * TokRefill
  BY <1>2, <1>3, Constants
<1> DEFINE x == r * TokRefill
           y == n * TokRefill
<1>6. x \in Int /\ y \in Int /\ x >= y /\ y >= gap
  BY <1>2, <1>3, <1>5, Constants
<1> HIDE DEF x, y
<1>7. x >= gap
  BY <1>1, <1>6
<1> QED
  BY <1>3, <1>4, <1>7 DEF x, gap

LEMMA UsdWaitIs ==
  ASSUME Typed, NEW amount \in Int
  PROVE  UsdWait(amount) \in Int
<1>1. amount - usd \in Int
  BY DEF Typed, Bounded
<1> QED
  BY <1>1, CeilIs, Constants DEF UsdWait

LEMMA FloorIs ==
  ASSUME Typed, NEW part \in {1, 2}
  PROVE  FloorOf(part) \in Nat
<1> DEFINE a == floor * UsdCap
           b == 100 * part
<1>1. a \in Int /\ a >= 0 /\ b \in Nat /\ b > 0
  BY Constants DEF Typed, Bounded
<1>2. FloorOf(part) = Ceil(a, b)
  BY DEF FloorOf
<1> HIDE DEF a, b
<1>3. Ceil(a, b) \in Int /\ Ceil(a, b) >= 0
  BY <1>1, CeilIs
<1> QED
  BY <1>2, <1>3

LEMMA UsdRetryIs ==
  ASSUME Typed, NEW u \in Nat
  PROVE  UsdRetry(u) \subseteq Nat
<1>1. usd \in Int /\ Purse \in Int
  BY AtLeastIs DEF Typed, Bounded, Purse
<1>2. PacedRetry(u) \subseteq Nat
  <2> DEFINE gap == FloorOf(1) + u - Purse
             most == AtLeast(u, gap)
             w == UsdWait(most)
             base == AtMost(RetryCap, AtLeast(1, w))
  <2>1. gap \in Int
    BY <1>1, FloorIs
  <2> HIDE DEF gap
  <2>2. most \in Int
    BY <2>1, AtLeastIs
  <2> HIDE DEF most
  <2>3. w \in Int
    BY <2>2, UsdWaitIs
  <2> HIDE DEF w
  <2>4. AtLeast(1, w) \in Int /\ AtLeast(1, w) >= 1
    BY <2>3, AtLeastIs
  <2>5. base \in Int /\ base \in {RetryCap, AtLeast(1, w)}
    BY <2>4, Constants DEF AtMost
  <2>6. base \in Nat
    BY <2>4, <2>5, Constants
  <2> HIDE DEF base
  <2>7. base .. 2 * base \subseteq Nat
    BY <2>6
  <2> QED
    BY <2>7 DEF PacedRetry, base, w, most, gap
<1>3. GateUsdRetry(u) \in Nat
  <2> DEFINE a == UsdPause - usd + u
  <2>1. a \in Int
    BY <1>1, Constants
  <2> HIDE DEF a
  <2>2. UsdWait(a) \in Int
    BY <2>1, UsdWaitIs
  <2>3. AtLeast(1, UsdWait(a)) \in Nat
    BY <2>2, AtLeastIs
  <2> QED
    BY <2>3 DEF GateUsdRetry, a
<1>4. AtLeast(1, UsdWait(u)) \in Nat
  <2> DEFINE w == UsdWait(u)
  <2>1. w \in Int
    BY UsdWaitIs
  <2> HIDE DEF w
  <2>2. AtLeast(1, w) \in Nat
    BY <2>1 DEF AtLeast
  <2> QED
    BY <2>2 DEF w
<1> QED
  BY Zenon, <1>2, <1>3, <1>4 DEF UsdRetry
-----------------------------------------------------------------------------
(* Every step keeps the types. *)

LEMMA PauseTyped ==
  ASSUME Typed, NEW s \in Sessions, NEW delays, delays \subseteq Nat, NEW counts,
         Pause(s, delays, counts), Unmoved
  PROVE  Typed'
<1>1. PICK d \in delays : wait' = [wait EXCEPT ![s] = d]
  BY DEF Pause
<1>2. wait' \in [Sessions -> Nat]
  BY <1>1 DEF Typed, Placed
<1>3. polls' \in [Sessions -> Nat]
  <2>1. polls' = [polls EXCEPT ![s] = IF counts THEN polls[s] + 1 ELSE 0]
    BY DEF Pause
  <2> DEFINE m == IF counts THEN polls[s] + 1 ELSE 0
  <2>2. m \in Nat
    BY DEF Typed, Placed
  <2> HIDE DEF m
  <2>3. polls' = [polls EXCEPT ![s] = m]
    BY <2>1 DEF m
  <2> QED
    BY <2>2, <2>3 DEF Typed, Placed
<1>4. UNCHANGED <<world, floor, at, level, tok, usd, ledger, seen, hit, refused, pc, tries, denied>>
  BY DEF Pause, Unmoved, buckets
<1>5. Bounded'
  BY <1>4 DEF Typed, Bounded
<1>6. Placed'
  BY <1>2, <1>3, <1>4 DEF Typed, Placed, Known
<1> QED
  BY <1>4, <1>5, <1>6 DEF Typed

LEMMA RefuseTyped ==
  ASSUME Typed, NEW s \in Sessions, NEW kind \in Kinds, Refuse(s, kind), Unmoved
  PROVE  Typed'
<1>1. denied' \in SUBSET Kinds /\ refused' \in BOOLEAN
  BY DEF Refuse, Typed, Bounded
<1>2. UNCHANGED <<world, floor, at, level, tok, usd, seen, hit>>
  BY DEF Refuse, Unmoved, buckets
<1>3. Bounded'
  BY <1>1, <1>2 DEF Typed, Bounded
<1>4. ledger' \in Ledgers
  BY LedgerMoves DEF Refuse, Typed
<1>5. polls' \in [Sessions -> Nat]
  BY DEF Refuse
<1>6. wait' \in [Sessions -> Nat] /\ tries' \in [Sessions -> 0 .. SdkRetries] /\ pc' \in [Sessions -> Places]
      /\ \A o \in Sessions : pc'[o] # "gone" => pc[o] # "gone"
  <2>1. CASE /\ tries[s] < SdkRetries
             /\ tries' = [tries EXCEPT ![s] = tries[s] + 1]
             /\ \E d \in Backoff : wait' = [wait EXCEPT ![s] = d]
             /\ UNCHANGED <<pc, ledger>>
    <3>1. tries[s] \in 0 .. SdkRetries /\ tries[s] + 1 \in 0 .. SdkRetries
      BY <2>1, Constants DEF Typed, Placed
    <3>2. tries' \in [Sessions -> 0 .. SdkRetries]
      BY <2>1, <3>1 DEF Typed, Placed
    <3>3. wait' \in [Sessions -> Nat]
      BY <2>1, Constants DEF Typed, Placed, Backoff
    <3> QED
      BY <2>1, <3>2, <3>3 DEF Typed, Placed
  <2>2. CASE pc' = [pc EXCEPT ![s] = "gone"] /\ UNCHANGED <<tries, wait>>
    BY <2>2 DEF Typed, Placed, Places
  <2> QED
    BY <2>1, <2>2 DEF Refuse
<1>7. Placed'
  BY <1>2, <1>5, <1>6 DEF Typed, Placed, Known
<1> QED
  BY <1>2, <1>3, <1>4, <1>7 DEF Typed

LEMMA PayIs ==
  ASSUME Typed, NEW amount \in Int, Pay(amount)
  PROVE  usd' \in Int /\ usd' <= UsdCap
<1>1. usd - amount \in Int
  BY DEF Typed, Bounded
<1> QED
  BY <1>1, AtLeastIs, Constants DEF Pay

LEMMA IssueTyped ==
  ASSUME Typed, NEW s \in Sessions, Due(s), Issue(s), Unmoved
  PROVE  Placed'
<1>1. pc' \in [Sessions -> Places] /\ polls' \in [Sessions -> Nat] /\ UNCHANGED <<at, world, wait, tries>>
  BY DEF Issue, Typed, Placed, Places, Unmoved
<1>2. \A o \in Sessions : pc'[o] # "gone" => pc[o] # "gone"
  BY DEF Issue, Due, Typed, Placed
<1> QED
  BY <1>1, <1>2 DEF Typed, Placed, Known

LEMMA ChatTyped ==
  ASSUME Typed, NEW s \in Sessions, AskChat(s)
  PROVE  Typed'
<1> DEFINE u == Step(s).usd
           fresh == Step(s).fresh
<1>1. Due(s) /\ Step(s).kind = "chat" /\ Unmoved /\ ChatOutcome(s)
  BY ChatOutcomes
<1>2. u \in Nat /\ fresh \in Nat
  BY <1>1, StepIs DEF Due
<1>3. CASE Pause(s, UsdRetry(u), FALSE)
  BY <1>1, <1>2, <1>3, UsdRetryIs, PauseTyped
<1>4. CASE Refuse(s, "usd") \/ Refuse(s, "tokens")
  BY <1>1, <1>4, RefuseTyped DEF Kinds
<1>5. CASE Pause(s, {TokRetry(fresh)}, fresh + Kept <= TokCap)
  <2>1. {TokRetry(fresh)} \subseteq Nat
    BY <1>2, TokRetryIs
  <2> QED
    BY <1>1, <1>5, <2>1, PauseTyped
<1>6. CASE ChatRuns(s)
  <2>1. Placed'
    BY <1>1, <1>6, IssueTyped DEF ChatRuns
  <2>2. usd' \in Int /\ usd' <= UsdCap
    BY <1>2, <1>6, PayIs DEF ChatRuns
  <2>3. tok' \in Int /\ tok' <= TokCap
    BY <1>2, <1>6, Constants DEF ChatRuns, Typed, Bounded
  <2>4. UNCHANGED <<world, floor, level, ledger, seen, hit, refused, denied>>
    BY <1>1, <1>6 DEF ChatRuns, Issue, Unmoved
  <2>5. Bounded'
    BY <2>2, <2>3, <2>4 DEF Typed, Bounded
  <2> QED
    BY <2>1, <2>4, <2>5 DEF Typed
<1> QED
  BY Zenon, <1>1, <1>3, <1>4, <1>5, <1>6 DEF ChatOutcome

LEMMA ToolTyped ==
  ASSUME Typed, NEW s \in Sessions, AskTool(s)
  PROVE  Typed'
<1> DEFINE u == Step(s).usd
           n == Step(s).n
<1>1. Due(s) /\ Step(s).kind = "tool" /\ Unmoved
  BY ToolOutcomes
<1>2. PICK c \in 0 .. (IF world.background THEN n ELSE 0) : ToolOutcome(s, c)
  BY ToolOutcomes
<1>3. u \in Nat /\ n \in Nat /\ c \in Nat /\ c <= n
  BY <1>1, StepIs DEF Due
<1>4. CASE Pause(s, {CallRetry(s, n)}, Reachable(s, n))
  <2>1. {CallRetry(s, n)} \subseteq Nat
    BY <1>3, CallRetryIs
  <2> QED
    BY <1>1, <1>4, <2>1, PauseTyped
<1>5. CASE Pause(s, UsdRetry(u), FALSE)
  BY <1>1, <1>3, <1>5, UsdRetryIs, PauseTyped
<1>6. CASE Refuse(s, "usd") \/ Refuse(s, "calls")
  BY <1>1, <1>6, RefuseTyped DEF Kinds
<1>7. CASE ToolRuns(s, c)
  <2>1. Placed'
    BY <1>1, <1>7, IssueTyped DEF ToolRuns
  <2>2. usd' \in Int /\ usd' <= UsdCap
    BY <1>3, <1>7, PayIs DEF ToolRuns
  <2>3. level' \in Int /\ level' <= Rpm /\ seen' \in Nat /\ hit' \in Nat
    BY <1>3, <1>7, Constants DEF ToolRuns, TakeCalls, Take, Collisions, Typed, Bounded
  <2>4. UNCHANGED <<world, floor, tok, refused, denied>>
    BY <1>1, <1>7 DEF ToolRuns, Issue, Unmoved
  <2>5. ledger' \in Ledgers
    BY <1>7, LedgerMoves DEF ToolRuns, Spent, Typed
  <2>6. Bounded'
    BY <2>2, <2>3, <2>4 DEF Typed, Bounded
  <2> QED
    BY <2>1, <2>4, <2>5, <2>6 DEF Typed
<1> QED
  BY Zenon, <1>2, <1>4, <1>5, <1>6, <1>7 DEF ToolOutcome

LEMMA EndTyped ==
  ASSUME Typed, NEW s \in Sessions, End(s)
  PROVE  Typed'
<1>1. PICK over \in (IF Step(s).kind = "chat" THEN Step(s).over ELSE {0}) :
        tok' = tok - AtLeast(over, 0) /\ Pay(over)
  BY DEF End
<1>2. over \in Int
  BY <1>1, StepIs DEF End
<1>3. AtLeast(over, 0) \in Int /\ AtLeast(over, 0) >= 0
  BY <1>2, AtLeastIs
<1>4. tok' \in Int /\ tok' <= TokCap
  BY <1>1, <1>3, Constants DEF Typed, Bounded
<1>5. usd' \in Int /\ usd' <= UsdCap
  BY <1>1, <1>2, PayIs
<1>6. UNCHANGED <<world, level, seen, hit, floor, refused, wait, denied>>
  BY DEF End
<1>7. Bounded'
  BY <1>4, <1>5, <1>6 DEF Typed, Bounded
<1>8. ledger' \in Ledgers
  <2>1. Leased(s) \subseteq Ledgers
    <3> DEFINE none == L!SetSession(ledger, s, << >>)
               one == L!SetSession(ledger, s, [q \in {"calls"} |-> L!Lease(1, 0, Horizon)])
    <3>1. ledger \in Ledgers /\ none \in Ledgers /\ one \in Ledgers
      BY LedgerMoves DEF Typed
    <3>2. Leased(s) \subseteq {ledger, none, one}
      <4> HIDE DEF none, one
      <4> QED
        BY Zenon DEF Leased, none, one
    <3> QED
      BY <3>1, <3>2
  <2> QED
    BY <2>1, LedgerMoves DEF End, Typed
<1>9. Placed'
  <2>1. at' = [at EXCEPT ![s] = at[s] + 1] /\ at[s] \in Nat /\ at' \in [Sessions -> Nat \ {0}]
    BY DEF End, Typed, Placed
  <2>2. polls' \in [Sessions -> Nat] /\ wait' \in [Sessions -> Nat]
    BY DEF End, Typed, Placed
  <2>3. tries' \in [Sessions -> 0 .. SdkRetries]
    BY Constants DEF End, Typed, Placed
  <2>4. pc' \in [Sessions -> Places] /\ \A o \in Sessions : pc'[o] # "gone" => (IF o = s THEN Known(s, at[s] + 1) ELSE pc[o] # "gone")
    BY DEF End, Typed, Placed, Places
  <2>5. \A o \in Sessions : pc'[o] # "gone" => at'[o] <= Len(world'.prog[o])
    BY <1>6, <2>1, <2>4 DEF Typed, Placed, Known
  <2> QED
    BY <2>1, <2>2, <2>3, <2>4, <2>5 DEF Placed, Known
<1> QED
  BY <1>6, <1>7, <1>8, <1>9 DEF Typed

LEMMA ControlTyped ==
  ASSUME Typed, Control
  PROVE  Typed'
<1>1. floor' \in Nat
  <2>1. AtMost(50, (3 * floor) \div 2 + 2) \in Nat
    <3>1. floor \in Nat
      BY DEF Typed, Bounded
    <3>2. (3 * floor) \div 2 + 2 \in Nat
      BY <3>1
    <3> QED
      BY <3>2 DEF AtMost
  <2>2. AtLeast(2, floor - 1) \in Nat
    BY DEF Typed, Bounded, AtLeast
  <2> QED
    BY <2>1, <2>2 DEF Control
<1>2. refused' = FALSE /\ UNCHANGED <<world, level, tok, usd, ledger, seen, hit, at, pc, wait, tries, polls, denied>>
  BY DEF Control, buckets
<1>3. Bounded'
  BY <1>1, <1>2 DEF Typed, Bounded
<1>4. Placed'
  BY <1>2 DEF Typed, Placed, Known
<1> QED
  BY <1>2, <1>3, <1>4 DEF Typed

LEMMA TickTyped ==
  ASSUME Typed, Tick
  PROVE  Typed'
<1>1. level' \in Int /\ level' <= Rpm /\ tok' \in Int /\ tok' <= TokCap /\ usd' \in Int /\ usd' <= UsdCap
  BY Constants DEF Tick, Typed, Bounded, AtMost
<1>2. UNCHANGED <<world, seen, hit, floor, refused, at, pc, tries, polls, denied>>
  BY DEF Tick
<1>3. Bounded'
  BY <1>1, <1>2 DEF Typed, Bounded
<1>4. ledger' \in Ledgers
  BY AgedIs DEF Tick, Typed, LeasesAged
<1>5. wait' \in [Sessions -> Nat]
  <2>1. wait' = [s \in Sessions |-> AtLeast(0, wait[s] - 1)]
    BY DEF Tick
  <2>2. \A s \in Sessions : AtLeast(0, wait[s] - 1) \in Nat
    BY DEF Typed, Placed, AtLeast
  <2> QED
    BY <2>1, <2>2
<1>6. Placed'
  BY <1>2, <1>5 DEF Typed, Placed, Known
<1> QED
  BY <1>2, <1>3, <1>4, <1>6 DEF Typed

LEMMA BeginsTyped ==
  ASSUME Init
  PROVE  Typed
<1>1. world \in Worlds /\ world.prog \in [Sessions -> Seq(Chats \cup Tools)]
  BY PacingAssumption DEF Init, IsWorld
<1>2. Bounded
  <2>1. denied \in SUBSET Kinds /\ refused \in BOOLEAN /\ seen \in Nat /\ hit \in Nat /\ floor \in Nat
    BY DEF Init
  <2>2. level \in Int /\ level <= Rpm /\ tok \in Int /\ tok <= TokCap /\ usd \in Int /\ usd <= UsdCap
    BY Constants DEF Init
  <2> QED
    BY <2>1, <2>2 DEF Bounded
<1>3. ledger \in Ledgers
  <2>1. L!NoLease \in CallLease
    BY DEF CallLease
  <2> QED
    BY <2>1 DEF Init, L!EmptyLedger, Ledgers
<1>4. Placed
  <2>1. at \in [Sessions -> Nat \ {0}] /\ pc \in [Sessions -> Places] /\ wait \in [Sessions -> Nat]
        /\ tries \in [Sessions -> 0 .. SdkRetries] /\ polls \in [Sessions -> Nat]
    BY Constants DEF Init, Places
  <2>2. ASSUME NEW s \in Sessions, pc[s] # "gone"
        PROVE  Known(s, at[s])
    <3>1. world.prog[s] \in Seq(Chats \cup Tools) /\ world.prog[s] # << >> /\ at[s] = 1
      BY <1>1, <2>2 DEF Init
    <3>2. Len(world.prog[s]) >= 1
      BY <3>1
    <3> QED
      BY <3>1, <3>2 DEF Known
  <2> QED
    BY <2>1, <2>2 DEF Placed
<1> QED
  BY <1>1, <1>2, <1>3, <1>4 DEF Typed
-----------------------------------------------------------------------------
(* Waits that only time has passed in. *)

LEMMA MarginSame ==
  ASSUME NEW n, seen' = seen, hit' = hit
  PROVE  Margin(n)' = Margin(n)
<1>1. Outcomes(n)' = Outcomes(n)
  BY DEF Outcomes
<1>2. ASSUME NEW f
      PROVE  Extra(f)' = Extra(f)
  BY DEF Extra
<1>3. ASSUME NEW k
      PROVE  Enough(n, k)' <=> Enough(n, k)
  <2>1. {f \in Outcomes(n) : Extra(f) <= k}' = {f \in Outcomes(n) : Extra(f) <= k}
    BY <1>1, <1>2
  <2> QED
    BY <1>1, <2>1 DEF Enough
<1>4. ({k \in 0 .. n : Enough(n, k)} \cup {n})' = {k \in 0 .. n : Enough(n, k)} \cup {n}
  BY <1>3
<1> QED
  BY <1>4 DEF Margin

\* Nobody has been told to wait.
LEMMA NoneWaits ==
  ASSUME polls' = [o \in Sessions |-> 0]
  PROVE  Promises'
<1>1. \A s \in Sessions : polls'[s] = 0
  OBVIOUS
<1> QED
  BY <1>1 DEF Promises, Promised

\* A promise stands while nothing it is about changes.
LEMMA PromiseStands ==
  ASSUME Typed, NEW s \in Sessions, Promised(s), polls'[s] = polls[s], wait'[s] = wait[s], pc'[s] = pc[s],
         UNCHANGED <<world, at, level, tok, ledger, seen, hit>>
  PROVE  Promised(s)'
<1> SUFFICES ASSUME polls[s] > 0
             PROVE  /\ pc[s] = "asking"
                    /\ \A n \in Nat : Step(s)'.kind = "tool" /\ Step(s)'.n = n => CallWaits(s, n)'
                    /\ \A fresh \in Nat : Step(s)'.kind = "chat" /\ Step(s)'.fresh = fresh => TokenWaits(s, fresh)'
  BY DEF Promised
<1>1. Step(s)' = Step(s)
  BY DEF Step
<1>2. Reserved(s)' = Reserved(s)
  BY ReservedNext, ReservedOf DEF ReservedIsKept
<1>3. ASSUME NEW n \in Nat, CallWaits(s, n)
      PROVE  CallWaits(s, n)'
  <2>1. Margin(n)' = Margin(n)
    BY MarginSame
  <2> QED
    BY <1>2, <1>3, <2>1 DEF CallWaits, LeaseWaits, GateWaits, Reserving, Policy
<1>4. ASSUME NEW fresh \in Nat, TokenWaits(s, fresh)
      PROVE  TokenWaits(s, fresh)'
  BY <1>4 DEF TokenWaits, Kept, Gated, Policy
<1> QED
  BY <1>1, <1>3, <1>4 DEF Promised

LEMMA PausePromises ==
  ASSUME Typed, Promises, NEW s \in Sessions, NEW delays, NEW counts, Pause(s, delays, counts), Unmoved,
         counts => Promised(s)'
  PROVE  Promises'
<1>1. UNCHANGED <<world, at, level, tok, ledger, seen, hit, pc>>
  BY DEF Pause, Unmoved, buckets
<1>2. ASSUME NEW o \in Sessions, o # s
      PROVE  Promised(o)'
  <2>1. polls'[o] = polls[o] /\ wait'[o] = wait[o]
    BY <1>2 DEF Pause, Typed, Placed
  <2> QED
    BY <1>1, <2>1, PromiseStands DEF Promises
<1>3. Promised(s)'
  <2>1. CASE counts
    BY <2>1
  <2>2. CASE ~counts
    <3>1. polls'[s] = 0
      BY <2>2 DEF Pause, Typed, Placed
    <3> QED
      BY <3>1 DEF Promised
  <2> QED
    BY <2>1, <2>2
<1> QED
  BY <1>2, <1>3 DEF Promises

\* The wait a step is told is long enough, and the first one it is told.
LEMMA CallPromise ==
  ASSUME Typed, Promises, NEW s \in Sessions, Due(s), Step(s).kind = "tool", NEW n \in Nat, Step(s).n = n, NEW c \in Nat,
         ~CanIssue(s, n, c), Reachable(s, n), Pause(s, {CallRetry(s, n)}, Reachable(s, n)), Unmoved
  PROVE  Promised(s)'
<1> DEFINE d == CallRetry(s, n)
<1>1. UNCHANGED <<world, at, level, tok, ledger, seen, hit, pc>>
  BY DEF Pause, Unmoved, buckets
<1>2. polls'[s] = polls[s] + 1 /\ wait'[s] = d /\ wait[s] = 0 /\ pc[s] = "asking" /\ polls[s] \in Nat
  BY DEF Pause, Typed, Placed, Due
<1>3. d \in Nat
  BY CallRetryIs
<1>4. Step(s)' = Step(s) /\ Margin(n)' = Margin(n)
  BY <1>1, MarginSame DEF Step
<1>5. Reserved(s)' = Reserved(s)
  BY <1>1, ReservedNext, ReservedOf DEF ReservedIsKept
<1>6. level \in Int /\ level >= 0 /\ Header = level /\ Margin(n) \in Nat /\ Reserved(s) \in Nat
  BY MarginIs, ReservedIs DEF Reachable, Header, AtLeast, Typed, Bounded
<1>7. polls[s] > 0 => CallWaits(s, n)
  BY DEF Promises, Promised
<1>8. CallWaits(s, n)'
  <2>1. CASE Reserving
    <3>1. Margin(n) + Reserved(s) <= Rpm /\ d >= Margin(n) + Reserved(s) - level
      BY <1>6, <2>1, CallRetryIs DEF Reachable
    <3>2. level < Margin(n) + Reserved(s)
      <4>1. CanIssue(s, n, c) = LeaseIssues(s, n)
        <5>1. Policy # "gate" /\ Policy # "oracle"
          BY <2>1 DEF Reserving
        <5> QED
          BY Zenon, <2>1, <5>1 DEF CanIssue
      <4> DEFINE m == Margin(n)
                 r == Reserved(s)
      <4>2. ~(Header - r >= m) /\ Header = level /\ m \in Nat /\ r \in Nat
        BY <1>6, <4>1 DEF LeaseIssues
      <4> HIDE DEF m, r
      <4>3. level < m + r
        BY <1>6, <4>2
      <4> QED
        BY <4>3 DEF m, r
    <3>3. ~(polls[s] > 0)
      BY <1>2, <1>6, <1>7, <2>1, <3>2 DEF CallWaits, LeaseWaits
    <3>4. LeaseWaits(s, n)'
      BY <1>1, <1>2, <1>3, <1>4, <1>5, <1>6, <3>1, <3>3 DEF LeaseWaits
    <3> QED
      BY <1>1, <1>6, <2>1, <3>4 DEF CallWaits, Reserving, Policy
  <2>2. CASE ~Reserving
    <3>1. Policy = "gate"
      BY <2>2 DEF Reachable
    <3>2. level <= PauseAt /\ d >= 1 /\ d >= PauseAt - level
      BY <1>6, <2>2, <3>1, CallRetryIs, Constants DEF CanIssue, GateIssues
    <3>3. polls[s] > 0 => polls[s] <= 2 /\ level >= PauseAt + polls[s] - 1
      BY <1>2, <1>6, <1>7, <2>2 DEF CallWaits, GateWaits
    <3>4. polls[s] <= 1 /\ level + d >= PauseAt + polls[s]
      BY <1>2, <1>3, <1>6, <3>2, <3>3, Constants
    <3>5. GateWaits(s)'
      BY <1>1, <1>2, <1>3, <1>6, <3>1, <3>4, Constants DEF GateWaits, Policy
    <3> QED
      BY <1>1, <1>6, <2>2, <3>5 DEF CallWaits, Reserving, Policy
  <2> QED
    BY <2>1, <2>2
<1> QED
  BY <1>1, <1>2, <1>4, <1>8 DEF Promised

LEMMA TokenPromise ==
  ASSUME Typed, Promises, NEW s \in Sessions, Due(s), Step(s).kind = "chat", NEW f \in Nat, Step(s).fresh = f,
         ~TokensFit(f), f + Kept <= TokCap, Pause(s, {TokRetry(f)}, f + Kept <= TokCap), Unmoved
  PROVE  Promised(s)'
<1> DEFINE d == TokRetry(f)
<1>1. UNCHANGED <<world, at, level, tok, ledger, seen, hit, pc>>
  BY DEF Pause, Unmoved, buckets
<1>2. polls'[s] = polls[s] + 1 /\ wait'[s] = d /\ wait[s] = 0 /\ pc[s] = "asking" /\ polls[s] \in Nat
  BY DEF Pause, Typed, Placed, Due
<1>3. d \in Nat /\ d * TokRefill >= f - (tok - Kept) /\ d * TokRefill \in Nat
  <2>1. d \in Nat /\ d * TokRefill >= f - (tok - Kept)
    BY TokRetryIs
  <2> HIDE DEF d
  <2> QED
    BY <2>1, Constants
<1>4. Step(s)' = Step(s) /\ Kept' = Kept
  BY <1>1 DEF Step, Kept, Gated, Policy
<1>5. tok \in Int /\ Kept \in Nat
  BY KeptIs DEF Typed, Bounded
<1>6. tok < f + Kept
  BY <1>5 DEF TokensFit
<1>7. ~(polls[s] > 0)
  <2> SUFFICES ASSUME polls[s] > 0 PROVE FALSE
    OBVIOUS
  <2>1. TokenWaits(s, f)
    BY DEF Promises, Promised
  <2>2. tok + 0 * TokRefill >= f + Kept
    BY <1>2, <2>1 DEF TokenWaits
  <2>3. 0 * TokRefill = 0
    BY Constants
  <2> QED
    BY <1>5, <1>6, <2>2, <2>3
<1>8. TokenWaits(s, f)'
  <2> DEFINE x == d * TokRefill
  <2>1. x \in Nat /\ x >= f - (tok - Kept) /\ tok' + wait'[s] * TokRefill = tok + x
    BY <1>1, <1>2, <1>3
  <2> HIDE DEF x, d
  <2>2. tok + x >= f + Kept
    BY <1>5, <2>1
  <2> QED
    BY <1>2, <1>4, <1>7, <2>1, <2>2 DEF TokenWaits
<1> QED
  BY <1>1, <1>2, <1>4, <1>8 DEF Promised

LEMMA TickPromises ==
  ASSUME Typed, Promises, Tick
  PROVE  Promises'
<1> SUFFICES ASSUME NEW s \in Sessions, polls'[s] > 0
             PROVE  Promised(s)'
  BY DEF Promises, Promised
<1>1. UNCHANGED <<world, at, seen, hit, pc, polls>>
  BY DEF Tick
<1>2. polls[s] > 0 /\ polls[s] \in Nat /\ pc[s] = "asking"
  BY <1>1 DEF Promises, Promised, Typed, Placed
<1>3. wait[s] \in Nat /\ wait[s] > 0 /\ wait'[s] = wait[s] - 1
  <2>1. wait[s] \in Nat /\ wait[s] # 0
    BY <1>2 DEF Tick, Due, Typed, Placed
  <2>2. wait'[s] = AtLeast(0, wait[s] - 1)
    BY DEF Tick
  <2> QED
    BY <2>1, <2>2 DEF AtLeast
<1>4. Step(s)' = Step(s)
  BY <1>1 DEF Step
<1>5. ASSUME NEW n \in Nat, CallWaits(s, n)
      PROVE  CallWaits(s, n)'
  <2>1. Margin(n)' = Margin(n) /\ Margin(n) \in Nat
    BY <1>1, MarginSame, MarginIs
  <2>2. Reserved(s)' <= Reserved(s) /\ Reserved(s)' \in Nat /\ Reserved(s) \in Nat
    BY ReservedFalls, ReservedIs DEF Tick, LeasesAged
  <2>3. level' = AtMost(Rpm, level + 1) /\ level \in Int /\ level <= Rpm /\ level >= 0
    BY <1>5 DEF Tick, Typed, Bounded, CallWaits
  <2>4. level' \in Int /\ level' >= 0 /\ (level' = level + 1 \/ level' = Rpm)
    BY <2>3, Constants DEF AtMost
  <2>5. CASE Reserving
    <3>1. LeaseWaits(s, n)
      BY <1>5, <2>5 DEF CallWaits
    <3> DEFINE need == Margin(n) + Reserved(s)
               needs == Margin(n)' + Reserved(s)'
    <3>2. need \in Nat /\ needs \in Nat /\ needs <= need
      BY <2>1, <2>2
    <3>3. polls[s] <= 1 /\ need <= Rpm /\ level + wait[s] >= need
      BY <3>1 DEF LeaseWaits
    <3> HIDE DEF need, needs
    <3>4. needs <= Rpm /\ level' + wait'[s] >= needs
      BY <1>3, <2>3, <2>4, <3>2, <3>3, Constants
    <3>5. LeaseWaits(s, n)'
      BY <1>1, <3>3, <3>4 DEF LeaseWaits, needs
    <3> QED
      BY <1>1, <2>4, <2>5, <3>5 DEF CallWaits, Reserving, Policy
  <2>6. CASE ~Reserving
    <3>1. GateWaits(s)
      BY <1>5, <2>6 DEF CallWaits
    <3>2. level' + wait'[s] >= PauseAt + polls[s] - 1
      BY <1>2, <1>3, <2>3, <2>4, <3>1, Constants DEF GateWaits
    <3>3. GateWaits(s)'
      BY <1>1, <3>1, <3>2 DEF GateWaits, Policy
    <3> QED
      BY <1>1, <2>4, <2>6, <3>3 DEF CallWaits, Reserving, Policy
  <2> QED
    BY <2>5, <2>6
<1>6. ASSUME NEW f \in Nat, TokenWaits(s, f)
      PROVE  TokenWaits(s, f)'
  <2>1. Kept' = Kept /\ Kept \in Nat
    BY <1>1, KeptIs DEF Kept, Gated, Policy
  <2>2. tok' = AtMost(TokCap, tok + TokRefill) /\ tok \in Int /\ tok <= TokCap
    BY DEF Tick, Typed, Bounded
  <2>3. tok' = TokCap \/ tok' = tok + TokRefill
    BY <2>2 DEF AtMost
  <2> DEFINE x == wait[s] * TokRefill
             y == wait'[s] * TokRefill
  <2>4. x \in Nat /\ y \in Nat /\ x = y + TokRefill
    BY <1>3, Constants
  <2>5. polls[s] <= 1 /\ f + Kept <= TokCap /\ tok + x >= f + Kept
    BY <1>6 DEF TokenWaits
  <2> HIDE DEF x, y
  <2>6. tok' + y >= f + Kept
    BY <2>1, <2>2, <2>3, <2>4, <2>5, Constants
  <2> QED
    BY <1>1, <2>1, <2>5, <2>6 DEF TokenWaits, y
<1> QED
  BY <1>1, <1>2, <1>4, <1>5, <1>6 DEF Promises, Promised
-----------------------------------------------------------------------------
(* What is let through is not refused. *)

\* Pacing lets no payment through that the purse does not hold.
LEMMA PacedIsPaid ==
  ASSUME Typed, NEW s \in Sessions, pc[s] # "gone", Policy = "needs", NEW ok \in Admits(s, Step(s).usd), ok
  PROVE  CanPay(Step(s).usd)
<1> DEFINE u == Step(s).usd
<1>1. u \in Nat /\ usd \in Int /\ Purse \in Int /\ (Purse = usd \/ Purse = 0)
  BY StepIs DEF Typed, Bounded, Purse, AtLeast
<1> SUFFICES ASSUME u # 0 PROVE usd >= u
  BY DEF CanPay
<1>2. FloorOf(1) \in Nat /\ FloorOf(2) \in Nat
  BY FloorIs
<1>3. ok \in Paced(s, u)
  <2>1. ~PausesSpend /\ Policy # "oracle"
    BY DEF PausesSpend
  <2> QED
    BY Zenon, <2>1 DEF Admits
<1>4. OthersSpend(s) \subseteq Nat
  BY Constants DEF OthersSpend
<1>5. Purse >= u
  <2>1. CASE at[s] = 1 /\ Step(s).kind = "chat"
    <3>1. ok \in {Purse - u - r >= FloorOf(1) : r \in OthersSpend(s)} \cup (IF world.judge /\ 2 * Purse < UsdCap THEN {FALSE} ELSE {})
      BY Zenon, <1>3, <2>1 DEF Paced
    <3>2. PICK r \in OthersSpend(s) : ok = (Purse - u - r >= FloorOf(1))
      BY Zenon, <3>1
    <3>3. Purse - u - r >= FloorOf(1) /\ r \in Nat
      BY <1>4, <3>2
    <3> QED
      BY <1>1, <1>2, <3>3
  <2>2. CASE ~(at[s] = 1 /\ Step(s).kind = "chat")
    <3>1. ok \in {Purse - u >= FloorOf(2)}
      BY Zenon, <1>3, <2>2 DEF Paced
    <3>2. Purse - u >= FloorOf(2)
      BY Zenon, <3>1
    <3> QED
      BY <1>1, <1>2, <3>2
  <2> QED
    BY <2>1, <2>2
<1> QED
  BY <1>1, <1>5

\* Neither kind of refusal the predictive policies rule out.
LEMMA SafeAsBefore ==
  ASSUME NeverRefused, UNCHANGED world, seen' = seen, level' = level, denied' \subseteq denied \cup {"tokens"}
  PROVE  NeverRefused'
BY DEF NeverRefused, Reserving, Policy

LEMMA BudgetRefusal ==
  ASSUME Typed, NeverRefused, NEW s \in Sessions, Due(s), Unmoved, NEW ok \in Admits(s, Step(s).usd), ok,
         ~CanPay(Step(s).usd), Refuse(s, "usd")
  PROVE  NeverRefused'
<1>1. Policy # "needs"
  BY PacedIsPaid DEF Due
<1>2. denied' = denied \cup {"usd"} /\ seen' = seen /\ level' = level /\ world' = world
  BY DEF Refuse, Unmoved, buckets
<1> QED
  BY <1>1, <1>2 DEF NeverRefused, Reserving, Policy

LEMMA ChatSafe ==
  ASSUME Safe, NEW s \in Sessions, AskChat(s)
  PROVE  Promises' /\ NeverRefused'
<1> DEFINE u == Step(s).usd
           f == Step(s).fresh
<1>1. Due(s) /\ Step(s).kind = "chat" /\ Unmoved /\ ChatOutcome(s) /\ Typed /\ Promises /\ NeverRefused
  BY ChatOutcomes DEF Safe
<1>2. u \in Nat /\ f \in Nat
  BY <1>1, StepIs DEF Due
<1>3. ASSUME NEW delays, NEW counts, Pause(s, delays, counts)
      PROVE  NeverRefused'
  BY <1>1, <1>3, SafeAsBefore DEF Pause, Unmoved, buckets
<1>4. CASE Pause(s, UsdRetry(u), FALSE)
  BY <1>1, <1>3, <1>4, PausePromises
<1>5. CASE (\E ok \in Admits(s, u) : ok) /\ ~CanPay(u) /\ Refuse(s, "usd")
  BY <1>1, <1>5, BudgetRefusal, NoneWaits DEF Refuse
<1>6. CASE ChatRuns(s)
  BY <1>1, <1>6, NoneWaits, SafeAsBefore DEF ChatRuns, Issue, Unmoved
<1>7. CASE Refuse(s, "tokens")
  BY <1>1, <1>7, NoneWaits, SafeAsBefore DEF Refuse, Unmoved, buckets
<1>8. CASE ~TokensFit(f) /\ Pause(s, {TokRetry(f)}, f + Kept <= TokCap)
  <2>1. f + Kept <= TokCap => Promised(s)'
    <3> SUFFICES ASSUME f + Kept <= TokCap PROVE Promised(s)'
      OBVIOUS
    <3>1. PICK k \in Nat : k = f
      BY <1>2
    <3>2. ~TokensFit(k) /\ k + Kept <= TokCap /\ Pause(s, {TokRetry(k)}, k + Kept <= TokCap) /\ Step(s).fresh = k
      BY <1>8, <3>1
    <3> QED
      BY <1>1, <3>2, TokenPromise
  <2> QED
    BY <1>1, <1>3, <1>8, <2>1, PausePromises
<1> QED
  BY Zenon, <1>1, <1>4, <1>5, <1>6, <1>7, <1>8 DEF ChatOutcome

\* A reserving policy lets calls through only if the bucket holds two units for each.
LEMMA MarginHolds ==
  ASSUME Typed, NEW s \in Sessions, NEW n \in Nat, n > 0, NEW c \in Nat, c <= n, Reserving, seen < Warm, CanIssue(s, n, c)
  PROVE  CanCall(Dearest(c)) /\ level >= n + c
<1>1. LeaseIssues(s, n)
  <2>1. Policy # "gate" /\ Policy # "oracle"
    BY DEF Reserving
  <2> QED
    BY Zenon, <2>1 DEF CanIssue
<1> DEFINE m == Margin(n)
           r == Reserved(s)
<1>2. Header - r >= m /\ m = 2 * n /\ r \in Nat /\ level \in Int /\ (Header = level \/ Header = 0)
  BY <1>1, MarginIs, ReservedIs DEF LeaseIssues, Header, AtLeast, Typed, Bounded
<1> HIDE DEF m, r
<1>3. level >= 2 * n
  BY <1>2
<1> QED
  BY <1>2, <1>3 DEF CanCall, Dearest

LEMMA ToolSafe ==
  ASSUME Safe, NEW s \in Sessions, AskTool(s)
  PROVE  Promises' /\ NeverRefused'
<1> DEFINE u == Step(s).usd
<1>1. Due(s) /\ Step(s).kind = "tool" /\ Unmoved /\ Typed /\ Promises /\ NeverRefused
  BY ToolOutcomes DEF Safe
<1>2. PICK n \in Nat : n > 0 /\ n = Step(s).n
  BY <1>1, StepIs DEF Due
<1>3. PICK c \in 0 .. (IF world.background THEN n ELSE 0) : ToolOutcome(s, c)
  BY <1>2, ToolOutcomes
<1>4. c \in Nat /\ c <= n
  BY <1>2, <1>3
<1>5. ASSUME NEW delays, NEW counts, Pause(s, delays, counts)
      PROVE  NeverRefused'
  BY <1>1, <1>5, SafeAsBefore DEF Pause, Unmoved, buckets
<1>6. CASE ~CanIssue(s, n, c) /\ Pause(s, {CallRetry(s, n)}, Reachable(s, n))
  BY <1>1, <1>2, <1>4, <1>5, <1>6, CallPromise, PausePromises
<1>7. CASE Pause(s, UsdRetry(u), FALSE)
  BY <1>1, <1>5, <1>7, PausePromises
<1>8. CASE (\E ok \in Admits(s, u) : ok) /\ ~CanPay(u) /\ Refuse(s, "usd")
  BY <1>1, <1>8, BudgetRefusal, NoneWaits DEF Refuse
<1>9. CASE CanIssue(s, n, c) /\ ~CanCall(Dearest(c)) /\ Refuse(s, "calls")
  <2>1. ~(Reserving /\ seen < Warm)
    BY <1>1, <1>2, <1>4, <1>9, MarginHolds
  <2>2. denied' = denied \cup {"calls"} /\ seen' = seen /\ world' = world /\ polls' = [o \in Sessions |-> 0]
    BY <1>1, <1>9 DEF Refuse, Unmoved
  <2> QED
    BY <1>1, <2>1, <2>2, NoneWaits DEF NeverRefused, Reserving, Policy
<1>10. CASE CanIssue(s, n, c) /\ ToolRuns(s, c)
  <2>1. seen' = seen + n /\ level' = level - (n + c) /\ denied' = denied /\ world' = world /\ polls' = [o \in Sessions |-> 0]
    BY <1>1, <1>2, <1>10 DEF ToolRuns, TakeCalls, Take, Collisions, Issue, Unmoved
  <2>2. seen \in Nat /\ level \in Int
    BY <1>1 DEF Typed, Bounded
  <2>3. Reserving /\ seen' < Warm => seen < Warm
    BY <1>2, <2>1, <2>2, Constants
  <2>4. Reserving /\ seen' < Warm => level' >= 0
    BY <1>1, <1>2, <1>4, <1>10, <2>1, <2>2, <2>3, MarginHolds
  <2> QED
    BY <1>1, <2>1, <2>3, <2>4, NoneWaits DEF NeverRefused, Reserving, Policy
<1> QED
  BY Zenon, <1>2, <1>3, <1>6, <1>7, <1>8, <1>9, <1>10 DEF ToolOutcome

LEMMA EndSafe ==
  ASSUME Safe, NEW s \in Sessions, End(s)
  PROVE  Promises' /\ NeverRefused'
BY NoneWaits, SafeAsBefore DEF Safe, End

LEMMA ControlSafe ==
  ASSUME Safe, Control
  PROVE  Promises' /\ NeverRefused'
<1>1. UNCHANGED <<world, level, tok, ledger, seen, hit, at, pc, wait, polls, denied>>
  BY DEF Control, buckets
<1>2. \A s \in Sessions : Promised(s)'
  BY <1>1, PromiseStands DEF Safe, Promises
<1> QED
  BY <1>1, <1>2, SafeAsBefore DEF Safe, Promises

LEMMA TickSafe ==
  ASSUME Safe, Tick
  PROVE  Promises' /\ NeverRefused'
<1>1. UNCHANGED <<world, seen, denied>> /\ (level >= 0 => level' >= 0)
  BY Constants DEF Tick, Safe, Typed, Bounded, AtMost
<1>2. NeverRefused'
  BY <1>1 DEF Safe, NeverRefused, Reserving, Policy
<1> QED
  BY <1>2, TickPromises DEF Safe

-----------------------------------------------------------------------------
(* Theorems. *)

LEMMA AlwaysSafe == Spec => []Safe
<1>1. Init => Safe
  <2> SUFFICES ASSUME Init PROVE Safe
    OBVIOUS
  <2>1. Promises
    <3>1. \A s \in Sessions : polls[s] = 0
      BY DEF Init
    <3> QED
      BY <3>1 DEF Promises, Promised
  <2>2. NeverRefused
    BY Constants DEF Init, NeverRefused
  <2> QED
    BY <2>1, <2>2, BeginsTyped DEF Safe
<1>2. Safe /\ [Next]_vars => Safe'
  <2> SUFFICES ASSUME Safe, [Next]_vars PROVE Safe'
    OBVIOUS
  <2>0. Typed /\ Promises /\ NeverRefused
    BY DEF Safe
  <2>1. CASE Tick
    BY <2>0, <2>1, TickTyped, TickSafe DEF Safe
  <2>2. CASE Control
    BY <2>0, <2>2, ControlTyped, ControlSafe DEF Safe
  <2>3. ASSUME NEW s \in Sessions, AskChat(s)
        PROVE  Safe'
    BY <2>0, <2>3, ChatTyped, ChatSafe DEF Safe
  <2>4. ASSUME NEW s \in Sessions, AskTool(s)
        PROVE  Safe'
    BY <2>0, <2>4, ToolTyped, ToolSafe DEF Safe
  <2>5. ASSUME NEW s \in Sessions, End(s)
        PROVE  Safe'
    BY <2>0, <2>5, EndTyped, EndSafe DEF Safe
  <2>6. CASE UNCHANGED vars
    <3>1. UNCHANGED <<world, level, tok, usd, ledger, seen, hit, floor, refused, at, pc, wait, tries, polls, denied>>
      BY <2>6 DEF vars, buckets
    <3>2. Typed'
      BY <2>0, <3>1 DEF Typed, Bounded, Placed, Known
    <3>3. \A s \in Sessions : Promised(s)'
      BY <2>0, <3>1, PromiseStands DEF Promises
    <3> QED
      BY <2>0, <3>1, <3>2, <3>3, SafeAsBefore DEF Safe, Promises
  <2> QED
    BY <2>1, <2>2, <2>3, <2>4, <2>5, <2>6 DEF Next
<1> QED
  BY <1>1, <1>2, PTL DEF Spec

(***************************************************************************)
(* What the predictive policies let through is never refused: a payment by *)
(* pacing (control.py:12-15), a call by the margin (policies.py:478) while *)
(* that covers every collision, and the margin keeps the bucket from being *)
(* overdrawn, whatever the buckets, programs and the policies' parameters. *)
(***************************************************************************)
THEOREM PacingNeverRefused == Spec => []NeverRefused
<1>1. Safe => NeverRefused
  BY DEF Safe
<1> QED
  BY <1>1, AlwaysSafe, PTL

(***************************************************************************)
(* A step that asks again after the wait it was told gets through, if only *)
(* time has passed (external_retry_after and tokens_retry_after answer     *)
(* with what is missing, policies.py:264): it is told to wait once, by the *)
(* gate, whose pause is strict, at most twice.                             *)
(***************************************************************************)
THEOREM WaitsAreTimely == Spec => []RetryTimely
<1>1. Safe => RetryTimely
  <2> SUFFICES ASSUME Safe, NEW s \in Sessions PROVE polls[s] <= 2
    BY DEF RetryTimely
  <2>1. polls[s] \in Nat /\ Promised(s) /\ Typed
    BY DEF Safe, Typed, Placed, Promises
  <2>2. CASE polls[s] > 0
    <3>1. pc[s] # "gone"
      BY <2>1, <2>2 DEF Promised
    <3>2. CASE Step(s).kind = "tool"
      <4>1. PICK n \in Nat : n = Step(s).n
        BY <2>1, <3>1, <3>2, StepIs
      <4>2. CallWaits(s, n)
        BY <2>1, <2>2, <3>2, <4>1 DEF Promised
      <4> QED
        BY <2>1, <4>2 DEF CallWaits, LeaseWaits, GateWaits
    <3>3. CASE Step(s).kind = "chat"
      <4>1. PICK f \in Nat : f = Step(s).fresh
        BY <2>1, <3>1, <3>3, StepIs
      <4>2. TokenWaits(s, f)
        BY <2>1, <2>2, <3>3, <4>1 DEF Promised
      <4> QED
        BY <2>1, <4>2 DEF TokenWaits
    <3> QED
      BY <2>1, <3>1, <3>2, <3>3, StepIs
  <2> QED
    BY <2>1, <2>2
<1> QED
  BY <1>1, AlwaysSafe, PTL
=============================================================================
