----------------------------- MODULE MCGateway -----------------------------
(* Instances of Gateway for TLC: small societies that meet at the gateway. *)
EXTENDS Gateway, TLC

CONSTANTS r1, r2, r3, s1, s2, s3, s4, cloud, local, wide, sandbox

MCRes == {cloud, local, wide, sandbox}
MCCap == wide :> 2 @@ [q \in MCRes |-> 1]

World(runs, edges, tier, policy, metered, attempts) ==
  [runOf |-> runs, deps |-> [s \in DOMAIN runs |-> {e[1] : e \in {f \in edges : f[2] = s}}],
   tier |-> [s \in DOMAIN runs |-> tier], policy |-> policy, metered |-> metered,
   apiLike |-> metered \ {wide}, attempts |-> attempts, timeouts |-> FALSE]

Duo  == s1 :> r1 @@ s2 :> r2
Trio == s1 :> r1 @@ s2 :> r1 @@ s3 :> r2
Pair == s1 :> r1 @@ s2 :> r1 @@ s3 :> r2 @@ s4 :> r2

\* Two runs of two nodes, one after the other, on one unit.
Chains == World(Pair, {<<s1, s2>>, <<s3, s4>>}, local, "needs", {}, 1)

\* A chain and a single node, which repeat.
Repeats == World(Trio, {<<s1, s2>>}, local, "needs", {}, 2)

\* Two parallel nodes and a chain on two units.
Gangs == World(Pair, {<<s3, s4>>}, wide, "needs", {}, 1)

\* Two runs that nobody coordinates on a tier that answers 429.
Bare == World(Duo, {}, cloud, "off", {cloud}, 2)

\* Three sessions of two runs on one unit, first come first served.
Queue == World(Trio, {}, local, "gate", {}, 1)

\* A gang and a single node on two units whose budgets run short.
Pinched == World(Trio, {}, wide, "needs", {wide}, 1)

\* The same as a chain, on an API, and calls may time out.
Timed(w) == [w EXCEPT !.timeouts = TRUE]
Late == Timed(World(Trio, {<<s1, s2>>}, wide, "needs", {wide}, 1))

\* A run of two parallel nodes, one with a successor: the run may end under the other.
Orphan == World(s1 :> r1 @@ s2 :> r1 @@ s3 :> r1, {<<s1, s3>>}, wide, "needs", {}, 1)

\* Two runs on one unit that may time out.
Race == Timed(World(Duo, {}, local, "gate", {}, 1))

Safe == {Chains, Repeats, Gangs, Bare, Late, Orphan}
Served == {Queue, Pinched, Late, Orphan}
Racing == {Race}
=============================================================================
