------------------------------ MODULE MCDagRun ------------------------------
(* Instances of DagRun for TLC. *)
EXTENDS DagRun

CONSTANTS a, b, c, d, x

Edge(N, E) == [n \in N |-> {e[1] : e \in {f \in E : f[2] = n}}]

\* One agent per node (the agent is called like the node), one output each;
\* a node reads all its dependencies.
Plain(N, E) ==
  [nodes |-> N, agent |-> [n \in N |-> n], deps |-> Edge(N, E),
   outs |-> [n \in N |-> {<<n, x>>}],
   ins |-> [n \in N |-> {<<m, x>> : m \in Edge(N, E)[n]}]]

Diamond == Plain({a, b, c, d}, {<<a, b>>, <<a, c>>, <<b, d>>, <<c, d>>})
Chain   == Plain({a, b, c}, {<<a, b>>, <<b, c>>})
Join    == Plain({a, b, c}, {<<a, c>>, <<b, c>>})
Fork    == Plain({a, b, c}, {<<a, b>>, <<a, c>>})
Wide    == Plain({a, b}, {})
Cycle   == Plain({a, b}, {<<a, b>>, <<b, a>>})
Loose   == [Chain EXCEPT !.deps[b] = {}]                   \* reads what is not upstream
Skip    == [Chain EXCEPT !.ins[c] = {<<a, x>>}]            \* reads past its neighbour

\* Two nodes of agent a, side by side and one after the other, read by c.
Twins   == [Join  EXCEPT !.agent[b] = a, !.outs[b] = {<<a, x>>}, !.ins[c] = {<<a, x>>}]
Redo    == [Chain EXCEPT !.agent[b] = a, !.outs[b] = {<<a, x>>}, !.ins[c] = {<<a, x>>}]

MCAgents == {a, b, c, d}
MCRefs == MCAgents \X {x}
All == {Diamond, Chain, Join, Fork, Wide, Cycle, Loose, Skip, Twins, Redo}
=============================================================================
