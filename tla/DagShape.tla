------------------------------ MODULE DagShape ------------------------------
(***************************************************************************)
(* A DAG specification (society/runner/spec.py) and the structural check   *)
(* it must pass before anything runs: validate_dag of                      *)
(* gates/deterministic.py followed by the agent and output checks of       *)
(* DagRunner._validate.                                                    *)
(*                                                                         *)
(* A KV reference "agent:dtype" is the pair <<agent, dtype>>.  A DAG is a  *)
(* record                                                                  *)
(*   [nodes, agent : nodes -> agent, deps : nodes -> set of node ids,      *)
(*    ins, outs : nodes -> set of references].                             *)
(* Node ids are a set, so the uniqueness check on ids has nothing to say.  *)
(* The order of the lists, and which of several defects is reported first, *)
(* are abstracted.                                                         *)
(***************************************************************************)

\* A set of nodes closed under "depends on".
DepClosed(dag, S) == \A m \in S : dag.deps[m] \subseteq S

(***************************************************************************)
(* _ancestors: the worklist collects the least dependency-closed set that  *)
(* contains the node's own dependencies.                                   *)
(***************************************************************************)
Ancestors(dag, n) ==
  {m \in dag.nodes : \A S \in SUBSET dag.nodes :
                        DepClosed(dag, S) /\ dag.deps[n] \subseteq S => m \in S}

Descendants(dag, n) == {m \in dag.nodes : n \in Ancestors(dag, m)}

\* Kahn's algorithm drains every node iff no node is upstream of itself.
Acyclic(dag) == \A n \in dag.nodes : n \notin Ancestors(dag, n)

\* A plausible slip: an output anywhere in the DAG counts as a producer.
WiredAnywhere(dag) ==
  \A n \in dag.nodes : dag.ins[n] \subseteq UNION {dag.outs[u] : u \in dag.nodes}

\* Every input is an output of a node upstream of its reader.
Wired(dag) ==
  \A n \in dag.nodes :
    dag.ins[n] \subseteq UNION {dag.outs[u] : u \in Ancestors(dag, n)}

\* validate_dag approves.
ValidDag(dag) ==
  /\ dag.nodes # {}
  /\ \A n \in dag.nodes : dag.deps[n] \subseteq dag.nodes
  /\ Acyclic(dag)
  /\ Wired(dag)

(***************************************************************************)
(* DagRunner._validate: known agents, every output under the node's own    *)
(* agent and with an extractor (extracts is the set of references the      *)
(* agents' `outputs` tables can produce).                                  *)
(***************************************************************************)
Validate(dag, agents, extracts) ==
  /\ ValidDag(dag)
  /\ \A n \in dag.nodes :
       /\ dag.agent[n] \in agents
       /\ \A ref \in dag.outs[n] : ref[1] = dag.agent[n] /\ ref \in extracts
=============================================================================
