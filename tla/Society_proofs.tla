--------------------------- MODULE Society_proofs ---------------------------
(***************************************************************************)
(* Proofs about a run and about the society that makes one.                *)
(*                                                                         *)
(* DagRun, for any agents, references, finite DAGs and limits: TypeInv is  *)
(* the type invariant with what its induction needs; the other invariants  *)
(* each build on it, and so does the refinement of Handoff, the contract   *)
(* of the KV store.                                                        *)
(*                                                                         *)
(* Society, for any agents, DAGs and recorded faults: what the roles do to *)
(* their files and what their gates say are a run of DagRun, so whatever   *)
(* is proved of a run holds of it; and no frontend is approved before a    *)
(* backend is.  For the DAGs and faults the workers have scripts for       *)
(* (ReplayAssumption): the gates report every fault that was drawn, and    *)
(* what they let through works.                                            *)
(***************************************************************************)
EXTENDS Society, FiniteSetTheorems, TLAPS


-----------------------------------------------------------------------------
(* Type correctness. *)

Verdicts == {"approved", "rejected", "abstained", "error", "escalated"}
Records == [node : Nodes, agent : Agents, attempt : Nat, verdict : Verdicts]

TypeInv ==
  /\ TypeOK
  /\ phase \in {"running", "raised"} => Validate(dag, Agents, Refs)
  /\ \A n \in Nodes : pc[n] = "waiting" => tries[n] = 0
  /\ \A n \in Nodes : pc[n] \in {"working", "judging"} => att[n] # 0

\* The part of TypeInv' that execute_node's branches can disturb.
AttemptTyped ==
  /\ status \in {"completed", "escalated", "invalid"}
  /\ failed \in BOOLEAN
  /\ done \subseteq Nodes
  /\ pc \in [Nodes -> {"waiting", "working", "judging", "approved", "escalated", "skipped", "crashed"}]
  /\ tries \in [Nodes -> 0 .. MaxAttempts]
  /\ att \in [Nodes -> Nat]
  /\ runs \in [Agents -> Nat]
  /\ lineage \subseteq Records
  /\ \A n \in Nodes : pc[n] = "waiting" => tries[n] = 0
  /\ \A n \in Nodes : pc[n] \in {"working", "judging"} => att[n] # 0

\* A task runs only in a valid DAG, so its agent and its outputs are known.
LEMMA StepKnown ==
  ASSUME TypeInv, NEW n \in Nodes, CanStep(n)
  PROVE  /\ Agent(n) \in Agents
         /\ dag.outs[n] \subseteq Refs
         /\ dag.ins[n] \subseteq Refs
         /\ \A ref \in dag.outs[n] : ref[1] = Agent(n)
<1>1. Validate(dag, Agents, Refs)
  BY DEF TypeInv, CanStep
<1>2. \A m \in Nodes : /\ Agent(m) \in Agents
                       /\ \A ref \in dag.outs[m] : ref[1] = Agent(m) /\ ref \in Refs
  BY <1>1 DEF Validate, Nodes, Agent
<1>3. dag.ins[n] \subseteq UNION {dag.outs[u] : u \in Ancestors(dag, n)}
  BY <1>1 DEF Validate, ValidDag, Wired, Nodes
<1>4. Ancestors(dag, n) \subseteq Nodes
  BY DEF Ancestors, Nodes
<1> QED
  BY <1>2, <1>3, <1>4

LEMMA EscalateTyped ==
  ASSUME TypeInv, NEW n \in Nodes, Escalate(n), dag' = dag,
         UNCHANGED <<tries, att, runs>>, lineage' \subseteq Records
  PROVE  AttemptTyped'
  BY DEF TypeInv, TypeOK, AttemptTyped, Escalate, Nodes, Records

LEMMA BeginAttemptTyped ==
  ASSUME TypeInv, NEW n \in Nodes, Agent(n) \in Agents, tries[n] < MaxAttempts, dag' = dag,
         NEW c \in Nat, NEW L \in SUBSET Records, BeginAttempt(n, c, L)
  PROVE  AttemptTyped'
<1> USE DEF Nodes
<1>1. CASE c >= MaxRunCost /\ lineage' = L \cup {Record(n, 0, "escalated")} /\ Escalate(n)
           /\ UNCHANGED <<tries, att, runs>>
  <2>1. Record(n, 0, "escalated") \in Records
    BY DEF Record, Records, Verdicts
  <2> QED
    BY <1>1, <2>1, EscalateTyped DEF Records
<1>2. CASE /\ lineage' = L
           /\ runs' = [runs EXCEPT ![Agent(n)] = NextAttempt(n)]
           /\ att' = [att EXCEPT ![n] = NextAttempt(n)]
           /\ tries' = [tries EXCEPT ![n] = @ + 1]
           /\ pc' = [pc EXCEPT ![n] = "working"]
           /\ UNCHANGED <<status, failed, done>>
  <2>1. NextAttempt(n) \in Nat \ {0}
    BY DEF TypeInv, TypeOK, NextAttempt
  <2>2. tries[n] + 1 \in 0 .. MaxAttempts
    BY DagRunAssumption DEF TypeInv, TypeOK
  <2> QED
    BY <1>2, <2>1, <2>2 DEF TypeInv, TypeOK, AttemptTyped, Records
<1> QED
  BY <1>1, <1>2 DEF BeginAttempt

LEMMA EndAttemptTyped ==
  ASSUME TypeInv, NEW n \in Nodes, CanStep(n), pc[n] \in {"working", "judging"}, dag' = dag,
         NEW verdict \in Verdicts, EndAttempt(n, verdict)
  PROVE  AttemptTyped' /\ current' \in [Refs -> Nat] /\ spent' \in Nat
<1> USE DEF Nodes
<1>1. PICK c \in 0 .. MaxCallCost :
        LET L == lineage \cup {Record(n, att[n], verdict)} IN
        /\ spent' = spent + c
        /\ \/ verdict = "approved" /\ Approve(n, L)
           \/ verdict \in {"abstained", "error"} /\ Undecided(n, L)
           \/ verdict = "rejected" /\ Reject(n, L, spent + c)
  BY DEF EndAttempt
<1> DEFINE L == lineage \cup {Record(n, att[n], verdict)}
<1>2. c \in Nat /\ spent + c \in Nat
  BY DagRunAssumption DEF TypeInv, TypeOK
<1>3. /\ Agent(n) \in Agents
      /\ att[n] \in Nat /\ tries[n] \in 0 .. MaxAttempts
      /\ L \in SUBSET Records
  BY StepKnown DEF TypeInv, TypeOK, Record, Records, Verdicts
<1>4. MaxAttempts \in Nat \ {0}
  BY DagRunAssumption
<1> HIDE DEF L
<1>5. CASE Approve(n, L)
  <2>1. current' \in [Refs -> Nat]
    BY <1>3, <1>5 DEF Approve, Promoted, TypeInv, TypeOK
  <2> QED
    BY <1>1, <1>2, <1>3, <1>5, <2>1 DEF Approve, AttemptTyped, TypeInv, TypeOK, Records
<1>6. CASE Undecided(n, L)
  <2>1. lineage' \subseteq Records
    BY <1>3, <1>6 DEF Undecided, Record, Records, Verdicts
  <2> QED
    BY <1>1, <1>2, <1>6, <2>1, EscalateTyped DEF Undecided, TypeInv, TypeOK
<1>7. CASE Reject(n, L, spent + c)
  <2>1. current' \in [Refs -> Nat] /\ spent' \in Nat
    BY <1>1, <1>2, <1>7 DEF Reject, TypeInv, TypeOK
  <2>2. CASE tries[n] < MaxAttempts /\ BeginAttempt(n, spent + c, L)
    BY <1>2, <1>3, <2>1, <2>2, BeginAttemptTyped
  <2>3. CASE /\ lineage' = L \cup {Record(n, MaxAttempts, "escalated")}
             /\ Escalate(n)
             /\ UNCHANGED <<tries, att, runs>>
    <3>1. lineage' \subseteq Records
      BY <1>3, <1>4, <2>3 DEF Record, Records, Verdicts
    <3> QED
      BY <2>1, <2>3, <3>1, EscalateTyped
  <2> QED
    BY <1>7, <2>2, <2>3 DEF Reject
<1> QED
  BY <1>1, <1>5, <1>6, <1>7 DEF L

LEMMA TypeInit == Init => TypeInv
<1> SUFFICES ASSUME Init PROVE TypeInv
  OBVIOUS
<1> USE DEF Init, Nodes
<1>1. 0 \in 0 .. MaxAttempts
  BY DagRunAssumption
<1>2. /\ pc \in [Nodes -> {"waiting", "working", "judging", "approved", "escalated", "skipped", "crashed"}]
      /\ tries \in [Nodes -> 0 .. MaxAttempts]
      /\ att \in [Nodes -> Nat] /\ runs \in [Agents -> Nat] /\ current \in [Refs -> Nat]
  BY <1>1
<1>3. context \in [Nodes -> SUBSET [ref : Refs, attempt : Nat \ {0}]]
  OBVIOUS
<1> QED
  BY <1>2, <1>3 DEF TypeInv, TypeOK

LEMMA TypeStep == TypeInv /\ [Next]_vars => TypeInv'
<1> SUFFICES ASSUME TypeInv, [Next]_vars PROVE TypeInv'
  OBVIOUS
<1> USE DEF Nodes
<1>1. CASE RunStart
  BY <1>1 DEF RunStart, TypeInv, TypeOK, Records
<1>2. CASE RunEnd
  BY <1>2 DEF RunEnd, TypeInv, TypeOK, Records
<1>3. ASSUME NEW n \in Nodes, CanStep(n), dag' = dag, phase' = phase, AttemptTyped',
             written' \subseteq [ref : Refs, attempt : Nat \ {0}, by : Nodes],
             current' \in [Refs -> Nat],
             context' \in [Nodes -> SUBSET [ref : Refs, attempt : Nat \ {0}]],
             spent' \in Nat
      PROVE  TypeInv'
  BY <1>3 DEF AttemptTyped, TypeInv, TypeOK, Records, Verdicts
<1>4. ASSUME NEW n \in Nodes, StartNode(n) PROVE TypeInv'
  <2>1. CanStep(n) /\ dag' = dag /\ phase' = phase /\ UNCHANGED <<written, current, spent>>
    BY <1>4 DEF StartNode
  <2>2. CASE /\ \A ref \in dag.ins[n] : current[ref] # 0
             /\ context' = [context EXCEPT ![n] = {[ref |-> r, attempt |-> current[r]] : r \in dag.ins[n]}]
             /\ BeginAttempt(n, spent, lineage)
    <3>1. tries[n] < MaxAttempts
      BY <1>4, DagRunAssumption DEF StartNode, TypeInv
    <3>2. AttemptTyped'
      BY <2>1, <2>2, <3>1, StepKnown, BeginAttemptTyped DEF TypeInv, TypeOK, Records, Verdicts
    <3>3. context' \in [Nodes -> SUBSET [ref : Refs, attempt : Nat \ {0}]]
      BY <2>1, <2>2, StepKnown DEF TypeInv, TypeOK
    <3> QED
      BY <1>3, <2>1, <3>2, <3>3 DEF TypeInv, TypeOK
  <2>3. CASE Escalate(n) /\ UNCHANGED <<context, lineage, tries, att, runs>>
    <3>1. AttemptTyped'
      BY <2>1, <2>3, EscalateTyped DEF TypeInv, TypeOK, Records, Verdicts
    <3> QED
      BY <1>3, <2>1, <2>3, <3>1 DEF TypeInv, TypeOK
  <2> QED
    BY <1>4, <2>2, <2>3 DEF StartNode
<1>5. ASSUME NEW n \in Nodes, SkipNode(n) PROVE TypeInv'
  <2>1. AttemptTyped'
    BY <1>5 DEF SkipNode, AttemptTyped, TypeInv, TypeOK, Records, Verdicts
  <2> QED
    BY <1>3, <1>5, <2>1 DEF SkipNode, TypeInv, TypeOK
<1>6. ASSUME NEW n \in Nodes, WorkerReturns(n) PROVE TypeInv'
  <2>1. CanStep(n) /\ pc[n] = "working" /\ dag' = dag /\ phase' = phase /\ context' = context
    BY <1>6 DEF WorkerReturns
  <2>2. PICK W \in SUBSET dag.outs[n], err \in BOOLEAN :
          /\ written' = written \cup {[ref |-> r, attempt |-> att[n], by |-> n] : r \in W}
          /\ \/ err /\ EndAttempt(n, "rejected")
             \/ /\ ~err
                /\ pc' = [pc EXCEPT ![n] = "judging"]
                /\ UNCHANGED <<status, failed, done, tries, att, runs, current, lineage, spent>>
    BY <1>6 DEF WorkerReturns
  <2>3. written' \subseteq [ref : Refs, attempt : Nat \ {0}, by : Nodes]
    BY <2>1, <2>2, StepKnown DEF TypeInv, TypeOK
  <2>4. CASE EndAttempt(n, "rejected")
    <3>1. AttemptTyped' /\ current' \in [Refs -> Nat] /\ spent' \in Nat
      BY <2>1, <2>4, EndAttemptTyped DEF Verdicts
    <3> QED
      BY <1>3, <2>1, <2>3, <3>1 DEF TypeInv, TypeOK
  <2>5. CASE /\ pc' = [pc EXCEPT ![n] = "judging"]
             /\ UNCHANGED <<status, failed, done, tries, att, runs, current, lineage, spent>>
    <3>1. AttemptTyped'
      BY <2>1, <2>5 DEF AttemptTyped, TypeInv, TypeOK, Records, Verdicts
    <3> QED
      BY <1>3, <2>1, <2>3, <2>5, <3>1 DEF TypeInv, TypeOK
  <2> QED
    BY <2>2, <2>4, <2>5
<1>7. ASSUME NEW n \in Nodes, GatesDecide(n) PROVE TypeInv'
  <2>1. PICK verdict \in Verdicts : EndAttempt(n, verdict)
    BY <1>7 DEF GatesDecide, Verdicts
  <2>2. AttemptTyped' /\ current' \in [Refs -> Nat] /\ spent' \in Nat
    BY <1>7, <2>1, EndAttemptTyped DEF GatesDecide
  <2> QED
    BY <1>3, <1>7, <2>2 DEF GatesDecide, TypeInv, TypeOK
<1>8. ASSUME NEW n \in Nodes, RuntimeFault(n) PROVE TypeInv'
  <2>1. AttemptTyped'
    BY <1>8, EscalateTyped DEF RuntimeFault, TypeInv, TypeOK, Records, Verdicts
  <2> QED
    BY <1>3, <1>8, <2>1 DEF RuntimeFault, TypeInv, TypeOK
<1>9. ASSUME NEW n \in Nodes, Crash(n) PROVE TypeInv'
  <2>1. AttemptTyped'
    BY <1>9 DEF Crash, AttemptTyped, TypeInv, TypeOK, Records, Verdicts
  <2> QED
    BY <1>3, <1>9, <2>1 DEF Crash, TypeInv, TypeOK
<1>10. CASE UNCHANGED vars
  BY <1>10 DEF vars, TypeInv, TypeOK
<1> QED
  BY <1>1, <1>2, <1>4, <1>5, <1>6, <1>7, <1>8, <1>9, <1>10 DEF Next, NodeStep

LEMMA TypeInvariant == Spec => []TypeInv
  BY TypeInit, TypeStep, PTL DEF Spec

\* Every variable of a run keeps its type: no attempt is begun beyond the limit,
\* and a reader is only ever handed existing attempts of known references.
THEOREM TypeCorrect == Spec => []TypeOK
<1>1. TypeInv => TypeOK
  BY DEF TypeInv
<1> QED
  BY <1>1, TypeInvariant, PTL

-----------------------------------------------------------------------------
(***************************************************************************)
(* What a step of a task can do to the task and the run, whichever of its  *)
(* actions it is: begin an attempt, escalate, be approved, or just move on.*)
(***************************************************************************)
\* No approval goes on record and no pointer moves.
NothingApproved ==
  /\ UNCHANGED current
  /\ lineage \subseteq lineage'
  /\ \A r \in lineage' \ lineage : r.verdict # "approved"

Begins(n) ==
  /\ pc[n] = "waiting" => Ready(n)
  /\ pc' = [pc EXCEPT ![n] = "working"]
  /\ tries' = [tries EXCEPT ![n] = @ + 1]
  /\ att' = [att EXCEPT ![n] = runs[Agent(n)] + 1]
  /\ runs' = [runs EXCEPT ![Agent(n)] = @ + 1]
  /\ UNCHANGED <<status, failed, done>>
  /\ spent' < MaxRunCost
  /\ NothingApproved

Escalates(n) ==
  /\ Escalate(n)
  /\ UNCHANGED <<tries, att, runs>>
  /\ spent' <= spent + MaxCallCost
  /\ pc[n] = "waiting" => spent' = spent
  /\ NothingApproved

Approves(n) ==
  /\ pc[n] = "judging"
  /\ pc' = [pc EXCEPT ![n] = "approved"]
  /\ done' = done \cup {n}
  /\ UNCHANGED <<status, failed, tries, att, runs>>
  /\ spent' <= spent + MaxCallCost
  /\ lineage' = lineage \cup {Record(n, att[n], "approved")}
  /\ current' = Promoted(n)

Moves(n) ==
  /\ \/ pc[n] = "working" /\ pc' = [pc EXCEPT ![n] = "judging"]
     \/ pc' = [pc EXCEPT ![n] = "crashed"]
     \/ pc[n] = "waiting" /\ failed /\ pc' = [pc EXCEPT ![n] = "skipped"]
  /\ UNCHANGED <<status, failed, done, tries, att, runs, spent>>
  /\ NothingApproved

\* Only a worker's return writes, and only outputs of its own node and attempt.
Writes(n) ==
  \E W \in SUBSET dag.outs[n] :
    /\ pc[n] # "working" => W = {}
    /\ written' = written \cup {[ref |-> r, attempt |-> att[n], by |-> n] : r \in W}

\* Only a task that starts is handed its inputs, and all of them exist.
Reads(n) ==
  \/ UNCHANGED context
  \/ /\ pc[n] = "waiting" /\ pc'[n] # "waiting"
     /\ \A ref \in dag.ins[n] : current[ref] # 0
     /\ context' = [context EXCEPT ![n] = {[ref |-> r, attempt |-> current[r]] : r \in dag.ins[n]}]

Shape(n) ==
  /\ CanStep(n) /\ pc[n] \in {"waiting", "working", "judging"}
  /\ dag' = dag /\ phase' = phase
  /\ Writes(n)
  /\ Reads(n)
  /\ Begins(n) \/ Escalates(n) \/ Approves(n) \/ Moves(n)

LEMMA EndAttemptShape ==
  ASSUME TypeInv, NEW n \in Nodes, CanStep(n), pc[n] \in {"working", "judging"},
         NEW verdict \in Verdicts, EndAttempt(n, verdict),
         verdict = "approved" => pc[n] = "judging"
  PROVE  Begins(n) \/ Escalates(n) \/ Approves(n)
<1>1. PICK c \in 0 .. MaxCallCost :
        LET L == lineage \cup {Record(n, att[n], verdict)} IN
        /\ spent' = spent + c
        /\ \/ verdict = "approved" /\ Approve(n, L)
           \/ verdict \in {"abstained", "error"} /\ Undecided(n, L)
           \/ verdict = "rejected" /\ Reject(n, L, spent + c)
  BY DEF EndAttempt
<1> DEFINE L == lineage \cup {Record(n, att[n], verdict)}
<1>2. spent' <= spent + MaxCallCost
  BY <1>1, DagRunAssumption DEF TypeInv, TypeOK
<1>3. Agent(n) \in Agents
  BY StepKnown
<1>4. CASE verdict = "approved" /\ Approve(n, L)
  BY <1>2, <1>4 DEF Approve, Approves
<1>5. ASSUME verdict # "approved",
             \E v : lineage' = L \/ lineage' = L \cup {Record(n, v, "escalated")},
             UNCHANGED current
      PROVE  NothingApproved
  BY <1>5 DEF NothingApproved, Record
<1> HIDE DEF L
<1>6. CASE verdict # "approved" /\ Undecided(n, L)
  BY <1>2, <1>5, <1>6 DEF Undecided, Escalates
<1>7. CASE verdict # "approved" /\ Reject(n, L, spent + c)
  <2>1. NothingApproved
    BY <1>5, <1>7 DEF Reject, BeginAttempt
  <2> QED
    BY <1>1, <1>2, <1>3, <1>7, <2>1 DEF Reject, BeginAttempt, NextAttempt, Begins, Escalates, TypeInv, TypeOK
<1> QED
  BY <1>1, <1>4, <1>6, <1>7 DEF L

LEMMA StepShape ==
  ASSUME TypeInv, NEW n \in Nodes, NodeStep(n)
  PROVE  Shape(n)
<1> USE DEF Nodes
<1>0. written' = written => Writes(n)
  <2>1. written = written \cup {[ref |-> r, attempt |-> att[n], by |-> n] : r \in {}}
    OBVIOUS
  <2>2. {} \in SUBSET dag.outs[n]
    OBVIOUS
  <2> QED
    BY <2>1, <2>2, Zenon DEF Writes
<1>1. CASE StartNode(n)
  <2>1. Agent(n) \in Agents
    BY <1>1, StepKnown DEF StartNode
  <2>2. Begins(n) \/ Escalates(n)
    <3>1. NothingApproved
      BY <1>1 DEF StartNode, BeginAttempt, NothingApproved, Record
    <3> QED
      BY <1>1, <2>1, <3>1, DagRunAssumption
      DEF StartNode, BeginAttempt, NextAttempt, Begins, Escalates, TypeInv, TypeOK
  <2>3. Reads(n)
    BY <1>1, <2>2 DEF StartNode, Reads, Begins, Escalates, Escalate, TypeInv, TypeOK
  <2> QED
    BY <1>0, <1>1, <2>2, <2>3 DEF StartNode, Shape
<1>2. CASE SkipNode(n)
  BY <1>0, <1>2 DEF SkipNode, Moves, NothingApproved, Reads, Shape
<1>3. CASE WorkerReturns(n)
  <2>1. PICK W \in SUBSET dag.outs[n], err \in BOOLEAN :
          /\ written' = written \cup {[ref |-> r, attempt |-> att[n], by |-> n] : r \in W}
          /\ \/ err /\ EndAttempt(n, "rejected")
             \/ /\ ~err
                /\ pc' = [pc EXCEPT ![n] = "judging"]
                /\ UNCHANGED <<status, failed, done, tries, att, runs, current, lineage, spent>>
    BY <1>3 DEF WorkerReturns
  <2>2. Writes(n)
    BY <1>3, <2>1 DEF WorkerReturns, Writes
  <2>3. Begins(n) \/ Escalates(n) \/ Approves(n) \/ Moves(n)
    <3>1. CASE EndAttempt(n, "rejected")
      BY <1>3, <3>1, EndAttemptShape DEF WorkerReturns, Verdicts
    <3> QED
      BY <1>3, <2>1, <3>1 DEF WorkerReturns, Moves, NothingApproved
  <2> QED
    BY <1>3, <2>2, <2>3 DEF WorkerReturns, Reads, Shape
<1>4. CASE GatesDecide(n)
  <2>1. PICK verdict \in Verdicts : EndAttempt(n, verdict)
    BY <1>4 DEF GatesDecide, Verdicts
  <2> QED
    BY <1>0, <1>4, <2>1, EndAttemptShape DEF GatesDecide, Reads, Shape
<1>5. CASE RuntimeFault(n)
  <2>1. Escalates(n)
    BY <1>5, DagRunAssumption DEF RuntimeFault, AtRisk, Busy, Escalates, NothingApproved, TypeInv, TypeOK
  <2> QED
    BY <1>0, <1>5, <2>1 DEF RuntimeFault, AtRisk, Busy, Reads, Shape
<1>6. CASE Crash(n)
  <2>1. Moves(n)
    BY <1>6 DEF Crash, AtRisk, Busy, Moves, NothingApproved
  <2> QED
    BY <1>0, <1>6, <2>1 DEF Crash, AtRisk, Busy, Reads, Shape
<1> QED
  BY <1>1, <1>2, <1>3, <1>4, <1>5, <1>6 DEF NodeStep

-----------------------------------------------------------------------------
(* No node begins before everything upstream of it is approved. *)

Places == {"waiting", "working", "judging", "approved", "escalated", "skipped", "crashed"}

UpstreamInv ==
  /\ ~failed => done \subseteq Approved
  /\ \A n \in Nodes : tries[n] > 0 => dag.deps[n] \subseteq Approved
  /\ \A n \in Nodes : pc[n] \in {"working", "judging", "approved"} => tries[n] > 0

LEMMA UpstreamStep == TypeInv /\ UpstreamInv /\ [Next]_vars => UpstreamInv'
<1> SUFFICES ASSUME TypeInv, UpstreamInv, [Next]_vars PROVE UpstreamInv'
  OBVIOUS
<1> USE DEF Nodes
<1>1. ASSUME NEW n \in Nodes, Shape(n) PROVE UpstreamInv'
  <2>1. dag' = dag /\ n \notin Approved
    BY <1>1 DEF Shape, Approved
  <2>2. pc \in [Nodes -> Places] /\ tries \in [Nodes -> Nat] /\ done \subseteq Nodes /\ failed \in BOOLEAN
    BY DagRunAssumption DEF TypeInv, TypeOK, Places
  <2>3. CASE Begins(n)
    <3>1. Approved' = Approved
      BY <2>1, <2>2, <2>3 DEF Begins, Approved
    <3>2. tries[n] > 0 \/ dag.deps[n] \subseteq Approved
      BY <1>1, <2>2, <2>3 DEF Begins, Ready, Shape, UpstreamInv, TypeInv, TypeOK
    <3> QED
      BY <2>1, <2>2, <2>3, <3>1, <3>2 DEF Begins, UpstreamInv
  <2>4. CASE Escalates(n)
    <3>1. Approved' = Approved
      BY <2>1, <2>2, <2>4 DEF Escalates, Escalate, Approved
    <3> QED
      BY <2>1, <2>2, <2>4, <3>1 DEF Escalates, Escalate, UpstreamInv
  <2>5. CASE Approves(n)
    <3>1. Approved' = Approved \cup {n}
      BY <2>1, <2>2, <2>5 DEF Approves, Approved
    <3>2. tries[n] > 0
      BY <1>1, <2>5 DEF Approves, Shape, UpstreamInv
    <3>3. (~failed => done \subseteq Approved)'
      BY <2>5, <3>1 DEF Approves, UpstreamInv
    <3>4. (\A m \in Nodes : tries[m] > 0 => dag.deps[m] \subseteq Approved)'
      BY <2>1, <2>5, <3>1 DEF Approves, UpstreamInv
    <3>5. (\A m \in Nodes : pc[m] \in {"working", "judging", "approved"} => tries[m] > 0)'
      BY <2>1, <2>2, <2>5, <3>2 DEF Approves, UpstreamInv
    <3> QED
      BY <3>3, <3>4, <3>5 DEF UpstreamInv
  <2>6. CASE Moves(n)
    <3>1. Approved' = Approved
      BY <2>1, <2>2, <2>6 DEF Moves, Approved
    <3> QED
      BY <2>1, <2>2, <2>6, <3>1 DEF Moves, UpstreamInv
  <2> QED
    BY <1>1, <2>3, <2>4, <2>5, <2>6 DEF Shape
<1>2. CASE UNCHANGED <<dag, failed, done, pc, tries>>
  BY <1>2 DEF UpstreamInv, Approved
<1> QED
  BY <1>1, <1>2, StepShape DEF Next, RunStart, RunEnd, vars

LEMMA UpstreamInit == Init => UpstreamInv
  BY DEF Init, UpstreamInv, Approved, Nodes

\* Everything upstream lies in any dependency-closed set with the node's own
\* dependencies, and the approved nodes are such a set.
LEMMA UpstreamApproved == TypeInv /\ UpstreamInv => StartedAfterUpstream
<1> SUFFICES ASSUME TypeInv, UpstreamInv, NEW n \in Nodes, tries[n] > 0
             PROVE  Ancestors(dag, n) \subseteq Approved
  BY DEF StartedAfterUpstream
<1>1. DepClosed(dag, Approved)
  BY DEF DepClosed, UpstreamInv, Approved
<1>2. dag.deps[n] \subseteq Approved
  BY DEF UpstreamInv
<1>3. Approved \in SUBSET dag.nodes
  BY DEF Approved, Nodes
<1> QED
  BY <1>1, <1>2, <1>3 DEF Ancestors

(***************************************************************************)
(* Whatever the DAG, no node begins before all nodes upstream of it are    *)
(* approved, also when an escalation sets every completion event.          *)
(***************************************************************************)
THEOREM UpstreamFirst == Spec => []StartedAfterUpstream
<1>1. Init /\ TypeInv => UpstreamInv
  BY UpstreamInit
<1> QED
  BY <1>1, UpstreamStep, UpstreamApproved, TypeInvariant, PTL DEF Spec

-----------------------------------------------------------------------------
(* A run that reports "completed" has every node approved. *)

StatusInv ==
  /\ status = "completed" => ~failed /\ \A n \in Nodes : pc[n] \notin {"escalated", "skipped"}
  /\ CompletedMeansApproved

LEMMA StatusStep == TypeInv /\ StatusInv /\ [Next]_vars => StatusInv'
<1> SUFFICES ASSUME TypeInv, StatusInv, [Next]_vars PROVE StatusInv'
  OBVIOUS
<1> USE DEF Nodes
<1>1. ASSUME NEW n \in Nodes, Shape(n) PROVE StatusInv'
  <2>1. dag' = dag /\ phase' # "returned"
    BY <1>1 DEF Shape, CanStep
  <2>2. pc \in [Nodes -> Places]
    BY DEF TypeInv, TypeOK, Places
  <2>3. (status = "completed" => ~failed /\ \A m \in Nodes : pc[m] \notin {"escalated", "skipped"})'
    BY <1>1, <2>1, <2>2 DEF Shape, Begins, Escalates, Escalate, Approves, Moves, StatusInv
  <2> QED
    BY <2>1, <2>3 DEF StatusInv, CompletedMeansApproved
<1>2. CASE RunStart
  BY <1>2 DEF RunStart, StatusInv, CompletedMeansApproved
<1>3. CASE RunEnd
  <2>1. CASE phase' = "raised"
    BY <1>3, <2>1 DEF RunEnd, StatusInv, CompletedMeansApproved
  <2>2. CASE Over = Nodes /\ \A n \in Nodes : pc[n] # "crashed"
    <3>1. status = "completed" => \A n \in Nodes : pc[n] = "approved"
      BY <2>2 DEF Over, StatusInv
    <3> QED
      BY <1>3, <3>1 DEF RunEnd, StatusInv, CompletedMeansApproved, Approved
  <2> QED
    BY <1>3, <2>1, <2>2 DEF RunEnd
<1>4. CASE UNCHANGED vars
  BY <1>4 DEF vars, StatusInv, CompletedMeansApproved, Approved
<1> QED
  BY <1>1, <1>2, <1>3, <1>4, StepShape DEF Next

\* The result "completed" is never reported for a run in which some node was
\* skipped, escalated or lost.
THEOREM CompletedIsApproved == Spec => []CompletedMeansApproved
<1>1. Init => StatusInv
  BY DEF Init, StatusInv, CompletedMeansApproved, Nodes
<1>2. StatusInv => CompletedMeansApproved
  BY DEF StatusInv
<1> QED
  BY <1>1, <1>2, StatusStep, TypeInvariant, PTL DEF Spec

-----------------------------------------------------------------------------
(* Attempt numbers. *)

AttemptInv ==
  /\ \A n \in Nodes : att[n] # 0 => Agent(n) \in Agents /\ att[n] <= runs[Agent(n)]
  /\ \A w \in written : w.ref[1] \in Agents /\ w.attempt <= runs[w.ref[1]]
  /\ AttemptsUnique

LEMMA AttemptStep == TypeInv /\ AttemptInv /\ [Next]_vars => AttemptInv'
<1> SUFFICES ASSUME TypeInv, AttemptInv, [Next]_vars PROVE AttemptInv'
  OBVIOUS
<1> USE DEF Nodes, Agent
<1>1. ASSUME NEW n \in Nodes, Shape(n) PROVE AttemptInv'
  <2>1. dag' = dag /\ Agent(n) \in Agents /\ Validate(dag, Agents, Refs)
    BY <1>1, StepKnown DEF Shape, TypeInv, CanStep
  <2>2. \A m \in Nodes : \A ref \in dag.outs[m] : ref[1] = Agent(m)
    BY <2>1 DEF Validate
  <2>3. /\ pc \in [Nodes -> Places] /\ att \in [Nodes -> Nat] /\ runs \in [Agents -> Nat]
        /\ \A w \in written : w.attempt \in Nat
    BY DEF TypeInv, TypeOK, Places
  <2>4. PICK W \in SUBSET dag.outs[n] :
          /\ pc[n] # "working" => W = {}
          /\ written' = written \cup {[ref |-> r, attempt |-> att[n], by |-> n] : r \in W}
    BY <1>1 DEF Shape, Writes
  <2>5. W # {} => att[n] # 0 /\ att[n] <= runs[Agent(n)]
    BY <2>4 DEF AttemptInv, TypeInv
  <2>6. \A w \in written' \ written : w.ref \in dag.outs[n] /\ w.attempt = att[n] /\ pc[n] = "working"
    BY <2>4
  <2>7. \A w \in written' : w.attempt \in Nat /\ w.ref[1] \in Agents /\ w.attempt <= runs[w.ref[1]]
    BY <2>1, <2>2, <2>3, <2>4, <2>5, <2>6 DEF AttemptInv
  <2>8. CASE Begins(n)
    <3>1. /\ att'[n] = runs[Agent(n)] + 1 /\ runs'[Agent(n)] = runs[Agent(n)] + 1
          /\ \A m \in Nodes \ {n} : att'[m] = att[m] /\ pc'[m] = pc[m]
          /\ \A a \in Agents : runs'[a] \in Nat /\ runs'[a] >= runs[a]
      BY <2>1, <2>3, <2>8 DEF Begins
    <3>2. (\A m \in Nodes : att[m] # 0 => Agent(m) \in Agents /\ att[m] <= runs[Agent(m)])'
      BY <2>1, <2>3, <3>1 DEF AttemptInv
    <3>3. (\A w \in written : w.ref[1] \in Agents /\ w.attempt <= runs[w.ref[1]])'
      BY <2>3, <2>7, <3>1
    <3>4. (\A k, m \in Nodes : k # m /\ Agent(k) = Agent(m) /\ att[k] # 0 => att[k] # att[m])'
      BY <2>1, <2>3, <3>1 DEF AttemptInv, AttemptsUnique
    <3>5. ASSUME NEW m \in Nodes, pc'[m] = "working", NEW ref \in dag.outs[m], NEW w \in written',
                 w.ref = ref, w.attempt = att'[m]
          PROVE  FALSE
      <4>1. CASE m = n
        BY <2>1, <2>2, <2>3, <2>7, <3>1, <3>5, <4>1
      <4>2. CASE m # n /\ w \in written
        BY <3>1, <3>5, <4>2 DEF AttemptInv, AttemptsUnique, Exists
      <4>3. CASE m # n /\ w \notin written
        <5>1. Agent(m) = Agent(n) /\ att[m] = att[n] /\ att[n] # 0
          BY <2>2, <2>4, <2>5, <2>6, <3>1, <3>5, <4>3
        <5> QED
          BY <4>3, <5>1 DEF AttemptInv, AttemptsUnique
      <4> QED
        BY <4>1, <4>2, <4>3
    <3> QED
      BY <2>1, <3>2, <3>3, <3>4, <3>5 DEF AttemptInv, AttemptsUnique, Exists
  <2>9. CASE UNCHANGED <<att, runs>> /\ \A m \in Nodes : pc'[m] = "working" => m # n /\ pc[m] = "working"
    <3>1. ASSUME NEW m \in Nodes, pc'[m] = "working", NEW ref \in dag.outs[m], NEW w \in written',
                 w.ref = ref, w.attempt = att[m]
          PROVE  FALSE
      <4>1. CASE w \in written
        BY <2>9, <3>1, <4>1 DEF AttemptInv, AttemptsUnique, Exists
      <4>2. CASE w \notin written
        <5>1. m # n /\ Agent(m) = Agent(n) /\ att[m] = att[n] /\ att[n] # 0
          BY <2>2, <2>4, <2>5, <2>6, <2>9, <3>1, <4>2
        <5> QED
          BY <5>1 DEF AttemptInv, AttemptsUnique
      <4> QED
        BY <4>1, <4>2
    <3> QED
      BY <2>1, <2>7, <2>9, <3>1 DEF AttemptInv, AttemptsUnique, Exists
  <2>10. Escalates(n) \/ Approves(n) \/ Moves(n) =>
           UNCHANGED <<att, runs>> /\ \A m \in Nodes : pc'[m] = "working" => m # n /\ pc[m] = "working"
    BY <2>3 DEF Escalates, Escalate, Approves, Moves
  <2> QED
    BY <1>1, <2>8, <2>9, <2>10 DEF Shape
<1>2. CASE UNCHANGED <<dag, pc, att, runs, written>>
  BY <1>2 DEF AttemptInv, AttemptsUnique, Exists
<1> QED
  BY <1>1, <1>2, StepShape DEF Next, RunStart, RunEnd, vars

\* Two nodes of one agent never share an attempt number, and an attempt never
\* writes over an existing one, in whatever order parallel nodes retry.
THEOREM AttemptsAreUnique == Spec => []AttemptsUnique
<1>1. Init => AttemptInv
  BY DEF Init, AttemptInv, AttemptsUnique, Exists, Nodes
<1>2. AttemptInv => AttemptsUnique
  BY DEF AttemptInv
<1> QED
  BY <1>1, <1>2, AttemptStep, TypeInvariant, PTL DEF Spec

-----------------------------------------------------------------------------
(***************************************************************************)
(* The cost ceiling.  Each attempt under way may still cost MaxCallCost;   *)
(* with these set aside the bound is inductive.                            *)
(***************************************************************************)
Bound == MaxRunCost + Cardinality(Nodes) * MaxCallCost

CostInv == spent + Cardinality(Busy) * MaxCallCost < Bound

LEMMA Multiples ==
  ASSUME NEW i \in Nat, NEW j \in Nat, NEW m \in Nat
  PROVE  /\ i * m \in Nat
         /\ i <= j => i * m <= j * m
         /\ i + 1 <= j => i * m + m <= j * m
<1>1. i * m \in Nat /\ j * m \in Nat
  OBVIOUS
<1>2. i <= j => i * m <= j * m
  OBVIOUS
<1>3. (i + 1) * m = i * m + m
  OBVIOUS
<1>4. i + 1 <= j => (i + 1) * m <= j * m
  OBVIOUS
<1> QED
  BY <1>1, <1>2, <1>3, <1>4

BusyBound ==
  /\ IsFiniteSet(Nodes) /\ Cardinality(Nodes) \in Nat
  /\ IsFiniteSet(Busy) /\ Cardinality(Busy) \in Nat
  /\ Cardinality(Busy) <= Cardinality(Nodes)

LEMMA BusyFinite == TypeInv => BusyBound
<1> SUFFICES ASSUME TypeInv PROVE BusyBound
  OBVIOUS
<1>1. IsFiniteSet(Nodes)
  BY DagRunAssumption DEF TypeInv, TypeOK, Nodes
<1>2. Busy \subseteq Nodes
  BY DEF Busy
<1> QED
  BY <1>1, <1>2, FS_Subset, FS_CardinalityType DEF BusyBound

LEMMA CostStep == TypeInv /\ TypeInv' /\ CostInv /\ [Next]_vars => CostInv'
<1> SUFFICES ASSUME TypeInv, TypeInv', CostInv, [Next]_vars PROVE CostInv'
  OBVIOUS
<1>1. /\ spent \in Nat /\ spent' \in Nat
      /\ MaxRunCost \in Nat /\ MaxCallCost \in Nat
  BY DagRunAssumption DEF TypeInv, TypeOK
<1>2. dag' = dag /\ Nodes' = Nodes /\ Bound' = Bound
  BY DEF Next, NodeStep, RunStart, RunEnd, StartNode, SkipNode, WorkerReturns, GatesDecide, RuntimeFault,
         Crash, vars, Nodes, Bound
<1>3. IsFiniteSet(Busy) /\ Cardinality(Busy) \in Nat /\ Cardinality(Nodes) \in Nat
  BY BusyFinite DEF BusyBound
<1>4. Cardinality(Busy)' \in Nat /\ Cardinality(Busy)' <= Cardinality(Nodes)
  <2>1. BusyBound'
    BY BusyFinite, PTL
  <2> QED
    BY <1>2, <2>1 DEF BusyBound
<1>5. ASSUME NEW n \in Nodes, Shape(n) PROVE CostInv'
  <2>1. pc \in [Nodes -> Places] /\ n \in Nodes
    BY DEF TypeInv, TypeOK, Places
  <2>2. CASE Begins(n)
    <3>1. Cardinality(Busy)' * MaxCallCost <= Cardinality(Nodes) * MaxCallCost
      BY <1>1, <1>3, <1>4, Multiples
    <3>2. Cardinality(Busy)' * MaxCallCost \in Nat /\ Cardinality(Nodes) * MaxCallCost \in Nat
      BY <1>1, <1>3, <1>4, Multiples
    <3>3. spent' < MaxRunCost
      BY <2>2 DEF Begins
    <3> QED
      BY <1>1, <1>2, <3>1, <3>2, <3>3 DEF CostInv, Bound
  <2>3. CASE /\ n \in Busy /\ Busy' \subseteq Busy \ {n}
             /\ spent' <= spent + MaxCallCost
    <3>1. Cardinality(Busy)' + 1 <= Cardinality(Busy)
      <4>1. IsFiniteSet(Busy \ {n}) /\ Cardinality(Busy \ {n}) = Cardinality(Busy) - 1
        BY <1>3, <2>3, FS_RemoveElement
      <4>2. Cardinality(Busy') <= Cardinality(Busy \ {n})
        BY <2>3, <4>1, FS_Subset
      <4> QED
        BY <1>3, <1>4, <4>1, <4>2
    <3>2. Cardinality(Busy)' * MaxCallCost + MaxCallCost <= Cardinality(Busy) * MaxCallCost
      BY <1>1, <1>3, <1>4, <3>1, Multiples
    <3>3. /\ Cardinality(Busy)' * MaxCallCost \in Nat /\ Cardinality(Busy) * MaxCallCost \in Nat
          /\ Cardinality(Nodes) * MaxCallCost \in Nat
      BY <1>1, <1>3, <1>4, Multiples
    <3> QED
      BY <1>1, <1>2, <2>3, <3>2, <3>3 DEF CostInv, Bound
  <2>4. CASE Busy' \subseteq Busy /\ spent' = spent
    <3>1. Cardinality(Busy)' <= Cardinality(Busy)
      BY <1>3, <2>4, FS_Subset
    <3>2. Cardinality(Busy)' * MaxCallCost <= Cardinality(Busy) * MaxCallCost
      BY <1>1, <1>3, <1>4, <3>1, Multiples
    <3>3. /\ Cardinality(Busy)' * MaxCallCost \in Nat /\ Cardinality(Busy) * MaxCallCost \in Nat
          /\ Cardinality(Nodes) * MaxCallCost \in Nat
      BY <1>1, <1>3, <1>4, Multiples
    <3> QED
      BY <1>1, <1>2, <2>4, <3>2, <3>3 DEF CostInv, Bound
  <2>5. Escalates(n) \/ Approves(n) =>
          \/ n \in Busy /\ Busy' \subseteq Busy \ {n} /\ spent' <= spent + MaxCallCost
          \/ Busy' \subseteq Busy /\ spent' = spent
    BY <1>2, <1>5, <2>1 DEF Escalates, Escalate, Approves, Busy, Shape
  <2>6. Moves(n) => Busy' \subseteq Busy /\ spent' = spent
    BY <1>2, <1>5, <2>1 DEF Moves, Busy
  <2> QED
    BY <1>5, <2>2, <2>3, <2>4, <2>5, <2>6 DEF Shape
<1>6. CASE UNCHANGED <<dag, pc, spent>>
  BY <1>6 DEF CostInv, Bound, Busy, Nodes
<1> QED
  BY <1>5, <1>6, StepShape DEF Next, RunStart, RunEnd, vars

\* The ceiling is passed by less than one attempt per node, however many nodes
\* look at it before any of them has booked its cost.
THEOREM CeilingHolds == Spec => []CostCeiling
<1>1. Init /\ TypeInv => CostInv
  <2> SUFFICES ASSUME Init, TypeInv PROVE CostInv
    OBVIOUS
  <2>1. Busy = {}
    BY DEF Init, Busy, Nodes
  <2>2. Cardinality(Nodes) * MaxCallCost \in Nat
    BY BusyFinite, Multiples, DagRunAssumption DEF BusyBound
  <2>3. Cardinality(Busy) * MaxCallCost = 0
    BY <2>1, FS_EmptySet, DagRunAssumption
  <2>4. spent = 0 /\ MaxRunCost \in Nat \ {0}
    BY DagRunAssumption DEF Init
  <2> QED
    BY <2>2, <2>3, <2>4 DEF CostInv, Bound
<1>2. TypeInv /\ CostInv => CostCeiling
  <2> SUFFICES ASSUME TypeInv, CostInv PROVE CostCeiling
    OBVIOUS
  <2>1. Cardinality(Busy) * MaxCallCost \in Nat
    BY BusyFinite, Multiples, DagRunAssumption DEF BusyBound
  <2>2. Cardinality(Nodes) * MaxCallCost \in Nat
    BY BusyFinite, Multiples, DagRunAssumption DEF BusyBound
  <2> QED
    BY <2>1, <2>2, DagRunAssumption DEF CostInv, Bound, CostCeiling, TypeInv, TypeOK
<1> QED
  BY <1>1, <1>2, CostStep, TypeInvariant, PTL DEF Spec

-----------------------------------------------------------------------------
(* DagRun implements Handoff, the contract of the KV store.  The           *)
(* refinement mapping is the INSTANCE H of DagRun; its expressions have    *)
(* names here.                                                             *)

ApprovedAttempts == {<<r.agent, r.attempt>> : r \in {q \in lineage : q.verdict = "approved"}}
Versions == {[ref |-> w.ref, attempt |-> w.attempt] : w \in written}
Handed(n) == {[reader |-> n, ref |-> r.ref, attempt |-> r.attempt] : r \in context[n]}
Seen == UNION {Handed(n) : n \in Nodes}

(***************************************************************************)
(* What the mapping needs: an approval on record is the last attempt of an *)
(* approved node; what is stored under a node's attempt number was written *)
(* by the node, as one of its outputs; a waiting node was handed nothing.  *)
(***************************************************************************)
HandoffInv ==
  /\ \A r \in lineage : r.verdict = "approved" =>
       pc[r.node] = "approved" /\ r.agent = Agent(r.node) /\ r.attempt = att[r.node]
  /\ \A w \in written : w.ref \in dag.outs[w.by]
  /\ \A w \in written, n \in Nodes : w.ref[1] = Agent(n) /\ w.attempt = att[n] => w.by = n
  /\ \A n \in Nodes : pc[n] = "waiting" => context[n] = {}

LEMMA HandoffStep == TypeInv /\ AttemptInv /\ HandoffInv /\ [Next]_vars => HandoffInv'
<1> SUFFICES ASSUME TypeInv, AttemptInv, HandoffInv, [Next]_vars PROVE HandoffInv'
  OBVIOUS
<1> USE DEF Nodes, Agent
<1>1. ASSUME NEW n \in Nodes, Shape(n) PROVE HandoffInv'
  <2>1. dag' = dag /\ Agent(n) \in Agents /\ \A ref \in dag.outs[n] : ref[1] = Agent(n)
    BY <1>1, StepKnown DEF Shape
  <2>2. /\ pc \in [Nodes -> Places] /\ att \in [Nodes -> Nat] /\ runs \in [Agents -> Nat]
        /\ \A w \in written : w.attempt \in Nat
        /\ \A r \in lineage : r.node \in Nodes
        /\ DOMAIN context = Nodes
    BY DEF TypeInv, TypeOK, Places
  <2>3. pc[n] \in {"waiting", "working", "judging"}
    BY <1>1 DEF Shape
  <2>4. PICK W \in SUBSET dag.outs[n] :
          /\ pc[n] # "working" => W = {}
          /\ written' = written \cup {[ref |-> r, attempt |-> att[n], by |-> n] : r \in W}
    BY <1>1 DEF Shape, Writes
  <2>5. \A w \in written' \ written : w.ref \in dag.outs[n] /\ w.attempt = att[n] /\ w.by = n /\ att[n] # 0
    BY <2>4 DEF TypeInv
  <2>6. (\A w \in written : w.ref \in dag.outs[w.by])'
    BY <2>1, <2>4, <2>5 DEF HandoffInv
  <2>7. \A w \in written', m \in Nodes : w.ref[1] = Agent(m) /\ w.attempt = att[m] => w.by = m
    BY <2>1, <2>4, <2>5 DEF HandoffInv, AttemptInv, AttemptsUnique
  <2>8. (\A m \in Nodes : pc[m] = "waiting" => context[m] = {})'
    <3>1. \A m \in Nodes \ {n} : pc'[m] = pc[m] /\ context'[m] = context[m]
      BY <1>1, <2>2 DEF Shape, Begins, Escalates, Escalate, Approves, Moves, Reads
    <3>2. pc'[n] # "waiting"
      BY <1>1, <2>2 DEF Shape, Begins, Escalates, Escalate, Approves, Moves
    <3> QED
      BY <2>1, <3>1, <3>2 DEF HandoffInv
  <2>9. CASE Approves(n)
    <3>1. \A r \in lineage' \ lineage : r.node = n /\ r.agent = Agent(n) /\ r.attempt = att[n]
      BY <2>9 DEF Approves, Record
    <3>2. (\A r \in lineage : r.verdict = "approved" =>
             pc[r.node] = "approved" /\ r.agent = Agent(r.node) /\ r.attempt = att[r.node])'
      BY <2>1, <2>2, <2>3, <2>9, <3>1 DEF Approves, HandoffInv
    <3> QED
      BY <2>1, <2>6, <2>7, <2>8, <2>9, <3>2 DEF Approves, HandoffInv
  <2>10. CASE Begins(n)
    <3>1. att'[n] = runs[Agent(n)] + 1 /\ \A m \in Nodes \ {n} : att'[m] = att[m] /\ pc'[m] = pc[m]
      BY <2>2, <2>10 DEF Begins
    <3>2. \A w \in written' : w.ref[1] = Agent(n) => w.attempt # att'[n]
      BY <2>1, <2>2, <2>5, <3>1 DEF AttemptInv
    <3>3. (\A w \in written, m \in Nodes : w.ref[1] = Agent(m) /\ w.attempt = att[m] => w.by = m)'
      BY <2>1, <2>7, <3>1, <3>2
    <3>4. (\A r \in lineage : r.verdict = "approved" =>
             pc[r.node] = "approved" /\ r.agent = Agent(r.node) /\ r.attempt = att[r.node])'
      BY <2>1, <2>2, <2>3, <2>10, <3>1 DEF Begins, NothingApproved, HandoffInv
    <3> QED
      BY <2>6, <2>8, <3>3, <3>4 DEF HandoffInv
  <2>11. CASE Escalates(n) \/ Moves(n)
    <3>1. att' = att /\ NothingApproved /\ \A m \in Nodes \ {n} : pc'[m] = pc[m]
      BY <2>2, <2>11 DEF Escalates, Escalate, Moves
    <3>2. (\A r \in lineage : r.verdict = "approved" =>
             pc[r.node] = "approved" /\ r.agent = Agent(r.node) /\ r.attempt = att[r.node])'
      BY <2>1, <2>2, <2>3, <3>1 DEF NothingApproved, HandoffInv
    <3> QED
      BY <2>1, <2>6, <2>7, <2>8, <3>1, <3>2 DEF HandoffInv
  <2> QED
    BY <1>1, <2>9, <2>10, <2>11 DEF Shape
<1>2. CASE UNCHANGED <<dag, pc, att, written, lineage, context>>
  BY <1>2 DEF HandoffInv
<1> QED
  BY <1>1, <1>2, StepShape DEF Next, RunStart, RunEnd, vars

-----------------------------------------------------------------------------
(* Steps of DagRun are steps of Handoff, or stutter. *)

LEMMA RefineApproval ==
  ASSUME TypeInv, AttemptInv, HandoffInv, NEW n \in Nodes, Shape(n), Approves(n)
  PROVE  H!Next
<1> USE DEF Nodes, Agent
<1>1. dag' = dag /\ Agent(n) \in Agents /\ \A ref \in dag.outs[n] : ref[1] = Agent(n)
  BY StepKnown DEF Shape
<1>2. written' = written /\ context' = context
  BY DEF Approves, Shape, Writes, Reads
<1>3. att[n] # 0 /\ pc[n] = "judging"
  BY DEF Approves, TypeInv
<1>4. ApprovedAttempts' = ApprovedAttempts \cup {<<Agent(n), att[n]>>}
  <2> DEFINE rec == Record(n, att[n], "approved")
  <2>1. rec.verdict = "approved" /\ rec.agent = Agent(n) /\ rec.attempt = att[n]
    BY DEF Record
  <2>2. lineage' = lineage \cup {rec}
    BY DEF Approves
  <2> HIDE DEF rec
  <2>3. {q \in lineage' : q.verdict = "approved"} = {q \in lineage : q.verdict = "approved"} \cup {rec}
    BY <2>1, <2>2
  <2> QED
    BY <2>1, <2>3 DEF ApprovedAttempts
<1>5. <<Agent(n), att[n]>> \notin ApprovedAttempts
  <2> SUFFICES ASSUME NEW r \in lineage, r.verdict = "approved", r.agent = Agent(n), r.attempt = att[n]
               PROVE  FALSE
    BY DEF ApprovedAttempts
  <2>1. r.node \in Nodes /\ r.node # n /\ Agent(r.node) = Agent(n) /\ att[r.node] = att[n]
    BY <1>3 DEF HandoffInv, TypeInv, TypeOK
  <2> QED
    BY <1>3, <2>1 DEF AttemptInv, AttemptsUnique
<1>6. ASSUME NEW ref \in Refs
      PROVE  (ref \in dag.outs[n] /\ Exists(ref, att[n]))
             <=> (ref[1] = Agent(n) /\ [ref |-> ref, attempt |-> att[n]] \in Versions)
  <2>1. Exists(ref, att[n]) <=> [ref |-> ref, attempt |-> att[n]] \in Versions
    BY DEF Exists, Versions
  <2>2. ref[1] = Agent(n) /\ Exists(ref, att[n]) => ref \in dag.outs[n]
    BY DEF Exists, HandoffInv
  <2> QED
    BY <1>1, <2>1, <2>2
<1>7. current' = [ref \in Refs |-> IF ref[1] = Agent(n) /\ [ref |-> ref, attempt |-> att[n]] \in Versions
                                   THEN att[n] ELSE current[ref]]
  BY <1>6 DEF Approves, Promoted
<1>8. Versions' = Versions /\ Seen' = Seen
  BY <1>1, <1>2 DEF Versions, Seen, Handed
<1>9. PICK p \in ApprovedAttempts' \ ApprovedAttempts : p = <<Agent(n), att[n]>>
  BY <1>4, <1>5
<1>10. H!Promote(p[1], p[2])
  <2>1. /\ p \notin ApprovedAttempts /\ ApprovedAttempts' = ApprovedAttempts \cup {p}
        /\ p = <<p[1], p[2]>> /\ p[1] = Agent(n) /\ p[2] = att[n]
    BY <1>4, <1>5, <1>9
  <2> QED
    BY <1>7, <1>8, <2>1 DEF H!Promote, ApprovedAttempts, Versions, Seen, Handed
<1> QED
  BY <1>9, <1>10 DEF H!Next, ApprovedAttempts

LEMMA RefineOther ==
  ASSUME TypeInv, AttemptInv, HandoffInv, NEW n \in Nodes, Shape(n), NothingApproved
  PROVE  H!Publish \/ H!Read
<1> USE DEF Nodes, Agent
<1>1. /\ dag' = dag /\ Agent(n) \in Agents
      /\ dag.outs[n] \subseteq Refs /\ dag.ins[n] \subseteq Refs
      /\ \A ref \in dag.outs[n] : ref[1] = Agent(n)
  BY StepKnown DEF Shape
<1>2. ApprovedAttempts' = ApprovedAttempts
  <2>1. {q \in lineage' : q.verdict = "approved"} = {q \in lineage : q.verdict = "approved"}
    BY DEF NothingApproved
  <2> QED
    BY <2>1 DEF ApprovedAttempts
<1>3. current' = current
  BY DEF NothingApproved
<1>4. CASE context' = context
  <2>1. Seen' = Seen
    BY <1>1, <1>4 DEF Seen, Handed
  <2>2. PICK W \in SUBSET dag.outs[n] :
          /\ pc[n] # "working" => W = {}
          /\ written' = written \cup {[ref |-> r, attempt |-> att[n], by |-> n] : r \in W}
    BY DEF Shape, Writes
  <2>3. Versions' = Versions \cup {[ref |-> r, attempt |-> att[n]] : r \in W}
    <3>1. ASSUME NEW w \in written' PROVE [ref |-> w.ref, attempt |-> w.attempt] \in
                                             Versions \cup {[ref |-> r, attempt |-> att[n]] : r \in W}
      BY <2>2 DEF Versions
    <3>2. ASSUME NEW w \in written PROVE [ref |-> w.ref, attempt |-> w.attempt] \in Versions'
      BY <2>2 DEF Versions
    <3>3. ASSUME NEW r \in W PROVE [ref |-> r, attempt |-> att[n]] \in Versions'
      <4> DEFINE w == [ref |-> r, attempt |-> att[n], by |-> n]
      <4>1. w \in written' /\ w.ref = r /\ w.attempt = att[n]
        BY <2>2
      <4> QED
        BY <4>1 DEF Versions
    <3> QED
      BY <3>1, <3>2, <3>3 DEF Versions
  <2>4. W # {} => att[n] \in Nat \ {0} /\ <<Agent(n), att[n]>> \notin ApprovedAttempts
    <3> SUFFICES ASSUME W # {}
                 PROVE  att[n] \in Nat \ {0} /\ <<Agent(n), att[n]>> \notin ApprovedAttempts
      OBVIOUS
    <3>1. pc[n] = "working" /\ att[n] \in Nat \ {0}
      BY <2>2 DEF TypeInv, TypeOK
    <3>2. ASSUME NEW r \in lineage, r.verdict = "approved", r.agent = Agent(n), r.attempt = att[n]
          PROVE  FALSE
      <4>1. r.node \in Nodes /\ r.node # n /\ Agent(r.node) = Agent(n) /\ att[r.node] = att[n]
        BY <3>1, <3>2 DEF HandoffInv, TypeInv, TypeOK
      <4> QED
        BY <3>1, <4>1 DEF AttemptInv, AttemptsUnique
    <3> QED
      BY <3>1, <3>2 DEF ApprovedAttempts
  <2>5. \A v \in Versions' \ Versions :
          v.ref \in Refs /\ v.attempt \in Nat \ {0} /\ <<v.ref[1], v.attempt>> \notin ApprovedAttempts
    BY <1>1, <2>2, <2>3, <2>4
  <2> QED
    BY <1>2, <1>3, <2>1, <2>3, <2>5 DEF H!Publish, ApprovedAttempts, Versions, Seen, Handed
<1>5. CASE context' # context
  <2>1. /\ pc[n] = "waiting"
        /\ \A ref \in dag.ins[n] : current[ref] # 0
        /\ context' = [context EXCEPT ![n] = {[ref |-> r, attempt |-> current[r]] : r \in dag.ins[n]}]
    BY <1>5 DEF Shape, Reads
  <2>2. Versions' = Versions
    BY <2>1 DEF Shape, Writes, Versions
  <2>3. DOMAIN context = Nodes /\ context[n] = {}
    BY <2>1 DEF HandoffInv, TypeInv, TypeOK
  <2>4. Handed(n) = {} /\ \A m \in Nodes \ {n} : Handed(m)' = Handed(m)
    BY <2>1, <2>3 DEF Handed
  <2>5. Seen' = Seen \cup Handed(n)'
    BY <1>1, <2>4 DEF Seen
  <2>6. \A x \in Handed(n)' : /\ x.reader = n /\ x.ref \in Refs
                              /\ x.attempt = current[x.ref] /\ x.attempt # 0
    BY <1>1, <2>1, <2>3 DEF Handed
  <2>7. n \in UNION {d.nodes : d \in Dags}
    BY DEF TypeInv, TypeOK
  <2>8. /\ Seen \subseteq Seen'
        /\ \A x \in Seen' \ Seen : /\ x.reader \in UNION {d.nodes : d \in Dags}
                                   /\ x.ref \in Refs /\ x.attempt = current[x.ref] /\ x.attempt # 0
    BY <2>5, <2>6, <2>7
  <2> QED
    BY <1>2, <1>3, <2>2, <2>8 DEF H!Read, ApprovedAttempts, Versions, Seen, Handed
<1> QED
  BY <1>4, <1>5

LEMMA RefineStep == TypeInv /\ AttemptInv /\ HandoffInv /\ [Next]_vars => [H!Next]_H!hvars
<1> SUFFICES ASSUME TypeInv, AttemptInv, HandoffInv, [Next]_vars PROVE [H!Next]_H!hvars
  OBVIOUS
<1>1. ASSUME NEW n \in Nodes, Shape(n) PROVE H!Next
  <2>1. CASE Approves(n)
    BY <1>1, <2>1, RefineApproval
  <2>2. CASE NothingApproved
    BY <1>1, <2>2, RefineOther DEF H!Next
  <2> QED
    BY <1>1, <2>1, <2>2 DEF Shape, Begins, Escalates, Moves
<1>2. CASE UNCHANGED <<dag, written, lineage, current, context>>
  BY <1>2 DEF H!hvars, Nodes
<1> QED
  BY <1>1, <1>2, StepShape DEF Next, RunStart, RunEnd, vars

LEMMA RefineInit == Init => HandoffInv /\ H!Init
  BY DEF Init, HandoffInv, H!Init, Nodes

(***************************************************************************)
(* The runner keeps the hand-off contract: attempts are never rewritten,   *)
(* only what the gates approved is promoted, a whole attempt at a time,    *)
(* and a reader is handed exactly what the pointers name.                  *)
(***************************************************************************)
THEOREM RunImplementsHandoff == Spec => HandoffContract
<1>1. Init => AttemptInv
  BY DEF Init, AttemptInv, AttemptsUnique, Exists, Nodes
<1> QED
  BY <1>1, RefineInit, RefineStep, HandoffStep, AttemptStep, TypeInvariant, PTL DEF Spec, HandoffContract, H!Spec

-----------------------------------------------------------------------------
(* What the contract guarantees its readers.                               *)

\* A pointer names an attempt that exists and was approved.
PointersApproved ==
  \A r \in Refs : current[r] # 0 =>
    [ref |-> r, attempt |-> current[r]] \in Versions /\ <<r[1], current[r]>> \in ApprovedAttempts
ShownApproved ==
  \A x \in Seen : [ref |-> x.ref, attempt |-> x.attempt] \in Versions /\ <<x.ref[1], x.attempt>> \in ApprovedAttempts

\* The actions of the contract, in the names of its state.
PublishNamed ==
  /\ Versions \subseteq Versions' /\ ApprovedAttempts' = ApprovedAttempts /\ current' = current /\ Seen' = Seen
PromoteNamed(agent, attempt) ==
  /\ Versions' = Versions /\ Seen' = Seen /\ ApprovedAttempts' = ApprovedAttempts \cup {<<agent, attempt>>}
  /\ current' = [r \in Refs |-> IF r[1] = agent /\ [ref |-> r, attempt |-> attempt] \in Versions
                                  THEN attempt ELSE current[r]]
ReadNamed ==
  /\ Versions' = Versions /\ ApprovedAttempts' = ApprovedAttempts /\ current' = current
  /\ \A x \in Seen' \ Seen : x.ref \in Refs /\ x.attempt = current[x.ref] /\ x.attempt # 0
StillNamed == Versions' = Versions /\ ApprovedAttempts' = ApprovedAttempts /\ current' = current /\ Seen' = Seen

LEMMA ContractSteps ==
  ASSUME [H!Next]_H!hvars
  PROVE  PublishNamed \/ ReadNamed \/ StillNamed \/ \E p \in ApprovedAttempts' : PromoteNamed(p[1], p[2])
<1>1. CASE H!Publish
  BY <1>1 DEF H!Publish, PublishNamed, Versions, ApprovedAttempts, Seen, Handed
<1>2. CASE H!Read
  BY <1>2 DEF H!Read, ReadNamed, Versions, ApprovedAttempts, Seen, Handed
<1>3. ASSUME NEW p \in ApprovedAttempts', H!Promote(p[1], p[2])
      PROVE  PromoteNamed(p[1], p[2])
  BY <1>3 DEF H!Promote, PromoteNamed, Versions, ApprovedAttempts, Seen, Handed
<1>4. CASE UNCHANGED H!hvars
  BY <1>4 DEF H!hvars, StillNamed, Versions, ApprovedAttempts, Seen, Handed
<1> QED
  BY <1>1, <1>2, <1>3, <1>4 DEF H!Next, ApprovedAttempts

LEMMA ShownStep == PointersApproved /\ ShownApproved /\ [H!Next]_H!hvars => (PointersApproved /\ ShownApproved)'
<1> SUFFICES ASSUME PointersApproved, ShownApproved, [H!Next]_H!hvars PROVE PointersApproved' /\ ShownApproved'
  OBVIOUS
<1> USE DEF PointersApproved, ShownApproved
<1>1. CASE PublishNamed
  BY <1>1 DEF PublishNamed
<1>2. ASSUME NEW p, PromoteNamed(p[1], p[2]) PROVE PointersApproved' /\ ShownApproved'
  BY <1>2 DEF PromoteNamed
<1>3. CASE ReadNamed
  BY <1>3 DEF ReadNamed
<1>4. CASE StillNamed
  BY <1>4 DEF StillNamed
<1> QED
  BY <1>1, <1>2, <1>3, <1>4, ContractSteps

LEMMA ShownBegins == H!Init => PointersApproved /\ ShownApproved
<1> SUFFICES ASSUME H!Init PROVE PointersApproved /\ ShownApproved
  OBVIOUS
<1>1. Seen = {} /\ current = [r \in Refs |-> 0]
  BY DEF H!Init, Seen, Handed
<1> QED
  BY <1>1 DEF PointersApproved, ShownApproved

(***************************************************************************)
(* Whatever a reader was handed exists and was approved by the gates (the  *)
(* class docstring of kv.py): the contract alone promises it, whoever      *)
(* keeps it.                                                               *)
(***************************************************************************)
THEOREM OnlyApprovedSeen == HandoffContract => []H!OnlyApprovedIsSeen
<1>1. ShownApproved => H!OnlyApprovedIsSeen
  BY DEF ShownApproved, H!OnlyApprovedIsSeen, Versions, ApprovedAttempts, Seen, Handed
<1> QED
  BY <1>1, ShownBegins, ShownStep, PTL DEF HandoffContract, H!Spec

\* So every node of a run, of any DAG, was handed approved attempts only.
THEOREM RunShowsApproved == Spec => []H!OnlyApprovedIsSeen
BY RunImplementsHandoff, OnlyApprovedSeen, PTL

-----------------------------------------------------------------------------
(***************************************************************************)
(* Who a reader reads from.  A pointer names an attempt that is on record  *)
(* as approved, written by the approved node, under its own agent.         *)
(***************************************************************************)
Source(ref, a, rec) ==
  /\ rec.verdict = "approved" /\ rec.attempt = a
  /\ [ref |-> ref, attempt |-> a, by |-> rec.node] \in written
  /\ rec.node \in Approved /\ Agent(rec.node) = ref[1]

PointerInv == \A ref \in Refs : current[ref] # 0 => \E rec \in lineage : Source(ref, current[ref], rec)

LEMMA PointerStep == TypeInv /\ HandoffInv /\ PointerInv /\ [Next]_vars => PointerInv'
<1> SUFFICES ASSUME TypeInv, HandoffInv, PointerInv, [Next]_vars,
                    NEW ref \in Refs, current'[ref] # 0
             PROVE  \E rec \in lineage' : Source(ref, current[ref], rec)'
  BY DEF PointerInv
<1> USE DEF Nodes, Agent
<1>1. ASSUME NEW n \in Nodes, Shape(n) PROVE \E rec \in lineage' : Source(ref, current[ref], rec)'
  <2>1. dag' = dag /\ \A r \in dag.outs[n] : r[1] = Agent(n)
    BY <1>1, StepKnown DEF Shape
  <2>2. pc \in [Nodes -> Places] /\ pc[n] \in {"waiting", "working", "judging"}
    BY <1>1 DEF TypeInv, TypeOK, Places, Shape
  <2>3. written \subseteq written' /\ lineage \subseteq lineage' /\ Approved \subseteq Approved'
    BY <1>1, <2>1, <2>2
    DEF Shape, Writes, Begins, Escalates, Escalate, Approves, Moves, NothingApproved, Approved
  <2>4. CASE current'[ref] = current[ref]
    <3>1. PICK rec \in lineage : Source(ref, current[ref], rec)
      BY <2>4 DEF PointerInv
    <3>2. Source(ref, current[ref], rec)'
      BY <2>1, <2>3, <2>4, <3>1 DEF Source
    <3> QED
      BY <2>3, <3>2
  <2>5. CASE current'[ref] # current[ref]
    <3>1. Approves(n) /\ ref \in dag.outs[n] /\ Exists(ref, att[n]) /\ current'[ref] = att[n]
      BY <1>1, <2>5 DEF Shape, Begins, Escalates, Moves, NothingApproved, Approves, Promoted
    <3>2. [ref |-> ref, attempt |-> att[n], by |-> n] \in written
      <4>1. PICK w \in written : w.ref = ref /\ w.attempt = att[n]
        BY <3>1 DEF Exists
      <4>2. w.by = n /\ w \in [ref : Refs, attempt : Nat \ {0}, by : Nodes]
        BY <2>1, <3>1, <4>1 DEF HandoffInv, TypeInv, TypeOK
      <4> QED
        BY <4>1, <4>2
    <3>3. PICK rec \in lineage' : rec.verdict = "approved" /\ rec.attempt = att[n] /\ rec.node = n
      <4> DEFINE new == Record(n, att[n], "approved")
      <4>1. new.verdict = "approved" /\ new.attempt = att[n] /\ new.node = n
        BY DEF Record
      <4>2. lineage' = lineage \cup {new}
        BY <3>1 DEF Approves
      <4> HIDE DEF new
      <4> QED
        BY <4>1, <4>2
    <3>4. n \in Approved'
      BY <2>1, <2>2, <3>1 DEF Approves, Approved
    <3>5. Source(ref, current[ref], rec)'
      BY <2>1, <2>3, <3>1, <3>2, <3>3, <3>4 DEF Source
    <3> QED
      BY <3>3, <3>5
  <2> QED
    BY <2>4, <2>5
<1>2. CASE UNCHANGED <<dag, pc, written, lineage, current>>
  BY <1>2 DEF PointerInv, Source, Approved
<1> QED
  BY <1>1, <1>2, StepShape DEF Next, RunStart, RunEnd, vars

\* A waiting node whose inputs are all there: their writers are approved, so
\* none of them is the reader or waits, directly or not, for the reader.
LEMMA SourceUpstream ==
  ASSUME TypeInv, UpstreamInv, NEW n \in Nodes, CanStep(n), pc[n] = "waiting",
         NEW ref \in dag.ins[n], NEW rec \in lineage, NEW a, Source(ref, a, rec)
  PROVE  /\ rec.node \notin {n} \cup Descendants(dag, n)
         /\ SoleNode(ref[1]) => rec.node \in Ancestors(dag, n)
<1> USE DEF Nodes, Agent
<1>1. rec.node \in Nodes /\ pc[rec.node] = "approved"
  BY DEF Source, Approved
<1>2. Ancestors(dag, rec.node) \subseteq Approved
  BY <1>1, UpstreamApproved DEF UpstreamInv, StartedAfterUpstream
<1>3. n \notin Approved
  BY DEF Approved
<1>4. Validate(dag, Agents, Refs)
  BY DEF TypeInv, CanStep
<1>5. PICK u \in Ancestors(dag, n) : ref \in dag.outs[u]
  BY <1>4 DEF Validate, ValidDag, Wired
<1>6. u \in Nodes /\ Agent(u) = ref[1]
  BY <1>4, <1>5 DEF Ancestors, Validate
<1> QED
  BY <1>1, <1>2, <1>3, <1>5, <1>6 DEF Descendants, SoleNode, Source

LEMMA UpstreamReadStep ==
  TypeInv /\ UpstreamInv /\ PointerInv /\ HandoffFromUpstream /\ [Next]_vars => HandoffFromUpstream'
<1> SUFFICES ASSUME TypeInv, UpstreamInv, PointerInv, HandoffFromUpstream, [Next]_vars
             PROVE  HandoffFromUpstream'
  OBVIOUS
<1> USE DEF Nodes, Agent
<1>1. ASSUME NEW n \in Nodes, Shape(n) PROVE HandoffFromUpstream'
  <2>1. dag' = dag /\ written \subseteq written' /\ lineage \subseteq lineage'
    BY <1>1 DEF Shape, Writes, Begins, Escalates, Approves, Moves, NothingApproved
  <2>2. ASSUME NEW m \in Nodes, NEW r \in context'[m], r \notin context[m]
        PROVE  \E rec \in lineage : Source(r.ref, r.attempt, rec) /\ m = n /\ r.ref \in dag.ins[n]
                                    /\ pc[n] = "waiting" /\ CanStep(n)
    <3>1. /\ pc[n] = "waiting" /\ CanStep(n)
          /\ \A ref \in dag.ins[n] : current[ref] # 0
          /\ context' = [context EXCEPT ![n] = {[ref |-> x, attempt |-> current[x]] : x \in dag.ins[n]}]
      BY <1>1, <2>2 DEF Shape, Reads
    <3>2. m = n /\ DOMAIN context = Nodes
      BY <2>2, <3>1 DEF TypeInv, TypeOK
    <3>3. r.ref \in dag.ins[n] /\ r.attempt = current[r.ref] /\ r.ref \in Refs
      BY <2>2, <3>1, <3>2, StepKnown
    <3> QED
      BY <3>1, <3>2, <3>3 DEF PointerInv
  <2> SUFFICES ASSUME NEW m \in Nodes, NEW r \in context'[m]
               PROVE  \E rec \in lineage' :
                        /\ rec.verdict = "approved" /\ rec.attempt = r.attempt
                        /\ [ref |-> r.ref, attempt |-> r.attempt, by |-> rec.node] \in written'
                        /\ rec.node \notin {m} \cup Descendants(dag, m)
                        /\ SoleNode(r.ref[1]) => rec.node \in Ancestors(dag, m)
    BY <2>1 DEF HandoffFromUpstream, SoleNode
  <2>3. CASE r \in context[m]
    BY <2>1, <2>3 DEF HandoffFromUpstream
  <2>4. CASE r \notin context[m]
    <3>1. PICK rec \in lineage : Source(r.ref, r.attempt, rec) /\ m = n /\ r.ref \in dag.ins[n]
                                 /\ pc[n] = "waiting" /\ CanStep(n)
      BY <2>2, <2>4
    <3>2. rec.node \notin {n} \cup Descendants(dag, n) /\ (SoleNode(r.ref[1]) => rec.node \in Ancestors(dag, n))
      BY <3>1, SourceUpstream
    <3> QED
      BY <2>1, <3>1, <3>2 DEF Source
  <2> QED
    BY <2>3, <2>4
<1>2. CASE UNCHANGED <<dag, written, lineage, context>>
  BY <1>2 DEF HandoffFromUpstream, SoleNode
<1> QED
  BY <1>1, <1>2, StepShape DEF Next, RunStart, RunEnd, vars

LEMMA HandoffInvariant == Spec => [](TypeInv /\ UpstreamInv /\ HandoffInv /\ PointerInv)
<1>1. Init => AttemptInv
  BY DEF Init, AttemptInv, AttemptsUnique, Exists, Nodes
<1>2. Init => PointerInv
  BY DEF Init, PointerInv
<1> QED
  BY <1>1, <1>2, RefineInit, UpstreamInit, UpstreamStep, HandoffStep, AttemptStep, PointerStep,
     TypeInvariant, PTL DEF Spec

(***************************************************************************)
(* Whatever a node was handed was written and approved as one attempt of   *)
(* one node, never its own or that of a node downstream of it, and that of *)
(* a node upstream of it when the producing agent has one node.            *)
(***************************************************************************)
THEOREM ReadFromUpstream == Spec => []HandoffFromUpstream
<1>1. Init => HandoffFromUpstream
  BY DEF Init, HandoffFromUpstream, Nodes
<1> QED
  BY <1>1, HandoffInvariant, UpstreamReadStep, PTL DEF Spec

-----------------------------------------------------------------------------
(***************************************************************************)
(* How a pointer moves.  It names the last attempt of an approved node;    *)
(* and of two nodes of one agent, the one upstream has the lower number,   *)
(* since it makes no further attempt once the other has begun.             *)
(***************************************************************************)
Promoter(ref, m) == pc[m] = "approved" /\ Agent(m) = ref[1] /\ att[m] = current[ref]

OrderInv ==
  /\ \A ref \in Refs : current[ref] # 0 => \E m \in Nodes : Promoter(ref, m)
  /\ \A n \in Nodes : att[n] # 0 => tries[n] > 0
  /\ \A m, n \in Nodes : m \in Ancestors(dag, n) /\ Agent(m) = Agent(n) /\ att[n] # 0 => att[m] < att[n]

LEMMA OrderStep == TypeInv /\ UpstreamInv /\ AttemptInv /\ OrderInv /\ [Next]_vars => OrderInv'
<1> SUFFICES ASSUME TypeInv, UpstreamInv, AttemptInv, OrderInv, [Next]_vars PROVE OrderInv'
  OBVIOUS
<1> USE DEF Nodes, Agent
<1>1. ASSUME NEW n \in Nodes, Shape(n) PROVE OrderInv'
  <2>1. dag' = dag /\ Agent(n) \in Agents /\ \A r \in dag.outs[n] : r[1] = Agent(n)
    BY <1>1, StepKnown DEF Shape
  <2>2. /\ pc \in [Nodes -> Places] /\ pc[n] \in {"waiting", "working", "judging"}
        /\ tries \in [Nodes -> Nat] /\ att \in [Nodes -> Nat] /\ runs \in [Agents -> Nat]
    BY <1>1, DagRunAssumption DEF TypeInv, TypeOK, Places, Shape
  <2>3. CASE Begins(n)
    <3>1. /\ pc' = [pc EXCEPT ![n] = "working"] /\ tries' = [tries EXCEPT ![n] = @ + 1]
          /\ att' = [att EXCEPT ![n] = runs[Agent(n)] + 1] /\ current' = current
      BY <2>3 DEF Begins, NothingApproved
    <3>2. (\A ref \in Refs : current[ref] # 0 => \E m \in Nodes : Promoter(ref, m))'
      BY <2>1, <2>2, <3>1 DEF OrderInv, Promoter
    <3>3. (\A m \in Nodes : att[m] # 0 => tries[m] > 0)'
      BY <2>1, <2>2, <3>1 DEF OrderInv
    <3>4. \A m \in Nodes : Agent(m) = Agent(n) => att[m] < runs[Agent(n)] + 1
      BY <2>1, <2>2 DEF AttemptInv
    <3>5. \A m \in Nodes : att[m] # 0 => n \notin Ancestors(dag, m)
      BY <2>2, UpstreamApproved DEF OrderInv, StartedAfterUpstream, Approved
    <3>6. ASSUME NEW m \in Nodes, NEW k \in Nodes, m \in Ancestors(dag, k), Agent(m) = Agent(k), att'[k] # 0
          PROVE  att'[m] < att'[k]
      <4>0. Acyclic(dag)
        BY <1>1 DEF Shape, CanStep, TypeInv, Validate, ValidDag
      <4>1. m # k
        BY <3>6, <4>0 DEF Acyclic
      <4>2. CASE k = n
        BY <2>2, <3>1, <3>4, <3>6, <4>1, <4>2
      <4>3. CASE k # n
        <5>1. att[k] # 0 /\ m # n
          BY <2>2, <3>1, <3>5, <3>6, <4>3
        <5> QED
          BY <2>2, <3>1, <3>6, <4>3, <5>1 DEF OrderInv
      <4> QED
        BY <4>2, <4>3
    <3> QED
      BY <2>1, <3>2, <3>3, <3>6 DEF OrderInv
  <2>4. CASE ~Begins(n)
    <3>1. tries' = tries /\ att' = att /\ \A m \in Nodes : pc[m] = "approved" => pc'[m] = "approved"
      BY <1>1, <2>1, <2>2, <2>4 DEF Shape, Escalates, Escalate, Approves, Moves
    <3>2. ASSUME NEW ref \in Refs, current'[ref] # 0 PROVE \E m \in Nodes : Promoter(ref, m)'
      <4>1. CASE current'[ref] = current[ref]
        BY <2>1, <3>1, <3>2, <4>1 DEF OrderInv, Promoter
      <4>2. CASE current'[ref] # current[ref]
        <5>1. Approves(n) /\ ref \in dag.outs[n] /\ current'[ref] = att[n]
          BY <1>1, <2>4, <3>2, <4>2 DEF Shape, Escalates, Moves, NothingApproved, Approves, Promoted
        <5>2. Promoter(ref, n)'
          BY <2>1, <2>2, <3>1, <5>1 DEF Approves, Promoter
        <5> QED
          BY <5>2
      <4> QED
        BY <4>1, <4>2
    <3> QED
      BY <2>1, <3>1, <3>2 DEF OrderInv
  <2> QED
    BY <2>3, <2>4
<1>2. CASE UNCHANGED <<dag, pc, tries, att, current>>
  BY <1>2 DEF OrderInv, Promoter
<1> QED
  BY <1>1, <1>2, StepShape DEF Next, RunStart, RunEnd, vars

\* The step that moves a pointer back approves a node unordered with the
\* one whose attempt the pointer named.
PointerMoves ==
  \A ref \in Refs : current'[ref] < current[ref] =>
    \E m, n \in Nodes : Unordered(m, n) /\ Agent(m) = ref[1] /\ Agent(n) = ref[1]

LEMMA PointerMoveStep == TypeInv /\ UpstreamInv /\ OrderInv /\ [Next]_vars => PointerMoves
<1> SUFFICES ASSUME TypeInv, UpstreamInv, OrderInv, [Next]_vars,
                    NEW ref \in Refs, current'[ref] < current[ref]
             PROVE  \E m, n \in Nodes : Unordered(m, n) /\ Agent(m) = ref[1] /\ Agent(n) = ref[1]
  BY DEF PointerMoves
<1> USE DEF Nodes, Agent
<1>0. current \in [Refs -> Nat] /\ att \in [Nodes -> Nat]
  BY DEF TypeInv, TypeOK
<1>1. ASSUME NEW n \in Nodes, Shape(n)
      PROVE  \E m, k \in Nodes : Unordered(m, k) /\ Agent(m) = ref[1] /\ Agent(k) = ref[1]
  <2>2. current' # current
    BY <1>0
  <2>3. Approves(n) /\ ref \in dag.outs[n] /\ current'[ref] = att[n]
    BY <1>0, <1>1, <2>2 DEF Shape, Begins, Escalates, Moves, NothingApproved, Approves, Promoted
  <2>4. Agent(n) = ref[1]
    BY <1>1, <2>3, StepKnown DEF Shape
  <2>5. att[n] < current[ref] /\ current[ref] # 0
    BY <1>0, <2>3
  <2>6. PICK m \in Nodes : Promoter(ref, m)
    BY <2>5 DEF OrderInv
  <2>7. m # n /\ n \notin Approved
    BY <2>3, <2>6 DEF Approves, Promoter, Approved
  <2>8. m \notin Ancestors(dag, n)
    <3>1. att[n] # 0
      BY <2>3 DEF TypeInv, Approves
    <3>2. ~(att[m] < att[n])
      BY <1>0, <2>5, <2>6 DEF Promoter
    <3> QED
      BY <2>4, <2>6, <3>1, <3>2 DEF OrderInv, Promoter
  <2>9. n \notin Ancestors(dag, m)
    <3>1. tries[m] > 0
      BY <2>6 DEF Promoter, UpstreamInv
    <3> QED
      BY <2>7, <3>1, UpstreamApproved DEF StartedAfterUpstream
  <2>10. Unordered(m, n) /\ Agent(m) = ref[1]
    BY <2>6, <2>7, <2>8, <2>9 DEF Unordered, Promoter
  <2> QED
    BY <2>4, <2>10
<1>2. CASE UNCHANGED current
  BY <1>0, <1>2
<1> QED
  BY <1>1, <1>2, StepShape DEF Next, RunStart, RunEnd, vars

(***************************************************************************)
(* A :current pointer never goes back to an older attempt, unless its      *)
(* agent has two nodes neither of which is upstream of the other, for any  *)
(* DAG and whatever the order in which its nodes begin and end.            *)
(***************************************************************************)
THEOREM PointersAdvance == Spec => CurrentAdvances
<1>1. Init => AttemptInv
  BY DEF Init, AttemptInv, AttemptsUnique, Exists, Nodes
<1>2. Init => OrderInv
  BY DEF Init, OrderInv, Nodes
<1>3. TypeInv /\ UpstreamInv /\ OrderInv /\ [Next]_vars => [PointerMoves]_vars
  BY PointerMoveStep
<1>4. CurrentAdvances <=> [][PointerMoves]_vars
  BY PTL DEF CurrentAdvances, PointerMoves
<1> QED
  BY <1>1, <1>2, <1>3, <1>4, UpstreamInit, UpstreamStep, AttemptStep, OrderStep, TypeInvariant, PTL DEF Spec


-----------------------------------------------------------------------------
(* Every step of the composition is a step of the run, or leaves it alone. *)

LEMMA JudgementVerdict ==
  ASSUME NEW n, NEW slow, NEW j \in Judgements(n, slow)
  PROVE  j.verdict \in {"approved", "rejected", "abstained"}
  BY DEF Judgements, Jev, Rule

LEMMA JudgeDecides == ASSUME NEW n \in Nodes, Judge(n) PROVE GatesDecide(n)
<1>1. PICK slow \in {FALSE, world.late} : \E j \in Judgements(n, slow) : EndAttempt(n, j.verdict)
  BY DEF Judge
<1>2. PICK j \in Judgements(n, slow) : EndAttempt(n, j.verdict)
  BY <1>1
<1>3. j.verdict \in {"approved", "rejected", "abstained", "error"}
  BY <1>2, JudgementVerdict
<1> QED
  BY <1>2, <1>3 DEF Judge, GatesDecide

LEMMA SocietyStep == [SocietyNext]_svars => [Next]_vars
<1> SUFFICES ASSUME [SocietyNext]_svars PROVE [Next]_vars
  OBVIOUS
<1>1. CASE Ends
  BY <1>1 DEF Ends, Next, NodeStep
<1>2. ASSUME NEW n \in Nodes, Start(n) \/ Work(n) \/ Judge(n) \/ Perish(n) PROVE Next
  <2>1. StartNode(n) \/ WorkerReturns(n) \/ GatesDecide(n) \/ RuntimeFault(n) \/ Crash(n)
    BY <1>2, JudgeDecides DEF Start, Work, Perish
  <2> QED
    BY <2>1 DEF Next, NodeStep
<1>3. CASE UNCHANGED svars
  BY <1>3 DEF svars, vars
<1> QED
  BY <1>1, <1>2, <1>3 DEF SocietyNext

(***************************************************************************)
(* A run of the four roles with their scripts, gates, faults, fallback and *)
(* meter is a run of the runner: gates and files restrict what it does and *)
(* add nothing to it.                                                      *)
(***************************************************************************)
THEOREM SocietyIsRun == SocietySpec => Spec
<1>1. SocietyInit => Init
  BY DEF SocietyInit
<1> QED
  BY <1>1, SocietyStep, PTL DEF SocietySpec, Spec

-----------------------------------------------------------------------------
(* The contract comes first. *)

\* A gate that reads the contract turns every attempt down until it is published.
LEMMA ApprovalReadsContract ==
  ASSUME NEW n, Agent(n) = "frontend", NEW slow, NEW j \in Judgements(n, slow), j.verdict = "approved"
  PROVE  Published("endpoint")
<1> DEFINE G == Gates(Agent(n))
           failing == {i \in DOMAIN G : ~Passes(G[i], n, slow)}
<1>1. failing = {}
  BY DEF Judgements
<1>2. G = <<"no_error", "output_schema", "files_written", "uses_endpoint", "schema_diff">>
  BY DEF Gates
<1>3. 4 \in DOMAIN G /\ G[4] = "uses_endpoint"
  BY <1>2
<1> HIDE DEF G
<1>4. Passes("uses_endpoint", n, slow)
  BY <1>1, <1>3
<1> QED
  BY <1>4 DEF Passes, UsesEndpoint

LEMMA EndAttemptApproves ==
  ASSUME TypeInv, NEW n \in Nodes, NEW verdict, EndAttempt(n, verdict), pc'[n] = "approved"
  PROVE  verdict = "approved"
<1>1. pc \in [Nodes -> Places]
  BY DEF TypeInv, TypeOK, Places
<1> QED
  BY <1>1 DEF EndAttempt, Undecided, Reject, BeginAttempt, Escalate

\* An approval is the doing of the node's gates.
LEMMA OnlyJudgeApproves ==
  ASSUME TypeInv, NEW n \in Nodes, Approves(n), Start(n) \/ Work(n) \/ Judge(n) \/ Perish(n)
  PROVE  \E slow \in {FALSE, world.late} : \E j \in Judgements(n, slow) : j.verdict = "approved"
<1>1. pc \in [Nodes -> Places] /\ pc[n] = "judging" /\ pc'[n] = "approved"
  BY DEF TypeInv, TypeOK, Places, Approves
<1>2. Judge(n)
  BY <1>1 DEF Start, StartNode, Work, WorkerReturns, Perish, RuntimeFault, Escalate, Crash
<1> QED
  BY <1>1, <1>2, EndAttemptApproves DEF Judge

LEMMA ContractStep ==
  TypeInv /\ PointerInv /\ ContractFirst /\ [SocietyNext]_svars => ContractFirst'
<1> SUFFICES ASSUME TypeInv, PointerInv, ContractFirst, [SocietyNext]_svars PROVE ContractFirst'
  OBVIOUS
<1>1. ASSUME UNCHANGED <<dag, Approved>> PROVE ContractFirst'
  BY <1>1 DEF ContractFirst, Agent
<1>2. ASSUME NEW n \in Nodes, NodeStep(n), ~Approves(n) PROVE ContractFirst'
  <2>1. Shape(n) /\ pc \in [Nodes -> Places]
    BY <1>2, StepShape DEF TypeInv, TypeOK, Places
  <2>2. dag' = dag /\ Approved' = Approved
    BY <1>2, <2>1 DEF Shape, Begins, Escalates, Escalate, Moves, Approved, Nodes
  <2> QED
    BY <1>1, <2>2
<1>3. ASSUME NEW n \in Nodes, Approves(n), Start(n) \/ Work(n) \/ Judge(n) \/ Perish(n) PROVE ContractFirst'
  <2>1. NodeStep(n)
    BY <1>3, JudgeDecides DEF Start, Work, Perish, NodeStep
  <2>2. dag' = dag /\ pc \in [Nodes -> Places]
    BY <2>1, StepShape DEF Shape, TypeInv, TypeOK, Places
  <2>3. Approved' = Approved \cup {n} /\ Approved \subseteq Approved'
    BY <1>3, <2>2 DEF Approves, Approved, Nodes
  <2>4. Agent(n) = "frontend" => \E m \in Approved : Agent(m) = "backend"
    <3> SUFFICES ASSUME Agent(n) = "frontend" PROVE \E m \in Approved : Agent(m) = "backend"
      OBVIOUS
    <3>1. Published("endpoint")
      BY <1>3, OnlyJudgeApproves, ApprovalReadsContract
    <3>2. \E rec \in lineage : rec.node \in Approved /\ Agent(rec.node) = "backend"
      BY <3>1, SocietyAssumption DEF Published, PointerInv, Source
    <3> QED
      BY <3>2
  <2> QED
    BY <2>2, <2>3, <2>4 DEF ContractFirst, Agent
<1>4. CASE Ends
  <2>1. CASE RunStart \/ RunEnd
    BY <1>1, <2>1 DEF RunStart, RunEnd, Approved, Nodes
  <2>2. ASSUME NEW n \in Nodes, SkipNode(n) PROVE ContractFirst'
    BY <1>2, <2>2 DEF SkipNode, Approves, NodeStep
  <2> QED
    BY <1>4, <2>1, <2>2 DEF Ends
<1>5. ASSUME NEW n \in Nodes, Start(n) \/ Work(n) \/ Judge(n) \/ Perish(n) PROVE ContractFirst'
  <2>1. NodeStep(n)
    BY <1>5, JudgeDecides DEF Start, Work, Perish, NodeStep
  <2> QED
    BY <1>2, <1>3, <1>5, <2>1
<1>6. CASE UNCHANGED svars
  BY <1>1, <1>6 DEF svars, Approved, Nodes
<1> QED
  BY <1>4, <1>5, <1>6 DEF SocietyNext

(***************************************************************************)
(* Whatever the DAG, and whether or not a frontend waits for its backend:  *)
(* no frontend is approved before a backend is.                            *)
(***************************************************************************)
THEOREM ContractBeforeForm == SocietySpec => []ContractFirst
<1>1. SocietyInit => ContractFirst
  BY DEF SocietyInit, Init, ContractFirst, Approved, Nodes
<1> QED
  BY <1>1, SocietyIsRun, HandoffInvariant, ContractStep, PTL DEF SocietySpec
-----------------------------------------------------------------------------
(***************************************************************************)
(* The files, and the report a gate is about to look at.                   *)
(***************************************************************************)
Files == [main : {"none", "seed", "login"}, test : {"none", "seed", "good", "bad"},
          html : {"none", "seed", "contract", "drift"}, probe : BOOLEAN]

IsReport(o) == DOMAIN o = {"fault", "result", "error", "files", "claim", "allok", "slow", "gate"}

FilesTyped ==
  /\ world \in Worlds /\ dag = world.dag
  /\ tree \in [{"backend", "frontend", "root"} -> Files]
  /\ prepared \in BOOLEAN
  /\ DOMAIN out = Nodes /\ \A n \in Nodes : IsReport(out[n])

\* A node before its gates has a report of an attempt under a fault f, made of
\* the files it left, and what the report has of its outputs is in the store.
Judged(n) ==
  \E t \in Files, f \in Drawn(Agent(n)), slow \in BOOLEAN :
     /\ f # "no_error"
     /\ tree[Home(n)] = Edit(Agent(n), t, f)
     /\ out[n] = Output(Agent(n), tree[Home(n)], f, slow)
     /\ \A ref \in Extracted(n, out[n]) : Exists(ref, att[n])

JudgingInv == \A n \in Nodes : pc[n] = "judging" => Judged(n)

Sound(t) == t.main = "login" /\ t.test = "good" /\ HasForm(t)

BackendInv ==
  /\ ~tree["backend"].probe
  /\ \A n \in Approved : Agent(n) = "backend" =>
       /\ tree["backend"].main = "login" /\ tree["backend"].test = "good"
       /\ Published("endpoint") /\ Published("schema")

FrontendInv ==
  \A n \in Approved : Agent(n) = "frontend" => HasForm(tree["frontend"])

RootInv ==
  /\ prepared => Sound(tree["root"])
  /\ \A n \in Busy \cup Approved : Agent(n) = "integration" => prepared

WorkInv == FilesTyped /\ JudgingInv /\ BackendInv /\ FrontendInv /\ RootInv /\ FaultCaught /\ Delivered

\* The roles of the DAG at hand, and where they stand in it.
LEMMA RolesOf ==
  ASSUME FilesTyped, NEW n \in Nodes
  PROVE  /\ Agent(n) \in {"backend", "frontend", "integration", "ship"}
         /\ Home(n) = (IF Agent(n) \in {"backend", "frontend"} THEN Agent(n) ELSE "root")
         /\ \A m \in Nodes : Agent(m) = Agent(n) => m = n
         /\ Agent(n) = "backend" => {<<"backend", "endpoint">>, <<"backend", "schema">>} \subseteq dag.outs[n]
         /\ Drawn(Agent(n)) \subseteq ActedFaults[Agent(n)] \cup {"none"}
         /\ world.late \in BOOLEAN
<1>1. Replayable(world)
  BY ReplayAssumption DEF FilesTyped
<1>2. RoleDag(dag) /\ world.late \in BOOLEAN
  BY <1>1 DEF Replayable, FilesTyped
<1>3. \A a \in {"backend", "frontend", "integration", "ship"} : world.faults[a] \subseteq ActedFaults[a]
  BY <1>1 DEF Replayable, ActedFaults
<1>4. Agent(n) \in {"backend", "frontend", "integration", "ship"}
  BY <1>2 DEF RoleDag, Nodes, Agent
<1> QED
  BY <1>2, <1>3, <1>4 DEF RoleDag, Nodes, Agent, Home, Drawn

LEMMA BackendExists ==
  ASSUME FilesTyped PROVE \E n \in Nodes : Agent(n) = "backend"
<1>1. RoleDag(dag)
  BY ReplayAssumption DEF FilesTyped, Replayable
<1> QED
  BY <1>1 DEF RoleDag, Nodes, Agent

\* A node that is under way or about to begin has everything upstream approved.
LEMMA AboveApproved ==
  ASSUME TypeInv, UpstreamInv, NEW n \in Nodes,
         tries[n] > 0 \/ (pc[n] = "waiting" /\ Ready(n))
  PROVE  Ancestors(dag, n) \subseteq Approved
<1>1. CASE tries[n] > 0
  BY <1>1, UpstreamApproved DEF StartedAfterUpstream
<1>2. CASE Ready(n)
  <2>1. dag.deps[n] \subseteq Approved
    BY <1>2 DEF Ready, UpstreamInv
  <2>2. DepClosed(dag, Approved) /\ Approved \in SUBSET dag.nodes
    BY DEF DepClosed, UpstreamInv, Approved, Nodes
  <2> QED
    BY <2>1, <2>2 DEF Ancestors
<1> QED
  BY <1>1, <1>2

LEMMA RolesAbove ==
  ASSUME TypeInv, UpstreamInv, FilesTyped, NEW n \in Nodes,
         tries[n] > 0 \/ (pc[n] = "waiting" /\ Ready(n))
  PROVE  /\ Agent(n) = "integration" =>
              (\E m \in Approved : Agent(m) = "backend") /\ (\E m \in Approved : Agent(m) = "frontend")
         /\ Agent(n) = "ship" => \E m \in Approved : Agent(m) = "integration"
<1>1. RoleDag(dag)
  BY ReplayAssumption DEF FilesTyped, Replayable
<1>2. /\ Agent(n) = "integration" => {"backend", "frontend"} \subseteq {Agent(m) : m \in Ancestors(dag, n)}
      /\ Agent(n) = "ship" => "integration" \in {Agent(m) : m \in Ancestors(dag, n)}
  BY <1>1 DEF RoleDag, Nodes, Agent
<1>3. Ancestors(dag, n) \subseteq Approved
  BY AboveApproved
<1> QED
  BY <1>2, <1>3

-----------------------------------------------------------------------------
(* What an attempt leaves in its workspace and reports. *)

\* u is what attempts of a's scripts can have made of t.
Touches(a, t, u) ==
  /\ u \in Files
  /\ a = "backend" => u.probe = t.probe
  /\ a = "integration" => u.main = t.main /\ u.test = t.test /\ u.html = t.html
  /\ a = "ship" => u = t

\* r is the report of an attempt that was paid for.
Reported(a, r) ==
  \E t \in Files, f \in Drawn(a), slow \in BOOLEAN :
    r.tree = Edit(a, t, f) /\ r.out = Output(a, r.tree, f, slow)

LEMMA EditTouches ==
  ASSUME NEW a \in {"backend", "frontend", "integration", "ship"}, NEW t \in Files, NEW f
  PROVE  Touches(a, t, Edit(a, t, f))
<1>1. CASE a = "backend"
  BY <1>1 DEF Touches, Edit, Files
<1>2. CASE a = "frontend"
  BY <1>2 DEF Touches, Edit, Files
<1>3. CASE a = "integration"
  BY <1>3 DEF Touches, Edit, Files
<1>4. CASE a = "ship"
  BY <1>4 DEF Touches, Edit, Files
<1> QED
  BY <1>1, <1>2, <1>3, <1>4

LEMMA TouchesTwice ==
  ASSUME NEW a, NEW t, NEW u, NEW v, Touches(a, t, u), Touches(a, u, v)
  PROVE  Touches(a, t, v)
  BY DEF Touches

LEMMA RunsShape ==
  ASSUME NEW a \in {"backend", "frontend", "integration", "ship"}, NEW t \in Files, NEW r \in Runs(a, t)
  PROVE  Touches(a, t, r.tree) /\ Reported(a, r)
<1>1. PICK f \in Drawn(a), slow \in BOOLEAN :
        r = [tree |-> Edit(a, t, f), out |-> Output(a, Edit(a, t, f), f, slow)]
  <2>1. MaySlow(a) \subseteq BOOLEAN
    BY DEF MaySlow
  <2> QED
    BY <2>1 DEF Runs
<1>2. r.tree = Edit(a, t, f) /\ r.out = Output(a, r.tree, f, slow)
  BY <1>1
<1> QED
  BY <1>2, EditTouches DEF Reported

LEMMA CallsShape ==
  ASSUME NEW a \in {"backend", "frontend", "integration", "ship"}, NEW t \in Files, NEW r \in Calls(a, t)
  PROVE  Touches(a, t, r.tree) /\ (r.out = Lost \/ Reported(a, r))
<1>1. r \in Runs(a, t) \cup {[tree |-> t, out |-> Lost]} \cup {[tree |-> q.tree, out |-> Lost] : q \in Runs(a, t)}
  BY DEF Calls
<1>2. Touches(a, t, t)
  BY DEF Touches
<1>3. CASE r \in Runs(a, t)
  BY <1>3, RunsShape
<1>4. CASE r = [tree |-> t, out |-> Lost]
  BY <1>2, <1>4
<1>5. CASE r \in {[tree |-> q.tree, out |-> Lost] : q \in Runs(a, t)}
  BY <1>5, RunsShape
<1> QED
  BY <1>1, <1>3, <1>4, <1>5

LEMMA AnswersShape ==
  ASSUME NEW a \in {"backend", "frontend", "integration", "ship"},
         NEW t \in Files, NEW r \in Answers(a, t)
  PROVE  Touches(a, t, r.tree) /\ (r.out = Lost \/ Reported(a, r))
<1>1. CASE r \in Calls(a, t)
  BY <1>1, CallsShape
<1>2. ASSUME NEW q \in Calls(a, t), r \in Calls(a, q.tree)
      PROVE  Touches(a, t, r.tree) /\ (r.out = Lost \/ Reported(a, r))
  <2>1. Touches(a, t, q.tree) /\ q.tree \in Files
    BY CallsShape DEF Touches
  <2>2. Touches(a, q.tree, r.tree) /\ (r.out = Lost \/ Reported(a, r))
    BY <1>2, <2>1, CallsShape
  <2> QED
    BY <2>1, <2>2, TouchesTwice
<1>3. ~(r \in Calls(a, t)) => \E q \in Calls(a, t) : r \in Calls(a, q.tree)
  BY DEF Answers
<1> QED
  BY <1>1, <1>2, <1>3

LEMMA OutputShape ==
  ASSUME NEW a, NEW t, NEW f, NEW slow
  PROVE  LET o == Output(a, t, f, slow) IN
         /\ IsReport(o)
         /\ o.fault = f /\ o.gate = "pending" /\ o.slow = slow
         /\ o.result = Formed(a, f) /\ o.files = FilesWritten(a, f)
         /\ o.error <=> f = "no_error"
         /\ o.claim <=> Claim(a, t, f, slow)
         /\ o.allok <=> AllOk(a, t, f, slow)
  BY DEF Output, IsReport


-----------------------------------------------------------------------------
(* What the gates come to on such a report. *)

LEMMA Earliest == ASSUME NEW S \in SUBSET (1 .. 5), S # {} PROVE \E i \in S : \A j \in S : i <= j
<1>1. CASE 1 \in S
  BY <1>1
<1>2. CASE 1 \notin S /\ 2 \in S
  BY <1>2
<1>3. CASE 1 \notin S /\ 2 \notin S /\ 3 \in S
  BY <1>3
<1>4. CASE 1 \notin S /\ 2 \notin S /\ 3 \notin S /\ 4 \in S
  BY <1>4
<1>5. ASSUME 1 \notin S, 2 \notin S, 3 \notin S, 4 \notin S PROVE \E i \in S : \A j \in S : i <= j
  <2>1. PICK i \in S : TRUE
    OBVIOUS
  <2>2. \A j \in S : j = 5
    BY <1>5
  <2> QED
    BY <2>1, <2>2
<1> QED
  BY <1>1, <1>2, <1>3, <1>4, <1>5

LEMMA GatesOf ==
  ASSUME NEW a \in {"backend", "frontend", "integration", "ship"}
  PROVE  /\ DOMAIN Gates(a) = IF a \in {"backend", "frontend"} THEN 1 .. 5 ELSE 1 .. 3
         /\ Gates(a)[1] = "no_error" /\ Gates(a)[2] = "output_schema"
         /\ a = "backend" => Gates(a)[3] = "files_written" /\ Gates(a)[4] = "endpoint_present" /\ Gates(a)[5] = "backend_tests"
         /\ a = "frontend" => Gates(a)[3] = "files_written" /\ Gates(a)[4] = "uses_endpoint" /\ Gates(a)[5] = "schema_diff"
         /\ a = "integration" => Gates(a)[3] = "merged_tests"
         /\ a = "ship" => Gates(a)[3] = "decision_consistency"
<1>1. CASE a = "backend"
  BY <1>1 DEF Gates
<1>2. CASE a = "frontend"
  BY <1>2 DEF Gates
<1>3. CASE a = "integration"
  BY <1>3 DEF Gates
<1>4. CASE a = "ship"
  BY <1>4 DEF Gates
<1> QED
  BY <1>1, <1>2, <1>3, <1>4

\* Either every gate passes and the last word is the judge's, if there is one,
\* or the first gate that fails rejects.
AllPass(n, slow) == \A i \in DOMAIN Gates(Agent(n)) : Passes(Gates(Agent(n))[i], n, slow)

FirstFailing(n, slow, i) ==
  /\ i \in DOMAIN Gates(Agent(n)) /\ ~Passes(Gates(Agent(n))[i], n, slow)
  /\ \A k \in DOMAIN Gates(Agent(n)) : k < i => Passes(Gates(Agent(n))[k], n, slow)

LEMMA JudgementShape ==
  ASSUME NEW n, Agent(n) \in {"backend", "frontend", "integration", "ship"},
         NEW slow, NEW j \in Judgements(n, slow)
  PROVE  \/ AllPass(n, slow) /\ \/ Agent(n) \in {"backend", "frontend"} /\ j.verdict = "approved" /\ j.gate = "none"
                                \/ Agent(n) \in {"integration", "ship"} /\ j.verdict \in Jev(n) /\ j.gate = "jev"
         \/ \E i \in 1 .. 5 : FirstFailing(n, slow, i) /\ j.verdict = "rejected" /\ j.gate = Gates(Agent(n))[i]
<1> DEFINE G == Gates(Agent(n))
           failing == {i \in DOMAIN G : ~Passes(G[i], n, slow)}
           first == CHOOSE i \in failing : \A k \in failing : i <= k
<1>1. DOMAIN G \subseteq 1 .. 5
  BY GatesOf
<1>2. CASE failing = {}
  <2>1. AllPass(n, slow)
    BY <1>2 DEF AllPass
  <2>2. CASE Agent(n) \in {"integration", "ship"}
    BY <1>2, <2>1, <2>2 DEF Judgements
  <2>3. CASE Agent(n) \in {"backend", "frontend"}
    BY <1>2, <2>1, <2>3 DEF Judgements
  <2> QED
    BY <2>2, <2>3
<1>3. CASE failing # {}
  <2>1. j = [gate |-> G[first], verdict |-> "rejected"]
    BY <1>3 DEF Judgements
  <2>2. \E i \in failing : \A k \in failing : i <= k
    BY <1>1, <1>3, Earliest
  <2>3. first \in failing /\ \A k \in failing : first <= k
    BY <2>2
  <2> HIDE DEF first
  <2>4. FirstFailing(n, slow, first)
    BY <1>1, <2>3 DEF FirstFailing
  <2> QED
    BY <1>1, <2>1, <2>3, <2>4
<1> QED
  BY <1>2, <1>3

\* Gate by gate.
LEMMA PassesIf ==
  ASSUME NEW n, NEW slow
  PROVE  /\ Passes("no_error", n, slow) <=> ~out[n].error
         /\ Passes("output_schema", n, slow) <=> out[n].result = "complete"
         /\ Agent(n) = "backend" => (Passes("files_written", n, slow) <=> {"app/", "tests/"} \subseteq out[n].files)
         /\ Agent(n) # "backend" => (Passes("files_written", n, slow) <=> {"static/"} \subseteq out[n].files)
         /\ Passes("endpoint_present", n, slow) <=> tree[Home(n)].main = "login"
         /\ Passes("backend_tests", n, slow) <=> TestRun(tree[Home(n)], slow)
         /\ Passes("merged_tests", n, slow) <=> TestRun(tree[Home(n)], slow)
         /\ Passes("uses_endpoint", n, slow) <=> UsesEndpoint(tree[Home(n)])
         /\ Passes("schema_diff", n, slow) <=> Published("schema") /\ out[n].claim
         /\ Passes("decision_consistency", n, slow) <=> (out[n].claim <=> out[n].allok)
  BY DEF Passes, SameSchema

\* Role by role: approval means that no fault was drawn and what it left is
\* good; and the gate that rejects is the drawn fault, but for the excuses.
LEMMA BackendOutcome ==
  ASSUME FilesTyped, NEW n \in Nodes, Agent(n) = "backend", Judged(n), ~tree["backend"].probe,
         NEW slow, NEW j \in Judgements(n, slow)
  PROVE  /\ j.verdict = "approved" =>
              /\ out[n].fault = "none" /\ out[n].result = "complete"
              /\ tree["backend"].main = "login" /\ tree["backend"].test = "good"
         /\ j.verdict # "approved" /\ ~slow => j.gate = out[n].fault
<1>1. PICK t \in Files, f \in Drawn("backend"), slow0 \in BOOLEAN :
        /\ f # "no_error"
        /\ tree["backend"] = Edit("backend", t, f)
        /\ out[n] = Output("backend", tree["backend"], f, slow0)
  BY RolesOf DEF Judged
<1>2. f \in {"none", "output_schema", "files_written", "backend_tests"}
  BY <1>1, RolesOf DEF ActedFaults
<1> DEFINE P(i) == Passes(Gates("backend")[i], n, slow)
<1>3. P(1)
  BY <1>1, OutputShape, PassesIf, GatesOf
<1>4. out[n].fault = f /\ out[n].result = Formed("backend", f) /\ out[n].files = FilesWritten("backend", f)
  BY <1>1, OutputShape
<1>5. P(2) <=> f # "output_schema"
  BY <1>2, <1>4, PassesIf, GatesOf DEF Formed
<1>6. P(3) <=> f # "files_written"
  BY <1>2, <1>4, PassesIf, GatesOf DEF FilesWritten
<1>7. f # "files_written" =>
        tree["backend"].main = "login" /\ tree["backend"].test = (IF f = "backend_tests" THEN "bad" ELSE "good")
  BY <1>1 DEF Edit, Files
<1>8. Home(n) = "backend"
  BY DEF Home
<1>9. f # "files_written" => P(4)
  BY <1>7, <1>8, PassesIf, GatesOf
<1>10. f # "files_written" => (P(5) <=> f # "backend_tests" /\ ~slow)
  BY <1>2, <1>7, <1>8, PassesIf, GatesOf DEF TestRun, PytestPasses
<1>11. DOMAIN Gates("backend") = 1 .. 5 /\ Gates("backend")[2] = "output_schema"
       /\ Gates("backend")[3] = "files_written" /\ Gates("backend")[5] = "backend_tests"
  BY GatesOf
<1>12. CASE AllPass(n, slow) /\ j.verdict = "approved"
  <2>1. P(2) /\ P(3) /\ P(5)
    BY <1>11, <1>12 DEF AllPass
  <2>2. f = "none" /\ Formed("backend", f) = "complete"
    BY <1>2, <1>5, <1>6, <1>10, <2>1 DEF Formed
  <2> QED
    BY <1>4, <1>7, <1>12, <2>2
<1>13. ASSUME NEW i \in 1 .. 5, FirstFailing(n, slow, i), j.verdict = "rejected", j.gate = Gates("backend")[i]
       PROVE  ~slow => j.gate = f
  <2> SUFFICES ASSUME ~slow PROVE j.gate = f
    OBVIOUS
  <2>1. ~P(i) /\ \A k \in 1 .. 5 : k < i => P(k)
    BY <1>11, <1>13 DEF FirstFailing
  <2> HIDE DEF P
  <2>2. f # "none"
    BY <1>3, <1>5, <1>6, <1>9, <1>10, <2>1
  <2>3. (f = "output_schema" => i = 2) /\ (f = "files_written" => i = 3) /\ (f = "backend_tests" => i = 5)
    BY <1>3, <1>5, <1>6, <1>9, <1>10, <2>1
  <2> QED
    BY <1>2, <1>11, <1>13, <2>2, <2>3
<1> QED
  BY <1>4, <1>12, <1>13, JudgementShape

LEMMA FrontendOutcome ==
  ASSUME FilesTyped, NEW n \in Nodes, Agent(n) = "frontend", Judged(n),
         NEW slow, NEW j \in Judgements(n, slow)
  PROVE  /\ j.verdict = "approved" => out[n].fault = "none"
         /\ HasForm(tree["frontend"])
         /\ j.verdict # "approved" =>
              \/ j.gate = out[n].fault
              \/ j.gate \in {"uses_endpoint", "schema_diff"} /\ ~(Published("endpoint") /\ Published("schema"))
<1>1. PICK t \in Files, f \in Drawn("frontend"), slow0 \in BOOLEAN :
        /\ f # "no_error"
        /\ tree["frontend"] = Edit("frontend", t, f)
        /\ out[n] = Output("frontend", tree["frontend"], f, slow0)
  BY RolesOf DEF Judged
<1>2. f \in {"none", "schema_diff"}
  BY <1>1, RolesOf DEF ActedFaults
<1> DEFINE P(i) == Passes(Gates("frontend")[i], n, slow)
<1>3. P(1)
  BY <1>1, OutputShape, PassesIf, GatesOf
<1>4. /\ out[n].fault = f /\ out[n].result = Formed("frontend", f) /\ out[n].files = FilesWritten("frontend", f)
      /\ out[n].claim <=> f # "schema_diff"
  BY <1>1, OutputShape DEF Claim
<1>5. P(2)
  BY <1>2, <1>4, PassesIf, GatesOf DEF Formed
<1>6. P(3)
  BY <1>2, <1>4, PassesIf, GatesOf DEF FilesWritten
<1>7. HasForm(tree["frontend"])
  BY <1>1 DEF Edit, Files, HasForm
<1>8. Home(n) = "frontend"
  BY DEF Home
<1>9. P(4) <=> Published("endpoint")
  BY <1>7, <1>8, PassesIf, GatesOf DEF UsesEndpoint
<1>10. P(5) <=> Published("schema") /\ f # "schema_diff"
  BY <1>4, PassesIf, GatesOf
<1>11. DOMAIN Gates("frontend") = 1 .. 5
       /\ Gates("frontend")[4] = "uses_endpoint" /\ Gates("frontend")[5] = "schema_diff"
  BY GatesOf
<1>12. CASE AllPass(n, slow) /\ j.verdict = "approved"
  <2>1. P(5)
    BY <1>11, <1>12 DEF AllPass
  <2> QED
    BY <1>2, <1>4, <1>7, <1>10, <1>12, <2>1
<1>13. ASSUME NEW i \in 1 .. 5, FirstFailing(n, slow, i), j.verdict = "rejected", j.gate = Gates("frontend")[i]
       PROVE  \/ j.gate = f
              \/ j.gate \in {"uses_endpoint", "schema_diff"} /\ ~(Published("endpoint") /\ Published("schema"))
  <2>1. ~P(i) /\ \A k \in 1 .. 5 : k < i => P(k)
    BY <1>11, <1>13 DEF FirstFailing
  <2> HIDE DEF P
  <2>2. (i = 4 /\ ~Published("endpoint")) \/ (i = 5 /\ (~Published("schema") \/ f = "schema_diff"))
    BY <1>3, <1>5, <1>6, <1>9, <1>10, <2>1
  <2> QED
    BY <1>11, <1>13, <2>2
<1> QED
  BY <1>4, <1>7, <1>12, <1>13, JudgementShape

LEMMA IntegrationOutcome ==
  ASSUME FilesTyped, NEW n \in Nodes, Agent(n) = "integration", Judged(n), Sound(tree["root"]),
         NEW slow, NEW j \in Judgements(n, slow)
  PROVE  /\ j.verdict = "approved" =>
              out[n].fault = "none" /\ PytestPasses(tree["root"]) /\ (out[n].claim \/ world.judge = "remote")
         /\ j.verdict # "approved" /\ ~slow /\ ~out[n].slow /\ ~(world.judge = "remote" /\ j.gate = "jev")
              => j.gate = out[n].fault
<1>1. PICK t \in Files, f \in Drawn("integration"), slow0 \in BOOLEAN :
        /\ f # "no_error"
        /\ tree["root"] = Edit("integration", t, f)
        /\ out[n] = Output("integration", tree["root"], f, slow0)
  BY RolesOf DEF Judged
<1>2. f \in {"none", "output_schema", "merged_tests"}
  BY <1>1, RolesOf DEF ActedFaults
<1>3. tree["root"].probe <=> f = "merged_tests"
  BY <1>1 DEF Edit, Files
<1>4. PytestPasses(tree["root"]) <=> f # "merged_tests"
  BY <1>3 DEF PytestPasses, Sound
<1>5. /\ out[n].fault = f /\ out[n].result = Formed("integration", f) /\ out[n].slow = slow0
      /\ out[n].claim <=> f # "merged_tests" /\ ~slow0
      /\ ~out[n].error
  BY <1>1, <1>4, OutputShape DEF Claim, TestRun
<1> DEFINE P(i) == Passes(Gates("integration")[i], n, slow)
<1>6. P(1)
  BY <1>5, PassesIf, GatesOf
<1>7. P(2) <=> f # "output_schema"
  BY <1>2, <1>5, PassesIf, GatesOf DEF Formed
<1>8. P(3) <=> f # "merged_tests" /\ ~slow
  <2>1. Home(n) = "root"
    BY DEF Home
  <2> QED
    BY <1>4, <2>1, PassesIf, GatesOf DEF TestRun
<1>9. DOMAIN Gates("integration") = 1 .. 3
      /\ Gates("integration")[2] = "output_schema" /\ Gates("integration")[3] = "merged_tests"
  BY GatesOf
<1>10. CASE AllPass(n, slow) /\ j.verdict \in Jev(n) /\ j.gate = "jev"
  <2>1. P(2) /\ P(3)
    BY <1>9, <1>10 DEF AllPass
  <2>2. f = "none"
    BY <1>2, <1>7, <1>8, <2>1
  <2>3. world.judge # "remote" => j.verdict = (IF out[n].claim THEN "approved" ELSE "rejected")
    BY <1>10 DEF Jev, Rule
  <2> QED
    BY <1>4, <1>5, <1>10, <2>2, <2>3
<1>11. ASSUME NEW i \in 1 .. 5, FirstFailing(n, slow, i), j.verdict = "rejected", j.gate = Gates("integration")[i]
       PROVE  ~slow => j.gate = f
  <2> SUFFICES ASSUME ~slow PROVE j.gate = f
    OBVIOUS
  <2>1. i \in 1 .. 3 /\ ~P(i) /\ \A k \in 1 .. 3 : k < i => P(k)
    BY <1>9, <1>11 DEF FirstFailing
  <2> HIDE DEF P
  <2>2. (f = "output_schema" /\ i = 2) \/ (f = "merged_tests" /\ i = 3)
    BY <1>6, <1>7, <1>8, <2>1
  <2> QED
    BY <1>9, <1>11, <2>2
<1> QED
  BY <1>5, <1>10, <1>11, JudgementShape

LEMMA ShipOutcome ==
  ASSUME FilesTyped, NEW n \in Nodes, Agent(n) = "ship", Judged(n),
         PytestPasses(tree["root"]), HasLogin(tree["root"]),
         NEW slow, NEW j \in Judgements(n, slow)
  PROVE  /\ j.verdict = "approved" => out[n].fault = "none" /\ (out[n].claim \/ out[n].slow)
         /\ j.verdict # "approved" /\ ~(world.judge = "remote" /\ j.gate = "jev") => j.gate = out[n].fault
<1>1. PICK t \in Files, f \in Drawn("ship"), slow0 \in BOOLEAN :
        f # "no_error" /\ out[n] = Output("ship", tree["root"], f, slow0)
  BY RolesOf DEF Judged
<1>2. f \in {"none", "decision_consistency"}
  BY <1>1, RolesOf DEF ActedFaults
<1>3. /\ out[n].fault = f /\ out[n].result = Formed("ship", f) /\ (out[n].slow <=> slow0)
      /\ ~out[n].error
      /\ out[n].claim <=> ~slow0 \/ f = "decision_consistency"
      /\ out[n].allok <=> ~slow0 /\ f # "decision_consistency"
  BY <1>1, OutputShape DEF Claim, AllOk, TestRun
<1> DEFINE P(i) == Passes(Gates("ship")[i], n, slow)
<1>4. P(1)
  BY <1>3, PassesIf, GatesOf
<1>5. P(2)
  BY <1>2, <1>3, PassesIf, GatesOf DEF Formed
<1>6. P(3) <=> f # "decision_consistency"
  BY <1>3, PassesIf, GatesOf
<1>7. DOMAIN Gates("ship") = 1 .. 3 /\ Gates("ship")[3] = "decision_consistency"
  BY GatesOf
<1>8. CASE AllPass(n, slow) /\ j.verdict \in Jev(n) /\ j.gate = "jev"
  <2>1. P(3)
    BY <1>7, <1>8 DEF AllPass
  <2>2. f = "none"
    BY <1>2, <1>6, <2>1
  <2>3. world.judge # "remote" => j.verdict = "approved"
    BY <1>8 DEF Jev, Rule
  <2> QED
    BY <1>3, <1>8, <2>2, <2>3
<1>9. ASSUME NEW i \in 1 .. 5, FirstFailing(n, slow, i), j.verdict = "rejected", j.gate = Gates("ship")[i]
      PROVE  j.gate = f
  <2>1. i \in 1 .. 3 /\ ~P(i) /\ \A k \in 1 .. 3 : k < i => P(k)
    BY <1>7, <1>9 DEF FirstFailing
  <2> HIDE DEF P
  <2>2. f = "decision_consistency" /\ i = 3
    BY <1>2, <1>4, <1>5, <1>6, <2>1
  <2> QED
    BY <1>7, <1>9, <2>2
<1> QED
  BY <1>3, <1>8, <1>9, JudgementShape

-----------------------------------------------------------------------------
(* What a step of a node can do to the files and the reports. *)

Homes == {"backend", "frontend", "root"}

Leaves(n) ==
  /\ world' = world /\ dag' = dag
  /\ tree' \in [Homes -> Files]
  /\ \A h \in Homes : h # Home(n) => tree'[h] = tree[h]
  /\ pc[n] = "judging" \/ Agent(n) = "ship" => tree' = tree
  /\ Agent(n) = "backend" /\ ~tree["backend"].probe => ~tree'["backend"].probe
  /\ Agent(n) = "integration" /\ prepared =>
       /\ tree'["root"].main = tree["root"].main
       /\ tree'["root"].test = tree["root"].test
       /\ tree'["root"].html = tree["root"].html
  /\ \/ prepared' = prepared
     \/ /\ prepared' = TRUE /\ Agent(n) = "integration" /\ pc[n] = "waiting" /\ Ready(n)
        /\ ~prepared => tree'["root"] = Merged
  /\ DOMAIN out' = Nodes /\ IsReport(out'[n])
  /\ \A m \in Nodes \ {n} : out'[m] = out[m]

LEMMA MergedTyped == ASSUME FilesTyped PROVE Merged \in Files
  BY DEF FilesTyped, Merged, Over2, Files

LEMMA FurnishedShape ==
  ASSUME FilesTyped, NEW n \in Nodes
  PROVE  /\ Furnished(n) \in [Homes -> Files]
         /\ \A h \in Homes : h # Home(n) => Furnished(n)[h] = tree[h]
         /\ Agent(n) = "ship" => Furnished(n) = tree
         /\ Agent(n) = "backend" /\ ~tree["backend"].probe => ~Furnished(n)["backend"].probe
         /\ Agent(n) = "integration" => Furnished(n)["root"] = (IF prepared THEN tree["root"] ELSE Merged)
<1>1. tree \in [Homes -> Files]
  BY DEF FilesTyped, Homes
<1>2. Home(n) \in Homes /\ Agent(n) \in {"backend", "frontend", "integration", "ship"}
  BY RolesOf DEF Homes
<1>3. SeedApp \in Files /\ ~SeedApp.probe
  BY DEF SeedApp, Files
<1> DEFINE new == IF Agent(n) \in {"backend", "frontend"} /\ tree[Home(n)] = Empty THEN SeedApp
                  ELSE IF Agent(n) = "integration" /\ ~prepared THEN Merged
                  ELSE tree[Home(n)]
<1>4. Furnished(n) = [tree EXCEPT ![Home(n)] = new]
  BY DEF Furnished
<1>5. new \in Files
  BY <1>1, <1>2, <1>3, MergedTyped
<1>6. /\ Agent(n) = "ship" => new = tree[Home(n)]
      /\ Agent(n) = "backend" => new = SeedApp \/ new = tree[Home(n)]
      /\ Agent(n) = "integration" => new = IF prepared THEN tree[Home(n)] ELSE Merged
  OBVIOUS
<1>7. (Agent(n) = "backend" => Home(n) = "backend") /\ (Agent(n) = "integration" => Home(n) = "root")
  BY DEF Home
<1> HIDE DEF new
<1> QED
  BY <1>1, <1>2, <1>3, <1>4, <1>5, <1>6, <1>7

LEMMA AnsweredShape ==
  ASSUME FilesTyped, NEW n \in Nodes, NEW r \in Answers(Agent(n), tree[Home(n)]),
         NEW t, t = [tree EXCEPT ![Home(n)] = r.tree]
  PROVE  /\ t \in [Homes -> Files] /\ t[Home(n)] = r.tree
         /\ \A h \in Homes : h # Home(n) => t[h] = tree[h]
         /\ Agent(n) = "ship" => t = tree
         /\ Agent(n) = "backend" => t["backend"].probe = tree["backend"].probe
         /\ Agent(n) = "integration" =>
              /\ t["root"].main = tree["root"].main
              /\ t["root"].test = tree["root"].test
              /\ t["root"].html = tree["root"].html
<1>1. tree \in [Homes -> Files]
  BY DEF FilesTyped, Homes
<1>2. Home(n) \in Homes /\ Agent(n) \in {"backend", "frontend", "integration", "ship"}
  BY RolesOf DEF Homes
<1>3. Touches(Agent(n), tree[Home(n)], r.tree)
  BY <1>1, <1>2, AnswersShape
<1>4. (Agent(n) = "backend" => Home(n) = "backend") /\ (Agent(n) = "integration" => Home(n) = "root")
  BY DEF Home
<1> QED
  BY <1>1, <1>2, <1>3, <1>4 DEF Touches

LEMMA LeavesStep ==
  ASSUME TypeInv, FilesTyped, NEW n \in Nodes, Start(n) \/ Work(n) \/ Judge(n) \/ Perish(n)
  PROVE  Leaves(n)
<1>1. tree \in [Homes -> Files] /\ DOMAIN out = Nodes /\ \A m \in Nodes : IsReport(out[m])
  BY DEF FilesTyped, Homes
<1>2. CASE Start(n)
  <2>1. pc[n] = "waiting" /\ Ready(n) /\ dag' = dag /\ world' = world /\ out' = out
    BY <1>2 DEF Start, StartNode
  <2>2. CASE \A ref \in dag.ins[n] : current[ref] # 0
    <3>1. tree' = Furnished(n) /\ prepared' = (prepared \/ Agent(n) = "integration")
      BY <1>2, <2>2 DEF Start
    <3> QED
      BY <1>1, <2>1, <3>1, FurnishedShape DEF Leaves, FilesTyped
  <2>3. CASE ~(\A ref \in dag.ins[n] : current[ref] # 0)
    <3>1. tree' = tree /\ prepared' = prepared
      BY <1>2, <2>3 DEF Start, FilesTyped
    <3> QED
      BY <1>1, <2>1, <3>1 DEF Leaves
  <2> QED
    BY <2>2, <2>3
<1>3. CASE Work(n)
  <2>1. pc[n] = "working" /\ dag' = dag /\ world' = world /\ prepared' = prepared
    BY <1>3 DEF Work, WorkerReturns
  <2>2. PICK r \in Answers(Agent(n), tree[Home(n)]) :
          /\ tree' = [tree EXCEPT ![Home(n)] = r.tree]
          /\ out' = [out EXCEPT ![n] = [r.out EXCEPT !.gate = IF r.out.error THEN "no_error" ELSE @]]
    BY <1>3 DEF Work
  <2>3. IsReport(r.out)
    <3>1. r.out = Lost \/ Reported(Agent(n), r)
      BY <1>1, RolesOf, AnswersShape DEF Homes
    <3> QED
      BY <3>1, OutputShape DEF Reported, Lost, IsReport
  <2>4. DOMAIN out' = Nodes /\ IsReport(out'[n]) /\ \A m \in Nodes \ {n} : out'[m] = out[m]
    BY <1>1, <2>2, <2>3 DEF IsReport
  <2>5. /\ tree' \in [Homes -> Files]
        /\ \A h \in Homes : h # Home(n) => tree'[h] = tree[h]
        /\ Agent(n) = "ship" => tree' = tree
        /\ Agent(n) = "backend" => tree'["backend"].probe = tree["backend"].probe
        /\ Agent(n) = "integration" =>
             /\ tree'["root"].main = tree["root"].main
             /\ tree'["root"].test = tree["root"].test
             /\ tree'["root"].html = tree["root"].html
    BY <2>2, AnsweredShape
  <2> QED
    BY <1>1, <2>1, <2>4, <2>5 DEF Leaves
<1>4. CASE Judge(n)
  <2>1. pc[n] = "judging" /\ dag' = dag /\ world' = world /\ prepared' = prepared /\ tree' = tree
    BY <1>4 DEF Judge
  <2>2. PICK slow \in {FALSE, world.late} : \E j \in Judgements(n, slow) :
          out' = [out EXCEPT ![n].gate = IF j.verdict = "approved" THEN "none" ELSE j.gate,
                             ![n].slow = @ \/ slow]
    BY <1>4 DEF Judge
  <2>3. DOMAIN out' = Nodes /\ IsReport(out'[n]) /\ \A m \in Nodes \ {n} : out'[m] = out[m]
    BY <1>1, <2>2 DEF IsReport
  <2> QED
    BY <1>1, <2>1, <2>3 DEF Leaves
<1>5. CASE Perish(n)
  <2>1. dag' = dag /\ world' = world /\ prepared' = prepared /\ out' = out
    BY <1>5 DEF Perish, RuntimeFault, Crash
  <2>2. \/ tree' = tree
        \/ pc[n] = "waiting" /\ tree' = Furnished(n)
        \/ pc[n] = "working" /\ \E r \in Answers(Agent(n), tree[Home(n)]) : tree' = [tree EXCEPT ![Home(n)] = r.tree]
    BY <1>5 DEF Perish
  <2>3. CASE tree' = tree
    BY <1>1, <2>1, <2>3 DEF Leaves
  <2>4. CASE pc[n] = "waiting" /\ tree' = Furnished(n)
    BY <1>1, <2>1, <2>4, FurnishedShape DEF Leaves
  <2>5. CASE pc[n] = "working" /\ \E r \in Answers(Agent(n), tree[Home(n)]) : tree' = [tree EXCEPT ![Home(n)] = r.tree]
    <3>1. /\ tree' \in [Homes -> Files]
          /\ \A h \in Homes : h # Home(n) => tree'[h] = tree[h]
          /\ Agent(n) = "ship" => tree' = tree
          /\ Agent(n) = "backend" => tree'["backend"].probe = tree["backend"].probe
          /\ Agent(n) = "integration" =>
               /\ tree'["root"].main = tree["root"].main
               /\ tree'["root"].test = tree["root"].test
               /\ tree'["root"].html = tree["root"].html
      BY <2>5, AnsweredShape
    <3> QED
      BY <1>1, <2>1, <2>5, <3>1 DEF Leaves
  <2> QED
    BY <2>2, <2>3, <2>4, <2>5
<1> QED
  BY <1>2, <1>3, <1>4, <1>5

LEMMA WorkFacts ==
  ASSUME TypeInv, FilesTyped, NEW n \in Nodes, Start(n) \/ Work(n) \/ Judge(n) \/ Perish(n)
  PROVE  /\ Shape(n) /\ Leaves(n) /\ CanStep(n)
         /\ pc \in [Nodes -> Places] /\ Nodes' = Nodes
         /\ pc[n] \in {"waiting", "working", "judging"}
         /\ \A m \in Nodes \ {n} : pc'[m] = pc[m] /\ att'[m] = att[m]
         /\ written \subseteq written'
         /\ \/ Approves(n) /\ Judge(n) /\ Approved' = Approved \cup {n}
            \/ ~Approves(n) /\ Approved' = Approved
<1>1. NodeStep(n)
  BY JudgeDecides DEF Start, Work, Perish, NodeStep
<1>2. Shape(n) /\ Leaves(n)
  BY <1>1, StepShape, LeavesStep
<1>3. pc \in [Nodes -> Places] /\ Nodes' = Nodes /\ DOMAIN att = Nodes
  BY <1>2 DEF TypeInv, TypeOK, Places, Leaves, Nodes
<1>4. CanStep(n) /\ pc[n] \in {"waiting", "working", "judging"} /\ written \subseteq written'
  BY <1>2 DEF Shape, Writes
<1>5. \A m \in Nodes \ {n} : pc'[m] = pc[m] /\ att'[m] = att[m]
  BY <1>2, <1>3 DEF Shape, Begins, Escalates, Escalate, Approves, Moves
<1>6. CASE Approves(n)
  <2>1. Approved' = Approved \cup {n}
    BY <1>3, <1>6 DEF Approves, Approved
  <2>2. Judge(n)
    BY <1>3, <1>6
    DEF Approves, Places, Start, StartNode, Work, WorkerReturns, Perish, RuntimeFault, Escalate, Crash
  <2> QED
    BY <1>2, <1>3, <1>4, <1>5, <1>6, <2>1, <2>2
<1>7. CASE ~Approves(n)
  <2>1. Approved' = Approved
    BY <1>2, <1>3, <1>4, <1>7 DEF Shape, Begins, Escalates, Escalate, Moves, Approved
  <2> QED
    BY <1>2, <1>3, <1>4, <1>5, <1>7, <2>1
<1> QED
  BY <1>6, <1>7

\* Nobody disturbs the files of a node under way or approved but itself.
LEMMA Untouched ==
  ASSUME TypeInv, UpstreamInv, FilesTyped, NEW n \in Nodes, Start(n) \/ Work(n) \/ Judge(n) \/ Perish(n),
         NEW m \in Nodes, m # n, pc[m] \in {"working", "judging", "approved"}
  PROVE  tree'[Home(m)] = tree[Home(m)]
<1>1. Leaves(n) /\ CanStep(n)
  BY WorkFacts
<1>2. Home(m) \in Homes
  BY RolesOf DEF Homes
<1>3. CASE Home(m) # Home(n)
  BY <1>1, <1>2, <1>3 DEF Leaves
<1>4. CASE Agent(n) = "ship"
  BY <1>1, <1>4 DEF Leaves
<1>5. CASE Home(m) = Home(n) /\ Agent(n) # "ship"
  <2>1. Agent(m) = "ship" /\ Agent(n) = "integration"
    BY <1>5, RolesOf
  <2>2. tries[m] > 0
    BY DEF UpstreamInv
  <2>3. PICK i \in Approved : Agent(i) = "integration"
    BY <2>1, <2>2, RolesAbove
  <2>4. i = n
    BY <2>1, <2>3, RolesOf DEF Approved
  <2> QED
    BY <1>1, <2>3, <2>4 DEF CanStep, Over, Approved
<1> QED
  BY <1>3, <1>4, <1>5

\* A pointer that is set stays set.
LEMMA PointersStay ==
  ASSUME TypeInv, NEW n \in Nodes, Shape(n), NEW ref \in Refs, current[ref] # 0
  PROVE  current'[ref] # 0
<1>1. CASE Approves(n)
  <2>1. att[n] # 0
    BY <1>1 DEF Approves, TypeInv
  <2> QED
    BY <1>1, <2>1 DEF Approves, Promoted
<1>2. CASE current' = current
  BY <1>2
<1> QED
  BY <1>1, <1>2 DEF Shape, Begins, Escalates, Moves, NothingApproved

LEMMA JudgingStep ==
  ASSUME TypeInv, UpstreamInv, WorkInv, NEW n \in Nodes, Start(n) \/ Work(n) \/ Judge(n) \/ Perish(n)
  PROVE  JudgingInv'
<1> SUFFICES ASSUME NEW m \in Nodes, pc'[m] = "judging" PROVE Judged(m)'
  BY WorkFacts DEF JudgingInv, WorkInv
<1>1. FilesTyped /\ Leaves(n) /\ Shape(n)
  BY WorkFacts DEF WorkInv
<1>2. dag' = dag /\ world' = world /\ Agent(m)' = Agent(m) /\ Home(m)' = Home(m)
      /\ Drawn(Agent(m))' = Drawn(Agent(m))
  BY <1>1 DEF Leaves, Agent, Home, Drawn
<1>3. CASE m # n
  <2>1. pc[m] = "judging" /\ att'[m] = att[m] /\ written \subseteq written' /\ out'[m] = out[m]
    BY <1>1, <1>3, WorkFacts DEF Leaves
  <2>2. tree'[Home(m)] = tree[Home(m)]
    BY <1>1, <1>3, <2>1, Untouched
  <2>3. PICK t \in Files, f \in Drawn(Agent(m)), slow \in BOOLEAN :
          /\ f # "no_error"
          /\ tree[Home(m)] = Edit(Agent(m), t, f)
          /\ out[m] = Output(Agent(m), tree[Home(m)], f, slow)
          /\ \A ref \in Extracted(m, out[m]) : Exists(ref, att[m])
    BY <2>1 DEF WorkInv, JudgingInv, Judged
  <2>4. Extracted(m, out[m])' = Extracted(m, out[m])
    BY <1>2, <2>1 DEF Extracted
  <2>5. \A ref \in Extracted(m, out[m])' : Exists(ref, att[m])'
    BY <2>1, <2>3, <2>4 DEF Exists
  <2>6. f \in Drawn(Agent(m))' /\ tree'[Home(m)'] = Edit(Agent(m)', t, f)
        /\ out'[m] = Output(Agent(m)', tree'[Home(m)'], f, slow)
    BY <1>2, <2>1, <2>2, <2>3
  <2> QED
    BY <2>3, <2>5, <2>6 DEF Judged
<1>4. CASE m = n
  <2>1. Work(n)
    BY <1>1, <1>4, WorkFacts
    DEF Start, StartNode, BeginAttempt, Escalate, Judge, EndAttempt, Approve, Undecided, Reject, Perish, RuntimeFault, Crash
  <2>2. PICK r \in Answers(Agent(n), tree[Home(n)]) :
          /\ written' = written \cup {[ref |-> ref, attempt |-> att[n], by |-> n] : ref \in Extracted(n, r.out)}
          /\ pc'[n] = "judging" <=> ~r.out.error
          /\ tree' = [tree EXCEPT ![Home(n)] = r.tree]
          /\ out' = [out EXCEPT ![n] = [r.out EXCEPT !.gate = IF r.out.error THEN "no_error" ELSE @]]
    BY <2>1 DEF Work
  <2>3. ~r.out.error
    BY <1>4, <2>2
  <2>4. Reported(Agent(n), r)
    BY <1>1, <2>3, RolesOf, AnswersShape DEF Lost, FilesTyped
  <2>5. PICK t \in Files, f \in Drawn(Agent(n)), slow \in BOOLEAN :
          r.tree = Edit(Agent(n), t, f) /\ r.out = Output(Agent(n), r.tree, f, slow)
    BY <2>4 DEF Reported
  <2>6. f # "no_error"
    BY <2>3, <2>5, OutputShape
  <2>7. tree'[Home(n)] = r.tree
    BY <1>1, <2>2, RolesOf DEF FilesTyped
  <2>8. out'[n] = r.out
    <3>1. [r.out EXCEPT !.gate = IF r.out.error THEN "no_error" ELSE @] = r.out
      BY <2>3, <2>5 DEF Output
    <3> QED
      BY <1>1, <2>2, <3>1 DEF FilesTyped
  <2>9. att'[n] = att[n]
    BY <1>1, <1>4, WorkFacts DEF Shape, Begins, Escalates, Escalate, Approves, Moves
  <2>10. Extracted(n, out[n])' = Extracted(n, r.out)
    BY <1>2, <2>8 DEF Extracted
  <2>11. \A ref \in Extracted(n, out[n])' : Exists(ref, att[n])'
    <3> SUFFICES ASSUME NEW ref \in Extracted(n, r.out) PROVE Exists(ref, att[n])'
      BY <2>10
    <3>1. [ref |-> ref, attempt |-> att[n], by |-> n] \in written'
      BY <2>2
    <3> QED
      BY <2>9, <3>1 DEF Exists
  <2>12. f \in Drawn(Agent(n))' /\ tree'[Home(n)'] = Edit(Agent(n)', t, f)
         /\ out'[n] = Output(Agent(n)', tree'[Home(n)'], f, slow)
    BY <1>2, <1>4, <2>5, <2>7, <2>8
  <2> QED
    BY <1>4, <2>6, <2>11, <2>12 DEF Judged
<1> QED
  BY <1>3, <1>4

\* A backend that is approved has the endpoint, good tests and a contract on record.
LEMMA BackendStep ==
  ASSUME TypeInv, UpstreamInv, WorkInv, NEW n \in Nodes, Start(n) \/ Work(n) \/ Judge(n) \/ Perish(n)
  PROVE  BackendInv'
<1>1. FilesTyped /\ Leaves(n) /\ Shape(n) /\ BackendInv /\ Nodes' = Nodes
  BY WorkFacts DEF WorkInv
<1>2. tree \in [Homes -> Files] /\ dag' = dag /\ world' = world /\ \A m \in Nodes : Agent(m)' = Agent(m)
  BY <1>1 DEF FilesTyped, Homes, Leaves, Agent
<1>3. ~tree'["backend"].probe
  <2>1. CASE Agent(n) = "backend"
    BY <1>1, <2>1 DEF Leaves, BackendInv
  <2>2. CASE Agent(n) # "backend"
    <3>1. Home(n) # "backend"
      BY <2>2 DEF Home
    <3> QED
      BY <1>1, <3>1 DEF Leaves, BackendInv, Homes
  <2> QED
    BY <2>1, <2>2
<1>4. /\ Published("endpoint") => Published("endpoint")'
      /\ Published("schema") => Published("schema")'
  BY <1>1, PointersStay, SocietyAssumption DEF Published
<1>5. ASSUME NEW m \in Approved', Agent(m) = "backend"
      PROVE  /\ tree'["backend"].main = "login" /\ tree'["backend"].test = "good"
             /\ Published("endpoint")' /\ Published("schema")'
  <2>1. CASE m \in Approved
    <3>1. m # n /\ m \in Nodes /\ pc[m] = "approved" /\ Home(m) = "backend"
      BY <1>1, <1>5, <2>1 DEF Shape, Approved, Home
    <3>2. tree'["backend"] = tree["backend"]
      BY <1>1, <3>1, Untouched
    <3> QED
      BY <1>1, <1>4, <1>5, <2>1, <3>2 DEF BackendInv
  <2>2. CASE m \notin Approved
    <3>1. m = n /\ Approves(n) /\ Judge(n)
      BY <1>1, <1>5, <2>2, WorkFacts
    <3>2. pc[n] = "judging" /\ Judged(n)
      BY <3>1 DEF Judge, WorkInv, JudgingInv
    <3>3. PICK slow \in {FALSE, world.late} : \E j \in Judgements(n, slow) : j.verdict = "approved"
      BY <1>1, <3>1, OnlyJudgeApproves
    <3>4. /\ out[n].fault = "none" /\ out[n].result = "complete"
          /\ tree["backend"].main = "login" /\ tree["backend"].test = "good"
      BY <1>1, <1>5, <3>1, <3>2, <3>3, BackendOutcome DEF BackendInv
    <3>5. tree' = tree
      BY <1>1, <3>2 DEF Leaves
    <3>6. {<<"backend", "endpoint">>, <<"backend", "schema">>} \subseteq dag.outs[n] /\ att[n] # 0
      BY <1>1, <1>5, <3>1, <3>2, RolesOf DEF TypeInv
    <3>7. \A ref \in dag.outs[n] : Exists(ref, att[n])
      BY <3>2, <3>4 DEF Judged, Extracted
    <3>8. \A ref \in Refs \cap dag.outs[n] : current'[ref] = att[n]
      BY <3>1, <3>7 DEF Approves, Promoted
    <3> QED
      BY <3>4, <3>5, <3>6, <3>8, SocietyAssumption DEF Published
  <2> QED
    BY <2>1, <2>2
<1> QED
  BY <1>1, <1>2, <1>3, <1>5 DEF BackendInv, Approved

LEMMA FrontendStep ==
  ASSUME TypeInv, UpstreamInv, WorkInv, NEW n \in Nodes, Start(n) \/ Work(n) \/ Judge(n) \/ Perish(n)
  PROVE  FrontendInv'
<1>1. FilesTyped /\ Leaves(n) /\ Shape(n) /\ Nodes' = Nodes
  BY WorkFacts DEF WorkInv
<1>2. dag' = dag /\ \A m \in Nodes : Agent(m)' = Agent(m)
  BY <1>1 DEF Leaves, Agent
<1>3. ASSUME NEW m \in Approved', Agent(m) = "frontend" PROVE HasForm(tree'["frontend"])
  <2>1. CASE m \in Approved
    <3>1. m # n /\ m \in Nodes /\ pc[m] = "approved" /\ Home(m) = "frontend"
      BY <1>1, <1>3, <2>1 DEF Shape, Approved, Home
    <3>2. tree'["frontend"] = tree["frontend"]
      BY <1>1, <3>1, Untouched
    <3> QED
      BY <1>3, <2>1, <3>2 DEF WorkInv, FrontendInv
  <2>2. CASE m \notin Approved
    <3>1. m = n /\ Approves(n) /\ Judge(n)
      BY <1>1, <1>3, <2>2, WorkFacts
    <3>2. pc[n] = "judging" /\ Judged(n)
      BY <3>1 DEF Judge, WorkInv, JudgingInv
    <3>3. PICK slow \in {FALSE, world.late} : \E j \in Judgements(n, slow) : j.verdict = "approved"
      BY <1>1, <3>1, OnlyJudgeApproves
    <3>4. HasForm(tree["frontend"])
      BY <1>1, <1>3, <3>1, <3>2, <3>3, FrontendOutcome
    <3> QED
      BY <1>1, <3>2, <3>4 DEF Leaves
  <2> QED
    BY <2>1, <2>2
<1>4. HasForm(tree["frontend"])' <=> HasForm(tree'["frontend"])
  BY DEF HasForm
<1> QED
  BY <1>1, <1>2, <1>3, <1>4 DEF FrontendInv, Approved

\* What integration works in is what the two sides were approved with.
LEMMA RootStep ==
  ASSUME TypeInv, UpstreamInv, WorkInv, NEW n \in Nodes, Start(n) \/ Work(n) \/ Judge(n) \/ Perish(n)
  PROVE  RootInv'
<1>1. FilesTyped /\ Leaves(n) /\ Shape(n) /\ Nodes' = Nodes /\ RootInv
  BY WorkFacts DEF WorkInv
<1>2. dag' = dag /\ prepared \in BOOLEAN /\ tree \in [Homes -> Files] /\ \A m \in Nodes : Agent(m)' = Agent(m)
  BY <1>1 DEF Leaves, Agent, FilesTyped, Homes
<1>3. prepared' => Sound(tree'["root"])
  <2>1. CASE prepared
    <3>1. Home(n) = "root" => Agent(n) \in {"integration", "ship"}
      BY <1>1, RolesOf
    <3>2. /\ tree'["root"].main = tree["root"].main
          /\ tree'["root"].test = tree["root"].test
          /\ tree'["root"].html = tree["root"].html
      BY <1>1, <2>1, <3>1 DEF Leaves, Homes
    <3> QED
      BY <1>1, <2>1, <3>2 DEF RootInv, Sound, HasForm
  <2>2. CASE ~prepared /\ prepared'
    <3>1. Agent(n) = "integration" /\ pc[n] = "waiting" /\ Ready(n) /\ tree'["root"] = Merged
      BY <1>1, <1>2, <2>2 DEF Leaves
    <3>2. (\E m \in Approved : Agent(m) = "backend") /\ (\E m \in Approved : Agent(m) = "frontend")
      BY <1>1, <3>1, RolesAbove
    <3>3. tree["backend"].main = "login" /\ tree["backend"].test = "good" /\ HasForm(tree["frontend"])
      BY <3>2 DEF WorkInv, BackendInv, FrontendInv
    <3>4. Merged.main = "login" /\ Merged.test = "good" /\ Merged.html = tree["frontend"].html
      BY <1>2, <3>3 DEF Merged, Over2, Files, HasForm, Homes
    <3> QED
      BY <3>1, <3>3, <3>4 DEF Sound, HasForm
  <2> QED
    BY <2>1, <2>2
<1>4. ASSUME NEW m \in Nodes, Agent(m) = "integration", pc'[m] \in {"working", "judging", "approved"}
      PROVE  prepared'
  <2>1. CASE pc[m] \in {"working", "judging", "approved"}
    <3>1. prepared
      BY <1>1, <1>4, <2>1 DEF RootInv, Busy, Approved
    <3> QED
      BY <1>1, <3>1 DEF Leaves
  <2>2. CASE pc[m] \notin {"working", "judging", "approved"}
    <3>0. /\ pc[n] \in {"waiting", "working", "judging"} /\ pc \in [Nodes -> Places]
          /\ \A k \in Nodes \ {n} : pc'[k] = pc[k]
      BY <1>1, WorkFacts
    <3>1. m = n /\ pc[n] = "waiting"
      BY <1>4, <2>2, <3>0
    <3>2. Start(n) /\ ~Escalate(n)
      <4>1. ~Escalate(n) /\ ~Crash(n)
        BY <1>4, <3>0, <3>1 DEF Crash, Escalate
      <4> QED
        BY <3>1, <4>1 DEF Work, WorkerReturns, Judge, Perish, RuntimeFault
    <3>3. \A ref \in dag.ins[n] : current[ref] # 0
      BY <3>2 DEF Start, StartNode
    <3> QED
      BY <1>4, <3>1, <3>2, <3>3 DEF Start
  <2> QED
    BY <2>1, <2>2
<1>5. Sound(tree["root"])' <=> Sound(tree'["root"])
  BY DEF Sound, HasForm
<1> QED
  BY <1>1, <1>2, <1>3, <1>4, <1>5 DEF RootInv, Busy, Approved

\* The gate of a report that was judged or failed at once, and of no other.
LEMMA FaultStep ==
  ASSUME TypeInv, UpstreamInv, WorkInv, NEW n \in Nodes, Start(n) \/ Work(n) \/ Judge(n) \/ Perish(n)
  PROVE  FaultCaught'
<1>1. FilesTyped /\ Leaves(n) /\ Shape(n) /\ Nodes' = Nodes /\ FaultCaught
  BY WorkFacts DEF WorkInv
<1>2. dag' = dag /\ world' = world /\ \A m \in Nodes : Agent(m)' = Agent(m)
  BY <1>1 DEF Leaves, Agent
<1>3. \A m \in Nodes : out'[m] = out[m] => (TooEarly(m)' <=> TooEarly(m))
  BY <1>1, <1>2 DEF TooEarly
<1> DEFINE Caught(o, m) ==
      o.fault # "lost" /\ o.gate # "pending" /\ ~o.slow /\ ~(world.judge = "remote" /\ o.gate = "jev")
        /\ ~(o.gate \in {"uses_endpoint", "schema_diff"} /\ \E k \in Nodes : Agent(k) = "backend" /\ k \notin Ancestors(dag, m))
      => o.gate = o.fault
<1>4. \A m \in Nodes : Caught(out[m], m)
  BY <1>1 DEF FaultCaught, TooEarly
<1>5. Caught(out'[n], n)
  <2>1. CASE Start(n) \/ Perish(n)
    BY <1>4, <2>1 DEF Start, Perish
  <2>2. CASE Work(n)
    <3>1. PICK r \in Answers(Agent(n), tree[Home(n)]) :
            out' = [out EXCEPT ![n] = [r.out EXCEPT !.gate = IF r.out.error THEN "no_error" ELSE @]]
      BY <2>2 DEF Work
    <3>2. out'[n] = [r.out EXCEPT !.gate = IF r.out.error THEN "no_error" ELSE @]
      BY <1>1, <3>1 DEF FilesTyped
    <3>3. r.out = Lost \/ Reported(Agent(n), r)
      BY <1>1, RolesOf, AnswersShape DEF FilesTyped
    <3>4. CASE r.out = Lost
      BY <3>2, <3>4 DEF Lost
    <3>5. CASE Reported(Agent(n), r)
      <4>1. PICK f : /\ IsReport(r.out) /\ r.out.fault = f /\ r.out.gate = "pending"
                     /\ r.out.error <=> f = "no_error"
        BY <3>5, OutputShape DEF Reported
      <4>2. out'[n].fault = f /\ out'[n].gate = IF r.out.error THEN "no_error" ELSE "pending"
        BY <3>2, <4>1 DEF IsReport
      <4> QED
        BY <4>1, <4>2
    <3> QED
      BY <3>3, <3>4, <3>5
  <2>3. CASE Judge(n)
    <3>1. PICK slow \in {FALSE, world.late} : \E j \in Judgements(n, slow) :
            out' = [out EXCEPT ![n].gate = IF j.verdict = "approved" THEN "none" ELSE j.gate,
                               ![n].slow = @ \/ slow]
      BY <2>3 DEF Judge
    <3>2. PICK j \in Judgements(n, slow) :
            out' = [out EXCEPT ![n].gate = IF j.verdict = "approved" THEN "none" ELSE j.gate,
                               ![n].slow = @ \/ slow]
      BY <3>1
    <3>3. /\ out'[n].fault = out[n].fault /\ out'[n].gate = (IF j.verdict = "approved" THEN "none" ELSE j.gate)
          /\ out'[n].slow <=> out[n].slow \/ slow
      BY <1>1, <3>2 DEF FilesTyped, IsReport
    <3>4. Judged(n) /\ pc[n] = "judging" /\ tries[n] > 0
      BY <2>3 DEF Judge, WorkInv, JudgingInv, UpstreamInv
    <3> HIDE DEF Caught
    <3>5. CASE Agent(n) = "backend"
      <4>1. /\ j.verdict = "approved" => out[n].fault = "none"
            /\ j.verdict # "approved" /\ ~slow => j.gate = out[n].fault
        BY <1>1, <3>4, <3>5, BackendOutcome DEF WorkInv, BackendInv
      <4> QED
        BY <3>3, <4>1 DEF Caught
    <3>6. CASE Agent(n) = "frontend"
      <4>1. /\ j.verdict = "approved" => out[n].fault = "none"
            /\ j.verdict # "approved" =>
                 \/ j.gate = out[n].fault
                 \/ j.gate \in {"uses_endpoint", "schema_diff"} /\ ~(Published("endpoint") /\ Published("schema"))
        BY <1>1, <3>4, <3>6, FrontendOutcome
      <4>2. ~(Published("endpoint") /\ Published("schema")) =>
              \E k \in Nodes : Agent(k) = "backend" /\ k \notin Ancestors(dag, n)
        <5>1. PICK k \in Nodes : Agent(k) = "backend"
          BY <1>1, BackendExists
        <5>2. k \in Ancestors(dag, n) => k \in Approved
          BY <3>4, AboveApproved
        <5> QED
          BY <5>1, <5>2 DEF WorkInv, BackendInv
      <4> QED
        BY <3>3, <4>1, <4>2 DEF Caught
    <3>7. CASE Agent(n) = "integration"
      <4>1. Sound(tree["root"])
        BY <3>4, <3>7 DEF WorkInv, RootInv, Busy
      <4>2. /\ j.verdict = "approved" => out[n].fault = "none"
            /\ j.verdict # "approved" /\ ~slow /\ ~out[n].slow /\ ~(world.judge = "remote" /\ j.gate = "jev")
                 => j.gate = out[n].fault
        BY <1>1, <3>4, <3>7, <4>1, IntegrationOutcome
      <4> QED
        BY <3>3, <4>2 DEF Caught
    <3>8. CASE Agent(n) = "ship"
      <4>1. PytestPasses(tree["root"]) /\ HasLogin(tree["root"])
        BY <1>1, <3>4, <3>8, RolesAbove DEF WorkInv, Delivered
      <4>2. /\ j.verdict = "approved" => out[n].fault = "none"
            /\ j.verdict # "approved" /\ ~(world.judge = "remote" /\ j.gate = "jev") => j.gate = out[n].fault
        BY <1>1, <3>4, <3>8, <4>1, ShipOutcome
      <4> QED
        BY <3>3, <4>2 DEF Caught
    <3> QED
      BY <1>1, <3>5, <3>6, <3>7, <3>8, RolesOf
  <2> QED
    BY <2>1, <2>2, <2>3
<1>6. ASSUME NEW m \in Nodes PROVE Caught(out'[m], m)
  <2>1. CASE m = n
    BY <1>5, <2>1
  <2>2. CASE m # n
    BY <1>1, <1>4, <2>2 DEF Leaves
  <2> QED
    BY <2>1, <2>2
<1> QED
  BY <1>1, <1>2, <1>6 DEF FaultCaught, TooEarly

\* What ship looks at, and what is there at the end, is what integration approved.
LEMMA DeliveryStep ==
  ASSUME TypeInv, UpstreamInv, WorkInv, NEW n \in Nodes, Start(n) \/ Work(n) \/ Judge(n) \/ Perish(n)
  PROVE  Delivered'
<1>1. FilesTyped /\ Leaves(n) /\ Shape(n) /\ Nodes' = Nodes /\ Delivered
  BY WorkFacts DEF WorkInv
<1>2. dag' = dag /\ world' = world /\ \A m \in Nodes : Agent(m)' = Agent(m)
  BY <1>1 DEF Leaves, Agent
<1> DEFINE Done(t, o, m) ==
      /\ Agent(m) = "integration" => PytestPasses(t) /\ HasLogin(t) /\ (o.claim \/ world.judge = "remote")
      /\ Agent(m) = "ship" => PytestPasses(t) /\ HasLogin(t) /\ (o.claim \/ o.slow)
<1>3. \A m \in Approved : Done(tree["root"], out[m], m)
  BY <1>1 DEF Delivered
<1>4. ASSUME NEW m \in Approved' PROVE Done(tree'["root"], out'[m], m)
  <2>1. CASE m \in Approved
    <3>1. m # n /\ m \in Nodes /\ pc[m] = "approved"
      BY <1>1, <2>1 DEF Shape, Approved
    <3>2. out'[m] = out[m] /\ tree'[Home(m)] = tree[Home(m)]
      BY <1>1, <3>1, Untouched DEF Leaves
    <3>3. Agent(m) \in {"integration", "ship"} => Home(m) = "root"
      BY DEF Home
    <3> QED
      BY <1>3, <2>1, <3>2, <3>3
  <2>2. CASE m \notin Approved
    <3>1. m = n /\ Approves(n) /\ Judge(n)
      BY <1>1, <2>2, WorkFacts
    <3>2. pc[n] = "judging" /\ Judged(n) /\ tries[n] > 0 /\ tree' = tree
      BY <1>1, <3>1 DEF Judge, WorkInv, JudgingInv, UpstreamInv
    <3>3. PICK slow \in {FALSE, world.late} : \E j \in Judgements(n, slow) :
            EndAttempt(n, j.verdict)
            /\ out' = [out EXCEPT ![n].gate = IF j.verdict = "approved" THEN "none" ELSE j.gate,
                                  ![n].slow = @ \/ slow]
      BY <3>1 DEF Judge
    <3>4. PICK j \in Judgements(n, slow) :
            EndAttempt(n, j.verdict)
            /\ out' = [out EXCEPT ![n].gate = IF j.verdict = "approved" THEN "none" ELSE j.gate,
                                  ![n].slow = @ \/ slow]
      BY <3>3
    <3>5. j.verdict = "approved"
      <4>1. pc'[n] = "approved"
        BY <3>1, <1>1 DEF Approves, TypeInv, TypeOK
      <4> QED
        BY <3>4, <4>1, EndAttemptApproves
    <3>6. out'[n].claim = out[n].claim /\ (out'[n].slow <=> out[n].slow \/ slow)
      BY <1>1, <3>4 DEF FilesTyped, IsReport
    <3>7. CASE Agent(n) = "integration"
      <4>1. Sound(tree["root"])
        BY <3>2, <3>7 DEF WorkInv, RootInv, Busy
      <4>2. PytestPasses(tree["root"]) /\ (out[n].claim \/ world.judge = "remote")
        BY <1>1, <3>2, <3>5, <3>7, <4>1, IntegrationOutcome
      <4> QED
        BY <3>1, <3>2, <3>6, <3>7, <4>1, <4>2 DEF Sound, HasLogin
    <3>8. CASE Agent(n) = "ship"
      <4>1. PytestPasses(tree["root"]) /\ HasLogin(tree["root"])
        BY <1>1, <3>2, <3>8, RolesAbove DEF WorkInv, Delivered
      <4>2. out[n].claim \/ out[n].slow
        BY <1>1, <3>2, <3>5, <3>8, <4>1, ShipOutcome
      <4> QED
        BY <3>1, <3>2, <3>6, <3>8, <4>1, <4>2
    <3> QED
      BY <3>1, <3>7, <3>8
  <2> QED
    BY <2>1, <2>2
<1>5. /\ PytestPasses(tree.root)' <=> PytestPasses(tree'["root"])
      /\ HasLogin(tree.root)' <=> HasLogin(tree'["root"])
  BY DEF PytestPasses, HasLogin, HasForm
<1>6. \A m \in Approved' : m \in Nodes
  BY <1>1 DEF Approved
<1> QED
  BY <1>2, <1>4, <1>5, <1>6 DEF Delivered

-----------------------------------------------------------------------------
(* The invariant, and what it gives. *)

LEMMA TypedStep ==
  ASSUME TypeInv, FilesTyped, NEW n \in Nodes, Start(n) \/ Work(n) \/ Judge(n) \/ Perish(n)
  PROVE  FilesTyped'
<1>1. Leaves(n) /\ Nodes' = Nodes
  BY WorkFacts
<1>2. IsReport(out'[n]) /\ \A m \in Nodes \ {n} : IsReport(out'[m])
  BY <1>1 DEF Leaves, FilesTyped
<1>3. \A m \in Nodes : IsReport(out[m])' <=> IsReport(out'[m])
  BY DEF IsReport
<1> QED
  BY <1>1, <1>2, <1>3 DEF Leaves, FilesTyped, Homes

\* The start and the end of the run, and a task that is skipped, touch nothing.
LEMMA EndsKeep ==
  ASSUME TypeInv, WorkInv, Ends \/ UNCHANGED svars
  PROVE  WorkInv'
<1>1. UNCHANGED <<dag, world, tree, prepared, out, written, current, att>>
  BY DEF Ends, RunStart, RunEnd, SkipNode, svars
<1>2. /\ \A n \in Nodes : pc'[n] = pc[n] \/ pc'[n] = "skipped"
      /\ \A n \in Nodes : pc[n] = "approved" => pc'[n] = "approved"
  <2>1. CASE UNCHANGED pc
    BY <2>1
  <2>2. ASSUME NEW n \in Nodes, SkipNode(n) PROVE pc[n] = "waiting" /\ pc' = [pc EXCEPT ![n] = "skipped"]
    BY <2>2 DEF SkipNode
  <2>3. DOMAIN pc = Nodes
    BY DEF TypeInv, TypeOK
  <2> QED
    BY <2>1, <2>2, <2>3 DEF Ends, RunStart, RunEnd, svars
<1>3. Nodes' = Nodes /\ \A n \in Nodes : Agent(n)' = Agent(n) /\ Home(n)' = Home(n)
  BY <1>1 DEF Nodes, Agent, Home
<1>4. Approved' = Approved
  BY <1>2, <1>3 DEF Approved
<1>5. FilesTyped'
  BY <1>1, <1>3 DEF WorkInv, FilesTyped, IsReport
<1>6. JudgingInv'
  <2> SUFFICES ASSUME NEW n \in Nodes, pc'[n] = "judging" PROVE Judged(n)'
    BY <1>3 DEF JudgingInv
  <2>1. Judged(n)
    BY <1>2 DEF WorkInv, JudgingInv
  <2>2. /\ Drawn(Agent(n))' = Drawn(Agent(n)) /\ Extracted(n, out[n])' = Extracted(n, out[n])
        /\ \A ref : Exists(ref, att[n])' <=> Exists(ref, att[n])
    BY <1>1, <1>3 DEF Drawn, Extracted, Exists
  <2> QED
    BY <1>1, <1>3, <2>1, <2>2 DEF Judged
<1>7. BackendInv'
  BY <1>1, <1>3, <1>4 DEF WorkInv, BackendInv, Published, Approved
<1>8. FrontendInv'
  BY <1>1, <1>3, <1>4 DEF WorkInv, FrontendInv, HasForm, Approved
<1>9. RootInv'
  <2>1. (Busy \cup Approved)' \subseteq Busy \cup Approved /\ Busy \cup Approved \subseteq Nodes
    BY <1>2, <1>3 DEF Busy, Approved
  <2>2. Sound(tree["root"])' <=> Sound(tree["root"])
    BY <1>1 DEF Sound, HasForm
  <2> QED
    BY <1>1, <1>3, <2>1, <2>2 DEF WorkInv, RootInv
<1>10. FaultCaught'
  BY <1>1, <1>3 DEF WorkInv, FaultCaught, TooEarly
<1>11. Delivered'
  BY <1>1, <1>3, <1>4 DEF WorkInv, Delivered, PytestPasses, HasLogin, HasForm, Approved
<1> QED
  BY <1>5, <1>6, <1>7, <1>8, <1>9, <1>10, <1>11 DEF WorkInv

LEMMA WorkStep ==
  TypeInv /\ UpstreamInv /\ WorkInv /\ [SocietyNext]_svars => WorkInv'
<1> SUFFICES ASSUME TypeInv, UpstreamInv, WorkInv, [SocietyNext]_svars PROVE WorkInv'
  OBVIOUS
<1>1. CASE Ends \/ UNCHANGED svars
  BY <1>1, EndsKeep
<1>2. ASSUME NEW n \in Nodes, Start(n) \/ Work(n) \/ Judge(n) \/ Perish(n) PROVE WorkInv'
  <2>1. FilesTyped'
    BY <1>2, TypedStep DEF WorkInv
  <2> QED
    BY <1>2, <2>1, JudgingStep, BackendStep, FrontendStep, RootStep, FaultStep, DeliveryStep DEF WorkInv
<1> QED
  BY <1>1, <1>2 DEF SocietyNext

LEMMA WorkInit == SocietyInit => WorkInv
<1> SUFFICES ASSUME SocietyInit PROVE WorkInv
  OBVIOUS
<1>1. Approved = {} /\ Busy = {} /\ \A n \in Nodes : pc[n] # "judging"
  BY DEF SocietyInit, Init, Approved, Busy, Nodes
<1>2. FilesTyped
  BY DEF SocietyInit, FilesTyped, Empty, Files, Lost, IsReport
<1>3. FaultCaught
  BY DEF SocietyInit, FaultCaught, Lost
<1>4. ~tree["backend"].probe /\ ~prepared
  BY DEF SocietyInit, Empty
<1> QED
  BY <1>1, <1>2, <1>3, <1>4 DEF WorkInv, JudgingInv, BackendInv, FrontendInv, RootInv, Delivered

LEMMA WorkInvariant == SocietySpec => []WorkInv
<1>1. SocietyInit => Init
  BY DEF SocietyInit
<1> QED
  BY <1>1, TypeInit, TypeStep, UpstreamInit, UpstreamStep, SocietyStep, WorkInit, WorkStep, PTL DEF SocietySpec

(***************************************************************************)
(* Whatever faults the workers are drawn, in whatever order the attempts,  *)
(* the retries, the second provider's and those that could not be paid for *)
(* leave their files: the gate that turns an attempt down is the one the   *)
(* fault was drawn for, and an attempt without a fault is approved, but    *)
(* for a test run that timed out, a model's opinion, and a frontend that   *)
(* does not wait for its backend.                                          *)
(***************************************************************************)
THEOREM FaultsAreCaught == SocietySpec => []FaultCaught
<1>1. WorkInv => FaultCaught
  BY DEF WorkInv
<1> QED
  BY <1>1, WorkInvariant, PTL

(***************************************************************************)
(* What the gates of integration and ship let through works: the merged    *)
(* tree passes its tests and has the endpoint and the form, also at the    *)
(* end of the run, and the report says so but for the named excuses.       *)
(***************************************************************************)
THEOREM DeliveredWorks == SocietySpec => []Delivered
<1>1. WorkInv => Delivered
  BY DEF WorkInv
<1> QED
  BY <1>1, WorkInvariant, PTL
=============================================================================
