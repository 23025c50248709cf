------------------------------- MODULE DagRun -------------------------------
(***************************************************************************)
(* One run of a DAG: DagRunner.run (society/runner/dag.py) with            *)
(* execute_node (society/gates/executor.py), the KV store's attempts and   *)
(* `:current` pointers (memory/kv.py) and the lineage log                  *)
(* (memory/lineage.py).                                                    *)
(*                                                                         *)
(* run() starts one asyncio task per node.  A task runs uninterrupted      *)
(* between two awaits, and it awaits the completion events of its          *)
(* dependencies, the worker, and the gates; each action below is one such  *)
(* stretch.  The store and the log are keyed by the run, so two runs do    *)
(* not meet here.                                                          *)
(***************************************************************************)
EXTENDS Naturals, FiniteSets, DagShape

CONSTANTS
  Agents,        \* the agents the runner knows
  Refs,          \* the references <<agent, dtype>> they have an extractor for
  Dags,          \* the DAGs run() may be called with
  MaxAttempts,   \* RetryPolicy.max_attempts
  MaxRunCost,    \* RetryPolicy.max_run_cost_usd, in units of cost
  MaxCallCost    \* the most one attempt costs, in the same units

ASSUME DagRunAssumption ==
  /\ Refs \subseteq Agents \X {r[2] : r \in Refs}
  /\ MaxAttempts \in Nat \ {0}
  /\ MaxRunCost \in Nat \ {0}
  /\ MaxCallCost \in Nat
  /\ \A d \in Dags : IsFiniteSet(d.nodes)

VARIABLES
  dag,       \* the argument of run()
  phase,     \* of run(): "called", "running", "returned", "raised"
  status,    \* result.status
  failed,    \* the event `failed`
  done,      \* the nodes whose completion event is set
  pc,        \* node -> where its task is
  tries,     \* node -> attempts begun so far
  att,       \* node -> number of its latest attempt, 0 before the first
  runs,      \* agent -> highest "_run" attempt number in the store
  written,   \* output attempts in the store, [ref, attempt, by]
  current,   \* ref -> attempt its :current pointer names, 0 for none
  context,   \* node -> what _build_input read for it, [ref, attempt]
  lineage,   \* verdicts on record, [node, agent, attempt, verdict]
  spent      \* total_cost of the lineage log

vars == <<dag, phase, status, failed, done, pc, tries, att, runs, written,
          current, context, lineage, spent>>

Nodes == dag.nodes
Agent(n) == dag.agent[n]

\* Tasks that take no further step, and those an attempt of which is under way.
Over == {n \in Nodes : pc[n] \in {"approved", "escalated", "skipped", "crashed"}}
Busy == {n \in Nodes : pc[n] \in {"working", "judging"}}
Approved == {n \in Nodes : pc[n] = "approved"}

Record(n, a, verdict) == [node |-> n, agent |-> Agent(n), attempt |-> a, verdict |-> verdict]

-----------------------------------------------------------------------------
(* The KV store. *)

Exists(ref, a) == \E w \in written : w.ref = ref /\ w.attempt = a

\* A plausible bug: attempts numbered by the node's own retry count.
NextAttemptOfNode(n) == tries[n] + 1

\* next_attempt: one more than the highest number of this agent's "_run" keys.
NextAttempt(n) == runs[Agent(n)] + 1

\* promote, for every output key that this attempt wrote.
Promoted(n) ==
  [ref \in Refs |-> IF ref \in dag.outs[n] /\ Exists(ref, att[n]) THEN att[n] ELSE current[ref]]

-----------------------------------------------------------------------------
(* execute_node, between two awaits. *)

\* A plausible bug: the tasks waiting downstream are not told.
EscalateQuietly(n) ==
  /\ pc' = [pc EXCEPT ![n] = "escalated"]
  /\ status' = "escalated"
  /\ failed' = TRUE
  /\ UNCHANGED done

\* A plausible bug: the result keeps the status it was created with.
EscalateUnmarked(n) ==
  /\ pc' = [pc EXCEPT ![n] = "escalated"]
  /\ UNCHANGED status
  /\ failed' = TRUE
  /\ done' = Nodes

\* EscalationRequired or RuntimeError, as run_node handles it: every event is set.
Escalate(n) ==
  /\ pc' = [pc EXCEPT ![n] = "escalated"]
  /\ status' = "escalated"
  /\ failed' = TRUE
  /\ done' = Nodes

\* A plausible bug: no attempt looks at the ceiling.
BeginAttemptUnmetered(n, c, L) ==
  /\ lineage' = L
  /\ runs' = [runs EXCEPT ![Agent(n)] = NextAttempt(n)]
  /\ att' = [att EXCEPT ![n] = NextAttempt(n)]
  /\ tries' = [tries EXCEPT ![n] = @ + 1]
  /\ pc' = [pc EXCEPT ![n] = "working"]
  /\ UNCHANGED <<status, failed, done>>

(***************************************************************************)
(* One turn of the attempt loop up to `await worker.run`: the cost         *)
(* ceiling, then a fresh attempt number.  c is the total cost on record    *)
(* and L the log so far.                                                   *)
(***************************************************************************)
BeginAttempt(n, c, L) ==
  \/ /\ c >= MaxRunCost
     /\ lineage' = L \cup {Record(n, 0, "escalated")}
     /\ Escalate(n)
     /\ UNCHANGED <<tries, att, runs>>
  \/ /\ c < MaxRunCost
     /\ lineage' = L
     /\ runs' = [runs EXCEPT ![Agent(n)] = NextAttempt(n)]
     /\ att' = [att EXCEPT ![n] = NextAttempt(n)]
     /\ tries' = [tries EXCEPT ![n] = @ + 1]
     /\ pc' = [pc EXCEPT ![n] = "working"]
     /\ UNCHANGED <<status, failed, done>>

Approve(n, L) ==
  /\ lineage' = L
  /\ current' = Promoted(n)
  /\ pc' = [pc EXCEPT ![n] = "approved"]
  /\ done' = done \cup {n}
  /\ UNCHANGED <<status, failed, tries, att, runs>>

Undecided(n, L) ==
  /\ lineage' = L \cup {Record(n, att[n], "escalated")}
  /\ Escalate(n)
  /\ UNCHANGED <<current, tries, att, runs>>

\* A plausible bug: a rejected attempt is always followed by another.
RejectForever(n, L, c) == UNCHANGED current /\ BeginAttempt(n, c, L)

Reject(n, L, c) ==
  /\ UNCHANGED current
  /\ \/ tries[n] < MaxAttempts /\ BeginAttempt(n, c, L)
     \/ /\ tries[n] = MaxAttempts
        /\ lineage' = L \cup {Record(n, MaxAttempts, "escalated")}
        /\ Escalate(n)
        /\ UNCHANGED <<tries, att, runs>>

\* A plausible bug: a gate that abstains lets the attempt through.
EndAttemptLenient(n, verdict) ==
  \E c \in 0 .. MaxCallCost :
    LET L == lineage \cup {Record(n, att[n], verdict)} IN
    /\ spent' = spent + c
    /\ \/ verdict \in {"approved", "abstained", "error"} /\ Approve(n, L)
       \/ verdict = "rejected" /\ Reject(n, L, spent + c)

\* The gates' last verdict and the attempt's cost go on record; then it takes effect.
EndAttempt(n, verdict) ==
  \E c \in 0 .. MaxCallCost :
    LET L == lineage \cup {Record(n, att[n], verdict)} IN
    /\ spent' = spent + c
    /\ \/ verdict = "approved" /\ Approve(n, L)
       \/ verdict \in {"abstained", "error"} /\ Undecided(n, L)
       \/ verdict = "rejected" /\ Reject(n, L, spent + c)

-----------------------------------------------------------------------------
(* Actions. *)

Init ==
  /\ dag \in Dags
  /\ phase = "called"
  /\ status = "completed"
  /\ failed = FALSE
  /\ done = {}
  /\ pc = [n \in Nodes |-> "waiting"]
  /\ tries = [n \in Nodes |-> 0]
  /\ att = [n \in Nodes |-> 0]
  /\ runs = [a \in Agents |-> 0]
  /\ written = {}
  /\ current = [ref \in Refs |-> 0]
  /\ context = [n \in Nodes |-> {}]
  /\ lineage = {}
  /\ spent = 0

\* run() up to the gather: an invalid DAG is returned unrun.
RunStart ==
  /\ phase = "called"
  /\ \/ Validate(dag, Agents, Refs) /\ phase' = "running" /\ UNCHANGED status
     \/ ~Validate(dag, Agents, Refs) /\ phase' = "returned" /\ status' = "invalid"
  /\ UNCHANGED <<dag, failed, done, pc, tries, att, runs, written, current, context, lineage, spent>>

\* A task may run once gather has started it, also after run() has raised.
CanStep(n) == phase \in {"running", "raised"} /\ n \notin Over

\* A plausible bug: `failed` is not looked at again after the waits.
ReadyBlind(n) == dag.deps[n] \subseteq done

Ready(n) == dag.deps[n] \subseteq done /\ ~failed

(***************************************************************************)
(* run_node after its last wait: _build_input reads the current value of   *)
(* every input (one without a pointer is a RuntimeError), then the first   *)
(* attempt begins.                                                         *)
(***************************************************************************)
StartNode(n) ==
  /\ CanStep(n) /\ pc[n] = "waiting" /\ Ready(n)
  /\ \/ /\ \A ref \in dag.ins[n] : current[ref] # 0
        /\ context' = [context EXCEPT ![n] = {[ref |-> r, attempt |-> current[r]] : r \in dag.ins[n]}]
        /\ BeginAttempt(n, spent, lineage)
     \/ /\ \E ref \in dag.ins[n] : current[ref] = 0
        /\ Escalate(n)
        /\ UNCHANGED <<context, lineage, tries, att, runs>>
  /\ UNCHANGED <<dag, phase, written, current, spent>>

\* A wait ends because the run failed: the task returns.
SkipNode(n) ==
  /\ CanStep(n) /\ pc[n] = "waiting" /\ failed /\ dag.deps[n] \subseteq done
  /\ pc' = [pc EXCEPT ![n] = "skipped"]
  /\ UNCHANGED <<dag, phase, status, failed, done, tries, att, runs, written, current, context, lineage, spent>>

(***************************************************************************)
(* The worker returns and the extractors write what they find (W); an      *)
(* output that exists already would be a ValueError.  A worker or          *)
(* extractor error makes NoErrorGate, the first gate, reject at once;      *)
(* otherwise the agent's own gates are awaited.                            *)
(***************************************************************************)
WorkerReturns(n) ==
  /\ CanStep(n) /\ pc[n] = "working"
  /\ \E W \in SUBSET dag.outs[n], err \in BOOLEAN :
       /\ \A ref \in W : ~Exists(ref, att[n])
       /\ written' = written \cup {[ref |-> r, attempt |-> att[n], by |-> n] : r \in W}
       /\ \/ err /\ EndAttempt(n, "rejected")
          \/ /\ ~err
             /\ pc' = [pc EXCEPT ![n] = "judging"]
             /\ UNCHANGED <<status, failed, done, tries, att, runs, current, lineage, spent>>
  /\ UNCHANGED <<dag, phase, context>>

\* The gates' verdict: all approve, or the first that does not decides.
GatesDecide(n) ==
  /\ CanStep(n) /\ pc[n] = "judging"
  /\ \E verdict \in {"approved", "rejected", "abstained", "error"} : EndAttempt(n, verdict)
  /\ UNCHANGED <<dag, phase, written, context>>

\* Code that is not the runner's own runs: `prepare`, the worker, a gate.
AtRisk(n) == n \in Busy \/ (pc[n] = "waiting" /\ Ready(n))

\* It raises RuntimeError: run_node treats that as an escalation, and the
\* lineage log never hears of the attempt.
RuntimeFault(n) ==
  /\ CanStep(n) /\ AtRisk(n)
  /\ Escalate(n)
  /\ UNCHANGED <<dag, phase, tries, att, runs, written, current, context, lineage, spent>>

\* Any other exception ends the task; its completion event is never set.
Crash(n) ==
  /\ CanStep(n) /\ AtRisk(n)
  /\ pc' = [pc EXCEPT ![n] = "crashed"]
  /\ UNCHANGED <<dag, phase, status, failed, done, tries, att, runs, written, current, context, lineage, spent>>

\* gather returns when every task has, or raises the first exception it sees
\* and leaves the other tasks running.
RunEnd ==
  /\ phase = "running"
  /\ \/ (\E n \in Nodes : pc[n] = "crashed") /\ phase' = "raised"
     \/ Over = Nodes /\ (\A n \in Nodes : pc[n] # "crashed") /\ phase' = "returned"
  /\ UNCHANGED <<dag, status, failed, done, pc, tries, att, runs, written, current, context, lineage, spent>>

NodeStep(n) ==
  StartNode(n) \/ SkipNode(n) \/ WorkerReturns(n) \/ GatesDecide(n) \/ RuntimeFault(n) \/ Crash(n)

Next == RunStart \/ RunEnd \/ \E n \in Nodes : NodeStep(n)

Spec == Init /\ [][Next]_vars

(***************************************************************************)
(* The event loop runs every ready task, and a worker or gate that was     *)
(* called answers (the harness bounds both by timeouts).                   *)
(***************************************************************************)
Progress(n) == StartNode(n) \/ SkipNode(n) \/ WorkerReturns(n) \/ GatesDecide(n)

FairSpec ==
  /\ Spec
  /\ WF_vars(RunStart)
  /\ WF_vars(RunEnd)
  /\ \A n \in UNION {d.nodes : d \in Dags} : WF_vars(n \in Nodes /\ Progress(n))

-----------------------------------------------------------------------------
(* Properties. *)

\* Every variable holds a value of its kind.
TypeOK ==
  /\ dag \in Dags
  /\ phase \in {"called", "running", "returned", "raised"}
  /\ status \in {"completed", "escalated", "invalid"}
  /\ failed \in BOOLEAN
  /\ done \subseteq Nodes
  /\ pc \in [Nodes -> {"waiting", "working", "judging", "approved", "escalated", "skipped", "crashed"}]
  /\ tries \in [Nodes -> 0 .. MaxAttempts]
  /\ att \in [Nodes -> Nat]
  /\ runs \in [Agents -> Nat]
  /\ written \subseteq [ref : Refs, attempt : Nat \ {0}, by : Nodes]
  /\ current \in [Refs -> Nat]
  /\ context \in [Nodes -> SUBSET [ref : Refs, attempt : Nat \ {0}]]
  /\ lineage \subseteq [node : Nodes, agent : Agents, attempt : Nat,
                        verdict : {"approved", "rejected", "abstained", "error", "escalated"}]
  /\ spent \in Nat

(***************************************************************************)
(* No node is begun unless everything upstream of it, however far, was     *)
(* approved.  The completion events alone do not give this: an escalation  *)
(* sets them all (dag.py:148-149) and only the look at `failed` after each *)
(* wait keeps the tasks downstream from starting.                          *)
(***************************************************************************)
StartedAfterUpstream ==
  \A n \in Nodes : tries[n] > 0 => Ancestors(dag, n) \subseteq Approved

(***************************************************************************)
(* Two nodes never work on one attempt number of an agent, and what an     *)
(* attempt is about to write is not in the store: put_attempt's ValueError *)
(* (kv.py:57) is never raised, also when two nodes of one agent run at the *)
(* same time and their attempts end in any order.                          *)
(***************************************************************************)
AttemptsUnique ==
  /\ \A m, n \in Nodes : m # n /\ Agent(m) = Agent(n) /\ att[m] # 0 => att[m] # att[n]
  /\ \A n \in Nodes : pc[n] = "working" => \A ref \in dag.outs[n] : ~Exists(ref, att[n])

SoleNode(a) == \A m, n \in Nodes : Agent(m) = a /\ Agent(n) = a => m = n

(***************************************************************************)
(* What _build_input hands a node was written and approved as one attempt  *)
(* by one node, never by the reader or by a node downstream of it, and by  *)
(* a node upstream of it when the producing agent has one node in the DAG. *)
(***************************************************************************)
HandoffFromUpstream ==
  \A n \in Nodes : \A r \in context[n] :
    \E rec \in lineage :
      /\ rec.verdict = "approved"
      /\ rec.attempt = r.attempt
      /\ [ref |-> r.ref, attempt |-> r.attempt, by |-> rec.node] \in written
      /\ rec.node \notin {n} \cup Descendants(dag, n)
      /\ SoleNode(r.ref[1]) => rec.node \in Ancestors(dag, n)

\* run() reports "completed" only when the gates approved every node.
CompletedMeansApproved ==
  phase = "returned" /\ status = "completed" => Approved = Nodes

(***************************************************************************)
(* The cost ceiling is looked at before an attempt and the cost is booked  *)
(* after it (executor.py:85, :124), so parallel nodes can pass it; by      *)
(* less than one attempt per node.                                         *)
(***************************************************************************)
CostCeiling == spent < MaxRunCost + Cardinality(Nodes) * MaxCallCost

(***************************************************************************)
(* A :current pointer moves back to an older attempt only when one agent   *)
(* serves two nodes neither of which is upstream of the other: the slower  *)
(* of the two may have begun first (executor.py:136-139, kv.py:65).        *)
(***************************************************************************)
Unordered(m, n) == m # n /\ m \notin Ancestors(dag, n) /\ n \notin Ancestors(dag, m)

CurrentAdvances ==
  [][\A ref \in Refs : current'[ref] < current[ref] =>
       \E m, n \in Nodes : Unordered(m, n) /\ Agent(m) = ref[1] /\ Agent(n) = ref[1]]_vars

(***************************************************************************)
(* The run keeps the hand-off contract of the KV store.                    *)
(***************************************************************************)
H == INSTANCE Handoff WITH
       Readers  <- UNION {d.nodes : d \in Dags},
       versions <- {[ref |-> w.ref, attempt |-> w.attempt] : w \in written},
       approved <- {<<r.agent, r.attempt>> : r \in {q \in lineage : q.verdict = "approved"}},
       seen     <- UNION {{[reader |-> n, ref |-> r.ref, attempt |-> r.attempt] : r \in context[n]} : n \in Nodes}

HandoffContract == H!Spec

\* Unless one of them is gone without setting its completion event, every task
\* of a run that was started ends and so does the run: nobody waits for an event
\* that is never set.
TasksTerminate ==
  phase = "running" ~> (phase = "returned" /\ Over = Nodes) \/ (\E n \in Nodes : pc[n] = "crashed")
=============================================================================
