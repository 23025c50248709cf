------------------------------ MODULE Society ------------------------------
(***************************************************************************)
(* What the four roles of society/agents/registry.py do to their           *)
(* workspaces, and what their gates (society/gates/) look at, composed     *)
(* with the run of DagRun: every action is DagRun's, conjoined with what   *)
(* it does to the files.  The workers are the scripts of                   *)
(* providers/replay.py, governed (harness/governed.py) and with a second   *)
(* provider behind the first (providers/fallback.py).                      *)
(*                                                                         *)
(* A workspace is what the gates and scripts tell apart of it: app/main.py *)
(* (the seed's or with POST /login), the tests (the seed's, with a test of *)
(* the login that is right or wrong), static/index.html (the seed's, a     *)
(* form on the contract, a form that drifted from it) and integration's    *)
(* failing probe.                                                          *)
(***************************************************************************)
EXTENDS DagRun, Sequences

CONSTANT Worlds   \* [dag, faults, late, judge, meter, fallback, perish]

\* What the backend's extractors publish (build_agents).
ASSUME SocietyAssumption == {<<"backend", "endpoint">>, <<"backend", "schema">>} \subseteq Refs

(***************************************************************************)
(* What the replay worker has scripts for: DAGs of the four roles, one     *)
(* node each, that join the two sides and ship what was joined; and per    *)
(* role the faults its script acts out (drawn for another role or gate, a  *)
(* fault changes nothing, and no gate would report it).                    *)
(***************************************************************************)
RoleDag(d) ==
  /\ \A n \in d.nodes : d.agent[n] \in {"backend", "frontend", "integration", "ship"}
  /\ \A m, n \in d.nodes : d.agent[m] = d.agent[n] => m = n
  /\ \E n \in d.nodes : d.agent[n] = "backend"
  /\ \A n \in d.nodes :
       LET above == {d.agent[m] : m \in Ancestors(d, n)} IN
       /\ d.agent[n] = "backend" => {<<"backend", "endpoint">>, <<"backend", "schema">>} \subseteq d.outs[n]
       /\ d.agent[n] = "integration" => {"backend", "frontend"} \subseteq above
       /\ d.agent[n] = "ship" => "integration" \in above

ActedFaults ==
  [backend     |-> {"no_error", "output_schema", "files_written", "backend_tests"},
   frontend    |-> {"no_error", "schema_diff"},
   integration |-> {"no_error", "output_schema", "merged_tests"},
   ship        |-> {"no_error", "decision_consistency"}]

Replayable(w) ==
  /\ RoleDag(w.dag)
  /\ \A a \in DOMAIN ActedFaults : w.faults[a] \subseteq ActedFaults[a]
  /\ w.late \in BOOLEAN

ASSUME ReplayAssumption == \A w \in Worlds : Replayable(w)

VARIABLES
  world,      \* what this run may meet
  tree,       \* "backend", "frontend", "root" -> the files there
  prepared,   \* the "_prepared" key of integration
  out         \* node -> the output of its latest attempt, and what became of it

svars == <<dag, phase, status, failed, done, pc, tries, att, runs, written,
           current, context, lineage, spent, world, tree, prepared, out>>

Empty == [main |-> "none", test |-> "none", html |-> "none", probe |-> FALSE]
SeedApp == [main |-> "seed", test |-> "seed", html |-> "seed", probe |-> FALSE]

\* The workspace a node of login_dag.json works in.
Home(n) == IF Agent(n) \in {"backend", "frontend"} THEN Agent(n) ELSE "root"

\* `python -m pytest -q tests` succeeds.
PytestPasses(t) ==
  /\ t.main # "none" /\ ~t.probe
  /\ t.test = "seed" \/ (t.test = "good" /\ t.main = "login")

\* run_command: what a test run reports; it is cut off when it takes too long.
TestRun(t, slow) == PytestPasses(t) /\ ~slow

HasForm(t) == t.html \in {"contract", "drift"}
HasLogin(t) == t.main = "login" /\ HasForm(t)

-----------------------------------------------------------------------------
(* _build_input: the seed app for an empty workspace, and mechanical_merge *)
(* once per run: the backend's files, overlaid by the frontend's static/.  *)

Over2(below, above) == IF above = "none" THEN below ELSE above

\* A plausible bug: the page of the backend's copy of the seed is kept.
MergedPlain ==
  [tree.root EXCEPT !.main = Over2(@, tree.backend.main),
                    !.test = Over2(@, tree.backend.test),
                    !.html = Over2(@, tree.backend.html)]

Merged ==
  [tree.root EXCEPT !.main = Over2(@, tree.backend.main),
                    !.test = Over2(@, tree.backend.test),
                    !.html = Over2(Over2(@, tree.backend.html), tree.frontend.html)]

Furnished(n) ==
  [tree EXCEPT ![Home(n)] =
     IF Agent(n) \in {"backend", "frontend"} /\ @ = Empty THEN SeedApp
     ELSE IF Agent(n) = "integration" /\ ~prepared THEN Merged
     ELSE @]

-----------------------------------------------------------------------------
(* The roles' scripts under a drawn fault f.                               *)

\* A plausible bug: the probe of an earlier attempt is left where it is.
EditLeavingProbe(a, t, f) ==
  CASE a = "backend" /\ f # "files_written" ->
         [t EXCEPT !.main = "login", !.test = IF f = "backend_tests" THEN "bad" ELSE "good"]
    [] a = "frontend" /\ ~HasForm(t) ->
         [t EXCEPT !.html = IF f = "schema_diff" THEN "drift" ELSE "contract"]
    [] a = "integration" -> [t EXCEPT !.probe = @ \/ f = "merged_tests"]
    [] OTHER -> t

(* The page is only written while it has no login form: a form that        *)
(* drifted stays.  Integration adds the probe, or removes the one it finds. *)
Edit(a, t, f) ==
  CASE a = "backend" /\ f # "files_written" ->
         [t EXCEPT !.main = "login", !.test = IF f = "backend_tests" THEN "bad" ELSE "good"]
    [] a = "frontend" /\ ~HasForm(t) ->
         [t EXCEPT !.html = IF f = "schema_diff" THEN "drift" ELSE "contract"]
    [] a = "integration" -> [t EXCEPT !.probe = (f = "merged_tests")]
    [] OTHER -> t

FilesWritten(a, f) ==
  CASE a = "backend" /\ f # "files_written" -> {"app/", "tests/"}
    [] a = "frontend" -> {"static/"}
    [] OTHER -> {}

\* What the report says of itself: the schema used is the contract's
\* (frontend), tests_passed (integration), go (ship).  t: the edited files.
Claim(a, t, f, slow) ==
  CASE a = "frontend" -> f # "schema_diff"
    [] a = "integration" -> TestRun(t, slow)
    [] a = "ship" -> (TestRun(t, slow) /\ HasLogin(t)) \/ f = "decision_consistency"
    [] OTHER -> TRUE

\* Every item of ship's checklist is ok.
AllOk(a, t, f, slow) ==
  a = "ship" => TestRun(t, slow) /\ HasLogin(t) /\ f # "decision_consistency"

\* The recorded attempts a worker draws from: the faults they met.
Drawn(a) == world.faults[a] \cup {"none"}

\* The report, held against the output schema of its role.
Formed(a, f) ==
  CASE f = "no_error" -> "none"
    [] f = "output_schema" /\ a \in {"backend", "integration"} -> "incomplete"
    [] OTHER -> "complete"

(***************************************************************************)
(* ReplayWorker.run: the output of one attempt.  `gate` is the gate that   *)
(* turned it down later on, "pending" until then, "none" when all approve; *)
(* `slow` says that a test run of the attempt or of its gates timed out.   *)
(***************************************************************************)
Output(a, t, f, slow) ==
  [fault  |-> f,
   result |-> Formed(a, f),
   error  |-> f = "no_error",
   files  |-> FilesWritten(a, f),
   claim  |-> Claim(a, t, f, slow),
   allok  |-> AllOk(a, t, f, slow),
   slow   |-> slow,
   gate   |-> "pending"]

\* A provider error: no result, no files on record, nothing known of the work.
Lost == [fault |-> "lost", result |-> "none", error |-> TRUE, files |-> {},
         claim |-> FALSE, allok |-> FALSE, slow |-> FALSE, gate |-> "pending"]

\* Whether a test run of role a may be cut off.
MaySlow(a) == IF world.late /\ a \in {"integration", "ship"} THEN BOOLEAN ELSE {FALSE}

\* What comes of an attempt that is paid for, in a workspace t.
Runs(a, t) ==
  {[tree |-> Edit(a, t, f), out |-> Output(a, Edit(a, t, f), f, slow)] : f \in Drawn(a), slow \in MaySlow(a)}

\* GovernedWorker.run over ReplayWorker.run: the call is refused, runs, or
\* runs and cannot be paid for.
Calls(a, t) ==
  Runs(a, t) \cup IF world.meter
                  THEN {[tree |-> t, out |-> Lost]} \cup {[tree |-> r.tree, out |-> Lost] : r \in Runs(a, t)}
                  ELSE {}

\* FallbackWorker.run: the other provider is asked when the first fails as a
\* provider, in the files it left.  Either may be the first.
Answers(a, t) ==
  IF world.fallback
  THEN UNION {IF r.out = Lost THEN Calls(a, r.tree) ELSE {r} : r \in Calls(a, t)}
  ELSE Calls(a, t)

\* The output keys whose extractor finds a value: the frontend's is never None.
Extracted(n, o) ==
  {ref \in dag.outs[n] : \/ ref[2] = "ui"
                         \/ o.result = "complete"
                         \/ o.result = "incomplete" /\ ref[2] # "schema"}

-----------------------------------------------------------------------------
(* The gates, in the order build_agents gives them. *)

Gates(a) ==
  CASE a = "backend"     -> <<"no_error", "output_schema", "files_written", "endpoint_present", "backend_tests">>
    [] a = "frontend"    -> <<"no_error", "output_schema", "files_written", "uses_endpoint", "schema_diff">>
    [] a = "integration" -> <<"no_error", "output_schema", "merged_tests">>
    [] a = "ship"        -> <<"no_error", "output_schema", "decision_consistency">>

\* A plausible bug: the consumer is held against an attempt nobody approved.
PublishedAnyhow(dtype) == \E w \in written : w.ref = <<"backend", dtype>>

Published(dtype) == current[<<"backend", dtype>>] # 0

\* diff_schemas finds nothing: the schema the consumer used is the contract's.
SameSchema(o) == o.claim

\* UsesEndpointGate: the page calls what the backend's approved attempt offers.
UsesEndpoint(t) == Published("endpoint") /\ HasForm(t)

\* One gate of node n, whose test run times out when slow.
Passes(g, n, slow) ==
  LET o == out[n]
      t == tree[Home(n)]
  IN CASE g = "no_error"             -> ~o.error
       [] g = "output_schema"        -> o.result = "complete"
       [] g = "files_written"        -> (IF Agent(n) = "backend" THEN {"app/", "tests/"} ELSE {"static/"}) \subseteq o.files
       [] g = "endpoint_present"     -> t.main = "login"
       [] g \in {"backend_tests", "merged_tests"} -> TestRun(t, slow)
       [] g = "uses_endpoint"        -> UsesEndpoint(t)
       [] g = "schema_diff"          -> Published("schema") /\ SameSchema(o)
       [] g = "decision_consistency" -> o.claim <=> o.allok

\* JevGate, the last gate of integration and ship: the rule holds the report
\* against merged_tests; the model may say anything, and the rule steps in
\* for a model that cannot be reached.
Rule(n) == IF Agent(n) = "integration" /\ ~out[n].claim THEN "rejected" ELSE "approved"

Jev(n) == {Rule(n)} \cup IF world.judge = "remote" THEN {"approved", "rejected", "abstained"} ELSE {}

\* What the gates may come to, with the gate that decides.
Judgements(n, slow) ==
  LET G == Gates(Agent(n))
      failing == {i \in DOMAIN G : ~Passes(G[i], n, slow)}
      First == CHOOSE i \in failing : \A j \in failing : i <= j
  IN IF failing # {} THEN {[gate |-> G[First], verdict |-> "rejected"]}
     ELSE IF Agent(n) \in {"integration", "ship"} THEN {[gate |-> "jev", verdict |-> v] : v \in Jev(n)}
     ELSE {[gate |-> "none", verdict |-> "approved"]}

-----------------------------------------------------------------------------
(* Actions: those of DagRun, with the files. *)

SocietyInit ==
  /\ world \in Worlds
  /\ Init
  /\ dag = world.dag
  /\ tree = [w \in {"backend", "frontend", "root"} |-> Empty]
  /\ prepared = FALSE
  /\ out = [n \in Nodes |-> Lost]

Ends ==
  /\ RunStart \/ RunEnd \/ \E n \in Nodes : SkipNode(n)
  /\ UNCHANGED <<world, tree, prepared, out>>

\* _build_input reads the inputs before it touches the workspace.
Start(n) ==
  /\ StartNode(n)
  /\ LET readable == \A ref \in dag.ins[n] : current[ref] # 0 IN
       /\ tree' = IF readable THEN Furnished(n) ELSE tree
       /\ prepared' = (prepared \/ (readable /\ Agent(n) = "integration"))
  /\ UNCHANGED <<world, out>>

Work(n) ==
  /\ WorkerReturns(n)
  /\ \E r \in Answers(Agent(n), tree[Home(n)]) :
       /\ written' = written \cup {[ref |-> ref, attempt |-> att[n], by |-> n] : ref \in Extracted(n, r.out)}
       /\ pc'[n] = "judging" <=> ~r.out.error
       /\ tree' = [tree EXCEPT ![Home(n)] = r.tree]
       /\ out' = [out EXCEPT ![n] = [r.out EXCEPT !.gate = IF r.out.error THEN "no_error" ELSE @]]
  /\ UNCHANGED <<world, prepared>>

\* GatesDecide with these gates.  The files a gate reads do not change while
\* it looks: the one thing another node does to it is to publish, and that only
\* turns the answer to a yes.
Judge(n) ==
  /\ CanStep(n) /\ pc[n] = "judging"
  /\ \E slow \in {FALSE, world.late} : \E j \in Judgements(n, slow) :
       /\ EndAttempt(n, j.verdict)
       /\ out' = [out EXCEPT ![n].gate = IF j.verdict = "approved" THEN "none" ELSE j.gate,
                             ![n].slow = @ \/ slow]
  /\ UNCHANGED <<dag, phase, written, context, world, tree, prepared>>

\* An exception: a tool or a gate whose sandbox unit is refused, a file
\* operation that fails.  What the script had written stays.
Perish(n) ==
  /\ world.perish
  /\ RuntimeFault(n) \/ Crash(n)
  /\ tree' \in {tree} \cup CASE pc[n] = "waiting" -> {Furnished(n)}
                             [] pc[n] = "working" -> {[tree EXCEPT ![Home(n)] = r.tree] : r \in Answers(Agent(n), tree[Home(n)])}
                             [] OTHER -> {}
  /\ UNCHANGED <<world, prepared, out>>

SocietyNext == Ends \/ \E n \in Nodes : Start(n) \/ Work(n) \/ Judge(n) \/ Perish(n)

SocietySpec == SocietyInit /\ [][SocietyNext]_svars

-----------------------------------------------------------------------------
(* Properties. *)

\* A frontend that does not wait for its backend found nothing published.
TooEarly(n) == out[n].gate \in {"uses_endpoint", "schema_diff"}
               /\ \E m \in Nodes : Agent(m) = "backend" /\ m \notin Ancestors(dag, n)

(***************************************************************************)
(* A drawn fault is "the gate that will reject it, or None"                *)
(* (replay.py:97), whatever earlier attempts, another provider's or one    *)
(* that could not be paid for, left in the workspace.  Only a test run     *)
(* that timed out, a model's opinion, and a frontend that does not wait    *)
(* for its backend are excuses.                                            *)
(***************************************************************************)
FaultCaught ==
  \A n \in Nodes :
    LET o == out[n] IN
    o.fault # "lost" /\ o.gate # "pending" /\ ~o.slow /\ ~(world.judge = "remote" /\ o.gate = "jev") /\ ~TooEarly(n)
      => o.gate = o.fault

(***************************************************************************)
(* What the gates let through works: from integration's approval on, the   *)
(* merged tree has the endpoint and the form and passes its tests, the     *)
(* report says so unless a model waved it through, and ship says no only   *)
(* when its own test run timed out.                                        *)
(***************************************************************************)
Delivered ==
  \A n \in Approved :
    /\ Agent(n) = "integration" => /\ PytestPasses(tree.root) /\ HasLogin(tree.root)
                                   /\ out[n].claim \/ world.judge = "remote"
    /\ Agent(n) = "ship" => PytestPasses(tree.root) /\ HasLogin(tree.root) /\ (out[n].claim \/ out[n].slow)

(***************************************************************************)
(* No frontend is approved before a backend is, also in a DAG that runs    *)
(* them side by side and whatever the backend's rejected attempts have     *)
(* written meanwhile: the gates read :current (deterministic.py:112, 270). *)
(***************************************************************************)
ContractFirst ==
  \A n \in Approved : Agent(n) = "frontend" => \E m \in Approved : Agent(m) = "backend"
=============================================================================
