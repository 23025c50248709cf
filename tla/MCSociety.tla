----------------------------- MODULE MCSociety -----------------------------
(* Instances of Society for TLC. *)
EXTENDS Society

Roles == {"backend", "frontend", "integration", "ship"}
Published2 == {<<"backend", "schema">>, <<"backend", "request_schema">>, <<"backend", "endpoint">>}
MCRefs == Published2 \cup {<<"frontend", "ui">>, <<"integration", "report">>, <<"ship", "decision">>}

\* examples/login_dag.json.
Login ==
  [nodes |-> Roles,
   agent |-> [n \in Roles |-> n],
   deps  |-> [backend |-> {}, frontend |-> {"backend"}, integration |-> {"backend", "frontend"}, ship |-> {"integration"}],
   ins   |-> [backend |-> {}, frontend |-> Published2,
              integration |-> {<<"backend", "endpoint">>, <<"frontend", "ui">>},
              ship |-> {<<"integration", "report">>, <<"backend", "endpoint">>}],
   outs  |-> [n \in Roles |-> {ref \in MCRefs : ref[1] = n}]]

\* The frontend beside the backend, reading nothing from it.
Beside == [Login EXCEPT !.deps["frontend"] = {}, !.ins["frontend"] = {}]

\* The rejections in data/society/lineage.jsonl, and those kept for tests.
Recorded == [backend |-> {"no_error", "output_schema", "files_written", "backend_tests"}, frontend |-> {},
             integration |-> {"no_error", "output_schema", "merged_tests"}, ship |-> {}]
ForTests == [Recorded EXCEPT !["frontend"] = {"schema_diff"}, !["ship"] = {"decision_consistency"}]

World(d, faults, late, judge, meter, fallback, perish) ==
  [dag |-> d, faults |-> faults, late |-> late, judge |-> judge, meter |-> meter, fallback |-> fallback, perish |-> perish]

MCWorlds ==
  {World(Login,  ForTests, FALSE, "rule",   FALSE, FALSE, FALSE),
   World(Login,  Recorded, TRUE,  "remote", FALSE, FALSE, FALSE),
   World(Login,  Recorded, TRUE,  "rule",   TRUE,  TRUE,  FALSE),
   World(Beside, ForTests, FALSE, "rule",   TRUE,  FALSE, TRUE)}
MCDags == {w.dag : w \in MCWorlds}
=============================================================================
