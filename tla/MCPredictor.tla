---------------------------- MODULE MCPredictor ----------------------------
(* Instances of Predictor for TLC: short sessions in every kind of stream. *)
EXTENDS Predictor, TLC

CONSTANTS sa, sb, sc

MCResOf == "read" :> "sandbox.cpu" @@ "test" :> "sandbox.cpu" @@ "search" :> "ext"

\* One session of two requests, undisturbed.
Plain ==
  [sids |-> {sa}, child |-> {}, tools |-> {<<>>, <<<<"read", "test">>, <<"search">>>>, <<<<"search">>>>},
   fetch |-> FALSE, spawn |-> FALSE, jev |-> FALSE, batch |-> FALSE, chats |-> 3, requests |-> 1, faults |-> 0, lapse |-> 2]

Fetching == [Plain EXCEPT !.fetch = TRUE, !.tools = {<<>>, <<<<"read">>>>}]
Twice == [Plain EXCEPT !.requests = 2, !.chats = 2]
Failing == [Plain EXCEPT !.faults = 1, !.lapse = 1, !.tools = {<<>>, <<<<"read", "test">>, <<"search">>>>}]
FailingTwice == [Failing EXCEPT !.faults = 2, !.lapse = 0]
Fanning == [Plain EXCEPT !.sids = {sa, sc}, !.child = {sc}, !.spawn = TRUE, !.chats = 2, !.tools = {<<>>}]

\* A model to ask, alone and in batches.
Asking == [Plain EXCEPT !.jev = TRUE, !.chats = 2, !.tools = {<<<<"read", "test">>>>}, !.spawn = TRUE]
Batched == [Asking EXCEPT !.batch = TRUE, !.spawn = FALSE, !.lapse = 0]
Sharing == [Batched EXCEPT !.sids = {sa, sb}, !.chats = 1, !.faults = 1]

All == {Plain, Fetching, Twice, Failing, FailingTwice, Fanning, Asking, Batched, Sharing}
=============================================================================
