------------------------------ MODULE MCEngine ------------------------------
(* Instances of Engine for TLC: a few sessions and narrow resources. *)
EXTENDS Engine, TLC

CONSTANTS sa, sb, sc, sd

\* Roomy in everything; the worlds below narrow what they are about.
Plain ==
  [kids |-> sa :> {} @@ sb :> {}, cap |-> [r \in Units |-> 2], gb |-> [s \in {sa, sb, sc, sd} |-> 1], api |-> {},
   policy |-> "gate", pinned |-> FALSE, tools |-> {<<Tool(1, 0)>>, <<>>}, fetch |-> FALSE, chats |-> 2, requests |-> 1,
   metered |-> FALSE, toolTimeouts |-> FALSE, timers |-> FALSE,
   streak |-> 2, size |-> 100, ctx |-> 1, limit |-> 50, reset |-> 1, outs |-> {1}, reserve |-> 1]

\* One slot and one sandbox for two sessions; the framework keeps the slot
\* while a tool runs.
Narrow(w, S) == [w EXCEPT !.cap = [r \in Units |-> IF r \in S THEN 1 ELSE 2]]
Pinned ==
  [Narrow(Plain, {"slots", "mem"}) EXCEPT !.policy = "uncoordinated", !.pinned = TRUE, !.tools = {<<Tool(1, 0)>>, <<>>},
     !.chats = 3]

\* External calls that answer 429, and may hit their limit.
Bounced ==
  [Narrow(Plain, {"ext", "cpu"}) EXCEPT !.policy = "uncoordinated", !.api = {"ext"}, !.toolTimeouts = TRUE,
     !.tools = {<<Tool(1, 1), Tool(0, 1)>>}, !.timers = TRUE]

\* Sandboxes park and come back warm between requests.
Idle == [Narrow(Plain, {"mem"}) EXCEPT !.requests = 2, !.tools = {<<Tool(2, 0)>>}]

\* A sub-agent needs the sandbox that its orchestrator keeps.
Fan == [Narrow(Plain, {"mem"}) EXCEPT !.kids = sa :> {sc} @@ sb :> {}, !.tools = {<<Tool(1, 0)>>}, !.chats = 3]
Fans == [Plain EXCEPT !.kids = sa :> {sc} @@ sb :> {sd}, !.tools = {<<Tool(1, 0)>>}]

\* Calls and chats that a gate paces.
Paced == [Narrow(Plain, {"ext", "ret"}) EXCEPT !.metered = TRUE, !.fetch = TRUE, !.tools = {<<Tool(0, 1)>>}]

\* Two chats fit while they are prefilled, not while they answer.
Crowded ==
  [Plain EXCEPT !.kids = sa :> {} @@ sb :> {} @@ sc :> {}, !.size = 7, !.ctx = 2, !.tools = {<<>>},
     !.cap = [r \in Units |-> 3], !.limit = 4, !.reset = 2]

\* A mixed parallel group, and a rate limit that pauses it.
Mixed == [Plain EXCEPT !.kids = sa :> {}, !.tools = {<<Tool(2, 1)>>}, !.chats = 3, !.metered = TRUE]

\* Reservations for a parallel group and for sub-agents.
Reserving ==
  [Plain EXCEPT !.policy = "needs", !.kids = sa :> {sc} @@ sb :> {}, !.tools = {<<Tool(2, 0)>>},
     !.gb = [Plain.gb EXCEPT ![sc] = 2]]

Sound == {Pinned, Bounced, Idle, Fan, Fans, Paced, Crowded, Reserving}
Leaky == {Mixed}
=============================================================================
