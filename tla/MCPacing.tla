------------------------------ MODULE MCPacing ------------------------------
(* Instances of Pacing for TLC: two sessions on small buckets, one scenario *)
(* for each policy and resource.                                            *)
EXTENDS Pacing, TLC

CONSTANTS sa, sb

Chat(fresh, u, over) == [kind |-> "chat", fresh |-> fresh, usd |-> u, over |-> over]
Tool(k, u) == [kind |-> "tool", n |-> k, usd |-> u]

Calls == <<Chat(1, 0, {0}), Tool(2, 0), Tool(1, 0)>>
Single == <<Chat(1, 0, {0}), Tool(1, 0), Tool(1, 0)>>
Money == <<Chat(1, 4, {-1, 0, 2}), Tool(1, 2), Chat(1, 4, {0})>>
Tokens == <<Chat(5, 0, {0, 2}), Chat(6, 0, {0})>>

World(policy, a, b) ==
  [policy |-> policy, prog |-> sa :> a @@ sb :> b, background |-> TRUE, judge |-> FALSE]
Quiet(policy, a, b) == [World(policy, a, b) EXCEPT !.background = FALSE]

All ==
  {World(p, Calls, Single) : p \in {"gate", "oracle", "uncoordinated"}}
  \cup {World("lease", Calls, Calls)}
  \cup {[World("needs", Calls, Single) EXCEPT !.judge = TRUE]}
  \cup {Quiet(p, Money, Money) : p \in {"gate", "oracle", "uncoordinated"}}
  \cup {[Quiet(p, Money, Money) EXCEPT !.judge = TRUE] : p \in {"needs", "unpaced"}}
  \cup {Quiet(p, Tokens, Tokens) : p \in {"gate", "oracle", "uncoordinated"}}
=============================================================================
