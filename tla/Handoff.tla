------------------------------ MODULE Handoff ------------------------------
(***************************************************************************)
(* What the KV store promises about the hand-off between agents, stated    *)
(* without the runner (society/memory/kv.py, class docstring): workers     *)
(* write versioned attempts, only a gate promotes one to `:current`,       *)
(* downstream nodes read `:current` and never a raw attempt.               *)
(*                                                                         *)
(*   versions  the attempts written so far, [ref, attempt]                 *)
(*   approved  the <<agent, attempt>> pairs whose gates all approved       *)
(*   current   ref -> the attempt its pointer names, 0 when there is none  *)
(*   seen      what readers were handed, [reader, ref, attempt]            *)
(*                                                                         *)
(* Refs is the set of references <<agent, dtype>>.                         *)
(***************************************************************************)
EXTENDS Naturals

CONSTANTS Refs, Readers

VARIABLES versions, approved, current, seen

hvars == <<versions, approved, current, seen>>

Init ==
  /\ versions = {}
  /\ approved = {}
  /\ current = [r \in Refs |-> 0]
  /\ seen = {}

\* Attempts appear that did not exist: one that exists is never rewritten, and
\* none is slipped in under an attempt a gate has already approved.
Publish ==
  /\ versions \subseteq versions'
  /\ \A v \in versions' \ versions :
       /\ v.ref \in Refs
       /\ v.attempt \in Nat \ {0}
       /\ <<v.ref[1], v.attempt>> \notin approved
  /\ UNCHANGED <<approved, current, seen>>

\* The gates approve one attempt of an agent: all it wrote is promoted at once.
Promote(agent, attempt) ==
  /\ <<agent, attempt>> \notin approved
  /\ approved' = approved \cup {<<agent, attempt>>}
  /\ current' = [r \in Refs |-> IF r[1] = agent /\ [ref |-> r, attempt |-> attempt] \in versions
                                  THEN attempt ELSE current[r]]
  /\ UNCHANGED <<versions, seen>>

\* A reader is handed what the pointers name, never anything else.
Read ==
  /\ seen \subseteq seen'
  /\ \A s \in seen' \ seen :
       /\ s.reader \in Readers
       /\ s.ref \in Refs
       /\ s.attempt = current[s.ref]
       /\ s.attempt # 0
  /\ UNCHANGED <<versions, approved, current>>

Next ==
  \/ Publish
  \/ \E p \in approved' \ approved : Promote(p[1], p[2])
  \/ Read

Spec == Init /\ [][Next]_hvars

-----------------------------------------------------------------------------
\* Whatever a reader was handed exists and was approved by the gates.
OnlyApprovedIsSeen ==
  \A s \in seen : /\ [ref |-> s.ref, attempt |-> s.attempt] \in versions
                  /\ <<s.ref[1], s.attempt>> \in approved
=============================================================================
