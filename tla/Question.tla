------------------------------- MODULE Question -------------------------------
(***************************************************************************)
(* The question's declaration (protocol/question.py) and the view of its   *)
(* log that the sweeps and the inbox read: its state, the item it belongs  *)
(* to, and the bound it carries for that item (`deadline`, `on_timeout`).  *)
(* `awaiting` is the only open state, and a `timed_out` that lands on a    *)
(* closed question is absorbed: the second of its two rules changes nothing.*)
(***************************************************************************)
EXTENDS Naturals

Awaiting == "awaiting"
Closed == {"answered", "timed_out", "cancelled"}
QuestionStates == {Awaiting} \cup Closed

NotAsked == "not_asked"

\* The policies of on_timeout.  `escalate` and `default:<x>` both resolve the
\* block by returning it, so one value stands for the two of them.
Policies == {"return", "abandon"}

QuestionAccepts(q, e) ==
    \/ e = "asked" /\ q.state = NotAsked
    \/ e \in {"answered", "cancelled"} /\ q.state = Awaiting
    \/ e = "timed_out" /\ q.state \in QuestionStates
    \/ e \in {"nudged"} /\ q.state = Awaiting
    \/ e \in {"noted"} /\ q.state \in QuestionStates

\* The question after e; a closed question stays as it was closed.
QuestionAfter(q, e) ==
    IF q.state = Awaiting /\ e \in Closed THEN [q EXCEPT !.state = e] ELSE q

=============================================================================
