------------------------------- MODULE Backlog -------------------------------
(***************************************************************************)
(* The work item's declaration (protocol/backlog.py): its thirteen states, *)
(* the event table, and the view of an item's trail that the turn reads.   *)
(*                                                                         *)
(* An item's log is append-only and is folded on every read.  Here an item *)
(* is the VIEW that fold yields, and appending an event is a function from *)
(* views to views.  ItemTrail.tla checks this incremental view against the *)
(* fold of the whole trail, as eventlog.py and backlog.py compute it.      *)
(***************************************************************************)
EXTENDS Naturals

States == {"ready", "claimed", "doing", "blocked", "falsified", "failed",
           "done", "cancelled", "duplicate", "needs_split", "snoozed",
           "poison", "abandoned"}

Terminal == {"done", "cancelled", "poison", "duplicate", "abandoned",
             "falsified"}

\* Mutant: the terminal guard is gone from the rules that name no state.
AnyState == States

NonTerminal == States \ Terminal

\* The item has no log yet.
Absent == "absent"

\* What a rule's `to` may be besides a state: None, and ReturnTo(awaiting.return_to).
Stay == "stay"
Stored == "stored"

(***************************************************************************)
(* The table ITEM.rules, split into the states an event is legal from and  *)
(* the state it leads to.  "created" is legal only as the first event.     *)
(***************************************************************************)
Events == {"created", "priority_set", "frame_amended", "claimed", "started",
           "released", "gate_rejected", "reclaimed", "blocked", "unblocked",
           "snoozed", "woke", "falsified", "failed", "retried",
           "needs_split", "done", "cancelled", "duplicate", "poisoned",
           "abandoned", "note"}

Leased == {"claimed", "doing"}

From == [e \in Events |->
    CASE e = "created" -> {Absent}
      [] e \in {"priority_set", "frame_amended", "cancelled", "duplicate",
                "abandoned"} -> NonTerminal
      [] e = "note" -> States
      [] e = "claimed" -> {"ready"}
      [] e = "started" -> {"claimed"}
      [] e \in {"released", "reclaimed", "blocked", "failed"} -> Leased
      [] e \in {"gate_rejected", "falsified", "needs_split", "done"} -> {"doing"}
      [] e = "unblocked" -> {"blocked"}
      [] e = "snoozed" -> {"ready", "blocked"}
      [] e = "woke" -> {"snoozed"}
      [] e \in {"retried", "poisoned"} -> {"failed"}]

To == [e \in Events |->
    CASE e \in {"created", "released", "reclaimed", "woke", "retried"} -> "ready"
      [] e \in {"priority_set", "frame_amended", "gate_rejected", "note"} -> Stay
      [] e = "started" -> "doing"
      [] e = "unblocked" -> Stored
      [] e = "poisoned" -> "poison"
      [] OTHER -> e]

(***************************************************************************)
(* The view.  `attempt` and `ttl` are the lease of the last `claimed`      *)
(* record (ttl: ticks until expires_at), `block` the last awaiting object, *)
(* `failure` the last `failed` record if there is one, `wake` the last     *)
(* scheduled_for: 0 if there is none, else the ticks left and one more.    *)
(* Each is kept only while some reader can still ask for it; a block may   *)
(* return an item to any state, so a failure and a schedule are readable   *)
(* until the item is closed, whatever it went through since.               *)
(* `resumable`: the item is doing and its last record is a gate_rejected.  *)
(***************************************************************************)
NoRef == 0
NoBlock == [kind |-> "none", ref |-> NoRef, ret |-> "none", ttl |-> 0,
            policy |-> "none"]
NoFailure == [recorded |-> FALSE, attempt |-> 0, retryable |-> FALSE]

NoItem == [state |-> Absent, resumable |-> FALSE, claims |-> 0, attempt |-> 0,
           ttl |-> 0, block |-> NoBlock, failure |-> NoFailure, wake |-> 0,
           prio |-> 0]

Target(v, e) == CASE To[e] = Stay -> v.state
                  [] To[e] = Stored -> v.block.ret
                  [] OTHER -> To[e]

Accepts(v, e) == v.state \in From[e] /\ Target(v, e) \in States

\* A lease is still readable behind a block: unblocking returns to it.
Behind == Leased \cup {"blocked"}

\* The awaiting object of an item that is blocked after e.  `unblocked` may lead
\* back into blocked; that record stores no return_to for the next one.
Awaited(v, e) == IF e = "unblocked" THEN [v.block EXCEPT !.ret = "none"] ELSE v.block

\* v after e, with the fields no reader can reach any more reset.
After(v, e) ==
    LET s == Target(v, e) IN
    [state |-> s,
     resumable |-> s = "doing" /\ e = "gate_rejected",
     claims |-> v.claims,
     attempt |-> IF s \in Behind THEN v.attempt ELSE 0,
     ttl |-> IF s \in Behind THEN v.ttl ELSE 0,
     block |-> IF s = "blocked" THEN Awaited(v, e) ELSE NoBlock,
     failure |-> IF s \in Terminal THEN NoFailure ELSE v.failure,
     wake |-> IF s \in Terminal THEN 0 ELSE v.wake,
     prio |-> IF s \in Terminal THEN 0 ELSE v.prio]

\* The events that carry a field the turn reads back later.
AfterClaimed(v, n, attempt, ttl) ==
    [After(v, "claimed") EXCEPT !.claims = n, !.attempt = attempt, !.ttl = ttl]
AfterFailed(v, attempt, retryable) ==
    [After(v, "failed") EXCEPT !.failure = [recorded |-> TRUE, attempt |-> attempt,
                                            retryable |-> retryable]]
AfterBlocked(v, awaiting) == [After(v, "blocked") EXCEPT !.block = awaiting]
AfterSnoozed(v, wake) == [After(v, "snoozed") EXCEPT !.wake = wake]
AfterPrioritySet(v, p) == [After(v, "priority_set") EXCEPT !.prio = p]

=============================================================================
